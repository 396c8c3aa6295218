----------------------------- MODULE DocumentProofs -----------------------------
(***************************************************************************)
(* What the files of a document keep, for any names, contents and storage  *)
(* files, any number of calls, and failures and deaths at any write.       *)
(***************************************************************************)
EXTENDS Document, SequenceTheorems, WellFoundedInduction, TLAPS

-----------------------------------------------------------------------------
(***************************************************************************)
(* The inductive invariant.                                                *)
(***************************************************************************)

Handle == [file : Files, files : Tables, changed : BOOLEAN, prev : Nat]
Entries == UNION {[D -> Entry] : D \in SUBSET Names}
Views == [Plain -> Contents \cup {Absent, Lost}]

\* The offsets are those of files among the first k blocks.
Table(files, b, k) ==
    /\ files \in Tables
    /\ \A n \in DOMAIN files :
         IF n \in Dirs THEN files[n] = 0
         ELSE files[n] \in 1..k /\ b[files[n]].kind = "file"

\* The last directory among the first k blocks is p, or there is none.
Latest(b, p, k) ==
    /\ p \in 0..k
    /\ p > 0 => b[p].kind = "end"
    /\ \A j \in (p + 1)..k : b[j].kind # "end"

\* Each version refers to files before it, and to the version saved before it.
Sound(b) ==
    /\ b \in Seq(Block)
    /\ \A k \in 1..Len(b) :
         b[k].kind = "end" => Table(b[k].files, b, k - 1) /\ Latest(b, b[k].prev, k - 1)

\* A handle knows files that are there, and the version saved last.
Fits(z, b) == z \in Handle /\ Table(z.files, b, Len(b)) /\ Latest(b, z.prev, Len(b))

\* The temporary file of a name is one of its own.
OverlayOK(o) ==
    /\ o \in Entries
    /\ OverlayType(o)
    /\ \A n \in DOMAIN o : o[n].tmp # NoTmp => o[n].tmp[1] = n

\* The partial functions on S.
Functions_(S, T) == UNION {[D -> T] : D \in SUBSET S}

StorageInv ==
    /\ disk \in [Files -> Seq(Block) \cup {NoFile}]
    /\ \A f \in Files : Exists(f) => Sound(disk[f])
    /\ tmps \in Functions_(Tmps, Contents)

\* What was written down can be read as it was, as far as its temporary files are there.
IndexInv ==
    \/ index \in {NoIndex, BrokenIndex}
    \/ /\ index \in [kind : {"index"}, cname : Files \cup {NoFile}, files : Entries, view : Views]
       /\ OverlayOK(index.files)
       /\ \A n \in Plain :
            IF n \notin DOMAIN index.files THEN index.cname = NoFile => index.view[n] = Absent
            ELSE IF ~Live(index.files[n]) THEN index.view[n] = Absent
            ELSE index.files[n].tmp \in DOMAIN tmps => tmps[index.files[n].tmp] = index.view[n]

\* A container that is open is there; one that could not be saved does not open again.
ZipInv ==
    zip # NoZip =>
        /\ zip.file \in Files
        /\ Exists(zip.file)
        /\ Fits(zip, disk[zip.file])
        /\ zip.prev > 0
        /\ zip.changed => ~Ends(disk[zip.file], Len(disk[zip.file]))

SessionInv ==
    /\ opened \in BOOLEAN
    /\ based \in BOOLEAN
    /\ result \in BOOLEAN
    /\ cname = zip.file
    /\ OverlayOK(overlay)
    /\ ~opened => zip = NoZip /\ overlay = <<>> /\ saving = NoSave

Copy == [step : {"container"}, file : Files, view : Views]
Writes == [step : {"files"}, zip : Handle, at_place : BOOLEAN, left : Entries,
           todo : SUBSET Plain, view : Views]

\* The container a save works on.
SavingInv ==
    \/ saving = NoSave
    \/ /\ saving \in Copy
       /\ zip # NoZip
       /\ saving.file # cname
       /\ Exists(saving.file)
    \/ /\ saving \in Writes
       /\ Exists(saving.zip.file)
       /\ Fits(saving.zip, disk[saving.zip.file])
       /\ saving.at_place <=> saving.zip.file = cname
       /\ saving.zip.changed \/ saving.zip.prev > 0
       /\ DOMAIN saving.left \subseteq Files_
       /\ saving.left = Restrict(overlay, DOMAIN saving.left)
       /\ saving.todo \subseteq DOMAIN saving.left

\* A name that was saved is in the container as it was seen; what is not saved
\* yet can be seen, and the rest can be seen or its temporary file is gone.
Tracked(n) ==
    /\ View[n] \in {saving.view[n], Lost}
    /\ n \in DOMAIN saving.left => View[n] = saving.view[n]
    /\ n \notin DOMAIN saving.left =>
         \/ ZipRead(disk[saving.zip.file], saving.zip, n) = saving.view[n]
         \/ ~saving.at_place /\ n \notin DOMAIN overlay /\ zip # NoZip /\ Dated(n)

ViewInv ==
    /\ saving \in Copy => saving.view = View
    /\ saving \in Writes => \A n \in Plain : Tracked(n)

ContainerInv == StorageInv /\ IndexInv /\ ZipInv /\ SessionInv /\ SavingInv /\ ViewInv

\* The canvas and the painted pictures, as they are in memory.
Held == {project} \cup Registered
Meant(n) == IF n = project THEN canvas ELSE Painted(n)

\* The file is to be saved as it is in memory.
Written(n) ==
    /\ n \in DOMAIN overlay
    /\ Live(overlay[n])
    /\ View[n] = Meant(n)

\* What save_as was able to write.
Claimed == Held \ handler.failed
AllWritten == \A n \in Claimed : Written(n)

SaveHandlers == [name : {"save_as"}, file : Files, step : {"pictures", "container"},
                 todo : SUBSET Registered, failed : SUBSET Registered]
Preparing == handler.name = "save_as" /\ handler.step = "pictures"
Storing == handler.name = "save_as" /\ handler.step = "container"

HandlerInv ==
    /\ canvas \in Contents
    /\ strokes \in [Pictures -> Seq(Contents)]
    /\ unsaved \in BOOLEAN
    /\ started \in BOOLEAN
    /\ started => ~opened
    /\ \/ handler = None
       \/ handler \in SaveHandlers /\ opened
       \/ /\ handler \in [name : {"auto_backup"}, step : {"canvas", "container"}]
          /\ opened
          /\ unsaved
    /\ Preparing => saving = NoSave /\ \A n \in Registered \ (handler.todo \cup handler.failed) : Written(n)
    /\ saving # NoSave => Storing /\ \A n \in Claimed : saving.view[n] = Meant(n)
    /\ saving = NoSave /\ Storing => AllWritten
    /\ saving \in Copy => AllWritten
    /\ saving \in Writes =>
         \A n \in Claimed : n \in DOMAIN overlay /\ (n \in DOMAIN saving.left \/ saving.zip.changed)

\* Nothing but files that are written before a save has been done since the
\* document was opened or saved.
CleanInv ==
    opened /\ (handler = None \/ Preparing) /\ result /\ ~unsaved /\ cname # NoFile =>
        /\ DOMAIN overlay \subseteq Held
        /\ Ends(disk[cname], Len(disk[cname]))
        /\ \E k \in 1..Len(disk[cname]) :
             Ends(disk[cname], k) /\ disk[cname][k].files = zip.files
        /\ \A n \in Held \ unwritten : ZipRead(disk[cname], zip, n) = Meant(n)

DocumentInv == ContainerInv /\ HandlerInv /\ CleanInv

-----------------------------------------------------------------------------
(***************************************************************************)
(* The blocks of a container.                                              *)
(***************************************************************************)

\* Numbers some of which have a property have a least one that has it.
Lowest(S) == CHOOSE i \in S : \A j \in S : i <= j

\* A set of numbers that is not empty has a lowest one.
LEMMA LowestExists ==
    ASSUME NEW S \in SUBSET Nat, S # {}
    PROVE  Lowest(S) \in S /\ \A j \in S : Lowest(S) <= j
<1>1. \E i \in S : \A j \in S : i <= j
    <2>1. PICK i \in S : \A j \in S : ~(<<j, i>> \in OpToRel(<, Nat))
        BY NatLessThanWellFounded, WFMin
    <2>2. \A j \in S : ~(j < i)
        BY <2>1, Zenon DEF OpToRel
    <2>3. \A j \in S : i <= j
        BY <2>2
    <2>4. QED
        BY <2>3
<1>2. QED
    BY <1>1 DEF Lowest

\* Two containers begin with the same k blocks.
Agree(b, c, k) == \A i \in 1..k : c[i] = b[i]

\* What a directory says stays true as long as the blocks are there.
LEMMA TableStays ==
    ASSUME NEW b, NEW c, NEW files, NEW k \in Nat, NEW l \in Nat, k <= l,
           Table(files, b, k), Agree(b, c, k)
    PROVE  Table(files, c, l)
<1> SUFFICES ASSUME NEW n \in DOMAIN files, n \notin Dirs
             PROVE  files[n] \in 1..l /\ c[files[n]].kind = "file"
    BY DEF Table
<1>1. files[n] \in 1..k /\ b[files[n]].kind = "file"
    BY DEF Table
<1>2. QED
    BY <1>1 DEF Agree

\* So does which directory is the last.
LEMMA LatestStays ==
    ASSUME NEW b, NEW c, NEW k \in Nat, NEW p, Latest(b, p, k), Agree(b, c, k)
    PROVE  Latest(c, p, k)
<1>1. p \in 0..k /\ (p > 0 => b[p].kind = "end")
    BY DEF Latest
<1>2. p > 0 => c[p].kind = "end"
    BY <1>1 DEF Agree
<1>3. ASSUME NEW j \in (p + 1)..k PROVE c[j].kind # "end"
    <2>1. j \in 1..k
        BY <1>1
    <2>2. QED
        BY <2>1 DEF Latest, Agree
<1>4. QED
    BY <1>1, <1>2, <1>3 DEF Latest

\* A block that is not a directory leaves the last one the last.
LEMMA LatestPasses ==
    ASSUME NEW b, NEW k \in Nat, NEW p, Latest(b, p, k), b[k + 1].kind # "end"
    PROVE  Latest(b, p, k + 1)
<1>1. p \in 0..k /\ (p > 0 => b[p].kind = "end")
    BY DEF Latest
<1>2. ASSUME NEW j \in (p + 1)..(k + 1) PROVE b[j].kind # "end"
    <2>1. j \in (p + 1)..k \/ j = k + 1
        BY <1>1
    <2>2. QED
        BY <2>1 DEF Latest
<1>3. QED
    BY <1>1, <1>2 DEF Latest

\* A directory is the last one where it is the last block.
LEMMA LatestHere ==
    ASSUME NEW b, NEW k \in Nat \ {0}, b[k].kind = "end"
    PROVE  Latest(b, k, k)
BY DEF Latest

\* What can be appended to a container: anything but a directory that is not true of it.
Fitting(x, b) ==
    /\ x \in Block
    /\ x.kind = "end" => Table(x.files, b, Len(b)) /\ Latest(b, x.prev, Len(b))

\* Appending.
LEMMA Appended ==
    ASSUME NEW S, NEW b \in Seq(S), NEW x
    PROVE  /\ Len(b) \in Nat
           /\ Len(Append(b, x)) = Len(b) + 1
           /\ Append(b, x)[Len(b) + 1] = x
           /\ Agree(b, Append(b, x), Len(b))
BY DEF Agree

\* A container stays sound when a block that fits it is appended.
LEMMA SoundAppend ==
    ASSUME NEW b, Sound(b), NEW x, Fitting(x, b)
    PROVE  Sound(Append(b, x))
<1> DEFINE c == Append(b, x)
           l == Len(b)
<1>1. b \in Seq(Block) /\ x \in Block
    BY DEF Sound, Fitting
<1>2. l \in Nat /\ Len(c) = l + 1 /\ c[l + 1] = x /\ Agree(b, c, l)
    BY <1>1, Appended
<1>3. c \in Seq(Block)
    BY <1>1
<1>4. /\ x.kind = "end" => Table(x.files, b, l) /\ Latest(b, x.prev, l)
      /\ \A k \in 1..l : b[k].kind = "end" => Table(b[k].files, b, k - 1) /\ Latest(b, b[k].prev, k - 1)
    BY DEF Sound, Fitting
<1> HIDE DEF c, l
<1>5. ASSUME NEW k \in 1..Len(c), c[k].kind = "end"
      PROVE  Table(c[k].files, c, k - 1) /\ Latest(c, c[k].prev, k - 1)
    <2>1. CASE k = l + 1
        <3>1. Table(x.files, b, l) /\ Latest(b, x.prev, l)
            BY <1>2, <1>4, <1>5, <2>1
        <3>2. Table(x.files, c, l) /\ Latest(c, x.prev, l)
            BY <1>2, <3>1, TableStays, LatestStays
        <3>3. k - 1 = l /\ c[k] = x
            BY <1>2, <2>1
        <3>4. QED
            BY <3>2, <3>3
    <2>2. CASE k # l + 1
        <3>1. k \in 1..l /\ k - 1 \in Nat
            BY <1>2, <2>2
        <3>2. c[k] = b[k] /\ Agree(b, c, k - 1)
            BY <1>2, <3>1 DEF Agree
        <3>3. Table(b[k].files, b, k - 1) /\ Latest(b, b[k].prev, k - 1)
            BY <1>4, <1>5, <3>1, <3>2
        <3>4. Table(b[k].files, c, k - 1) /\ Latest(c, b[k].prev, k - 1)
            BY <3>1, <3>2, <3>3, TableStays, LatestStays
        <3>5. QED
            BY <3>2, <3>4
    <2>3. QED
        BY <2>1, <2>2
<1>6. QED
    BY <1>3, <1>5 DEF Sound, c

\* The beginning of a container.
LEMMA Prefix ==
    ASSUME NEW S, NEW b \in Seq(S), NEW k \in 0..Len(b)
    PROVE  /\ SubSeq(b, 1, k) \in Seq(S)
           /\ Len(SubSeq(b, 1, k)) = k
           /\ Agree(SubSeq(b, 1, k), b, k)
BY DEF Agree

\* What is left of a sound container that was cut off is sound.
LEMMA SoundPrefix ==
    ASSUME NEW b, Sound(b), NEW k \in 0..Len(b)
    PROVE  Sound(SubSeq(b, 1, k))
<1> DEFINE c == SubSeq(b, 1, k)
<1>1. b \in Seq(Block) /\ Len(b) \in Nat /\ k \in Nat /\ k <= Len(b)
    BY DEF Sound
<1>2. c \in Seq(Block) /\ Len(c) = k /\ Agree(c, b, k)
    BY <1>1, Prefix
<1>3. \A j \in 1..Len(b) : b[j].kind = "end" => Table(b[j].files, b, j - 1) /\ Latest(b, b[j].prev, j - 1)
    BY DEF Sound
<1> HIDE DEF c
<1>4. ASSUME NEW j \in 1..k, c[j].kind = "end"
      PROVE  Table(c[j].files, c, j - 1) /\ Latest(c, c[j].prev, j - 1)
    <2>1. j \in 1..Len(b) /\ j - 1 \in Nat /\ b[j] = c[j]
        BY <1>1, <1>2 DEF Agree
    <2>2. Agree(b, c, j - 1)
        BY <1>1, <1>2 DEF Agree
    <2>3. Table(c[j].files, b, j - 1) /\ Latest(b, c[j].prev, j - 1)
        BY <1>3, <1>4, <2>1
    <2>4. QED
        BY <2>1, <2>2, <2>3, TableStays, LatestStays
<1>5. QED
    BY <1>2, <1>4 DEF Sound, c

-----------------------------------------------------------------------------
(***************************************************************************)
(* The handles on a container.                                             *)
(***************************************************************************)

\* A handle knows the same container when it has grown by what is no directory.
LEMMA FitsStays ==
    ASSUME NEW z, NEW b \in Seq(Block), Fits(z, b), NEW x, x.kind # "end"
    PROVE  Fits(z, Append(b, x))
<1> DEFINE c == Append(b, x)
           l == Len(b)
<1>1. l \in Nat /\ Len(c) = l + 1 /\ c[l + 1] = x /\ Agree(b, c, l)
    BY Appended
<1>2. z \in Handle /\ Table(z.files, b, l) /\ Latest(b, z.prev, l)
    BY DEF Fits
<1> HIDE DEF c, l
<1>3. Table(z.files, c, l + 1) /\ Latest(c, z.prev, l)
    BY <1>1, <1>2, TableStays, LatestStays
<1>4. Latest(c, z.prev, l + 1)
    BY <1>1, <1>3, LatestPasses
<1>5. QED
    BY <1>1, <1>2, <1>3, <1>4 DEF Fits, c

\* What is read stays the same as long as the blocks are there.
LEMMA ReadStays ==
    ASSUME NEW z, NEW b, NEW c, Fits(z, b), Agree(b, c, Len(b)), NEW n \in Plain
    PROVE  ZipRead(c, z, n) = ZipRead(b, z, n)
<1>1. n \notin Dirs
    BY NamesAssumption
<1>2. n \in DOMAIN z.files => z.files[n] \in 1..Len(b)
    BY <1>1 DEF Fits, Table
<1>3. QED
    BY <1>2 DEF ZipRead, ZipIsFile, Agree

\* A version that is opened, the last one or an earlier one.
LEMMA OpenedFits ==
    ASSUME NEW b, Sound(b), NEW k, Ends(b, k), Ends(b, Len(b)), NEW f \in Files
    PROVE  /\ Fits(ZipOpened(f, b, k), b)
           /\ ZipOpened(f, b, k).prev > 0
<1> DEFINE l == Len(b)
<1>1. l \in Nat \ {0} /\ b[l].kind = "end" /\ k \in 1..l /\ b[k].kind = "end"
    BY DEF Ends, Sound
<1>2. Table(b[k].files, b, k - 1)
    BY <1>1 DEF Sound
<1> HIDE DEF l
<1>3. Agree(b, b, k - 1) /\ k - 1 \in Nat /\ k - 1 <= l
    BY <1>1 DEF Agree
<1>4. Table(b[k].files, b, l) /\ Latest(b, l, l)
    BY <1>1, <1>2, <1>3, TableStays, LatestHere
<1>5. b[k].files \in Tables
    BY <1>4 DEF Table
<1>6. QED
    BY <1>1, <1>4, <1>5 DEF Fits, ZipOpened, Handle, l

\* A container that is new.
LEMMA CreatedFits ==
    ASSUME NEW f \in Files
    PROVE  Fits(ZipCreated(f), <<>>) /\ Sound(<<>>)
<1>1. <<>> \in Tables
    <2>1. <<>> \in [{} -> Nat]
        OBVIOUS
    <2>2. QED
        BY <2>1 DEF Tables
<1>2. ZipCreated(f) \in Handle
    BY <1>1 DEF ZipCreated, Handle
<1>3. Table(<<>>, <<>>, 0)
    BY <1>1 DEF Table
<1>4. Latest(<<>>, 0, 0)
    BY DEF Latest
<1>5. QED
    BY <1>2, <1>3, <1>4 DEF Fits, ZipCreated, Sound

\* The handle after a save, and what it saved.
LEMMA SavedFits ==
    ASSUME NEW b, Sound(b), NEW z, Fits(z, b)
    PROVE  /\ Sound(ZipSaved(z, b))
           /\ Agree(b, ZipSaved(z, b), Len(b))
           /\ Fits(ZipAfterSave(z, b), ZipSaved(z, b))
           /\ ZipAfterSave(z, b).file = z.file
           /\ ZipAfterSave(z, b).files = z.files
           /\ ~ZipAfterSave(z, b).changed
           /\ z.changed \/ z.prev > 0 => ZipAfterSave(z, b).prev > 0
<1> DEFINE x == EndBlock(z.files, z.prev)
           c == Append(b, x)
           l == Len(b)
           y == [z EXCEPT !.changed = FALSE, !.prev = l + 1]
<1>1. /\ z \in Handle /\ Table(z.files, b, l) /\ Latest(b, z.prev, l)
      /\ b \in Seq(Block)
    BY DEF Fits, Sound
<1>2. z.files \in Tables /\ z.prev \in Nat /\ z.changed \in BOOLEAN /\ z.file \in Files
    BY <1>1 DEF Handle
<1>3. x \in Block /\ x.kind = "end" /\ x.files = z.files /\ x.prev = z.prev
    BY <1>2 DEF Block, EndBlock
<1>4. Sound(c)
    BY <1>1, <1>3, SoundAppend DEF Fitting
<1>5. l \in Nat /\ Len(c) = l + 1 /\ c[l + 1] = x /\ Agree(b, c, l)
    BY <1>1, Appended
<1>6. /\ y \in Handle
      /\ y.file = z.file /\ y.files = z.files /\ ~y.changed /\ y.prev = l + 1
    <2>1. l + 1 \in Nat
        BY <1>5
    <2> HIDE DEF l, c
    <2>2. DOMAIN z = {"file", "files", "changed", "prev"}
        BY <1>1 DEF Handle
    <2>3. y.file = z.file /\ y.files = z.files
        BY <2>2
    <2>4. ~y.changed
        BY <2>2, Zenon
    <2>5. y.prev = l + 1
        BY <2>2
    <2>6. y \in Handle
        BY <1>1, <2>1 DEF Handle
    <2>7. QED
        BY <2>3, <2>4, <2>5, <2>6
<1>7. Table(z.files, c, l + 1)
    BY <1>1, <1>5, TableStays
<1>8. Latest(c, l + 1, l + 1)
    <2>1. c[l + 1].kind = "end"
        BY <1>3, <1>5
    <2> HIDE DEF c, l, x
    <2>2. QED
        BY <1>5, <2>1, LatestHere
<1>9. Fits(y, c)
    BY <1>5, <1>6, <1>7, <1>8 DEF Fits
<1>10. Agree(b, b, l)
    BY DEF Agree
<1>11. CASE z.changed
    <2>1. ZipSaved(z, b) = c /\ ZipAfterSave(z, b) = y
        BY <1>11 DEF ZipSaved, ZipAfterSave
    <2>2. y.prev > 0
        BY <1>5, <1>6
    <2> HIDE DEF c, y, l
    <2>3. QED
        BY <1>4, <1>5, <1>6, <1>9, <2>1, <2>2 DEF l
<1>12. CASE ~z.changed
    <2>1. ZipSaved(z, b) = b /\ ZipAfterSave(z, b) = z
        BY <1>12 DEF ZipSaved, ZipAfterSave
    <2>2. QED
        BY <1>10, <1>12, <2>1
<1>13. QED
    BY <1>2, <1>11, <1>12

\* A handle that is let go of saves what it can, or leaves a part of it.
LEMMA DroppedSound ==
    ASSUME NEW b, Sound(b), NEW z, Fits(z, b), NEW d \in Dropped(z, b)
    PROVE  /\ Sound(d)
           /\ Agree(b, d, Len(b))
           /\ ~z.changed => d = b
<1>1. b \in Seq(Block)
    BY DEF Sound
<1>2. CASE d = ZipSaved(z, b)
    BY <1>2, SavedFits DEF ZipSaved
<1>3. CASE z.changed /\ d = Append(b, Broken)
    <2>1. Fitting(Broken, b)
        BY DEF Fitting, Broken, Block
    <2>2. QED
        BY <1>1, <1>3, <2>1, SoundAppend, Appended
<1>4. QED
    BY <1>2, <1>3 DEF Dropped

-----------------------------------------------------------------------------
(***************************************************************************)
(* What the user can choose from.                                          *)
(***************************************************************************)

\* Going back from version to version: the definition of HistorySizes has one
\* solution, and it leaves no version of a container that opens out.
LEMMA HistoryIs ==
    ASSUME NEW b, Sound(b)
    PROVE  HistorySizes(b) = IF Ends(b, Len(b)) THEN {j \in 1..Len(b) : Ends(b, j)} ELSE {}
<1> DEFINE l == Len(b)
           Upto(k) == {j \in 1..k : Ends(b, j)}
           Back(F, k) == IF ~Ends(b, k) THEN {}
                         ELSE {k} \cup IF b[k].prev \in 1..(k - 1) THEN F[b[k].prev] ELSE {}
           K == CHOOSE F : F = [k \in 0..l |-> Back(F, k)]
           W == [k \in 0..l |-> IF ~Ends(b, k) THEN {} ELSE Upto(k)]
<1>1. HistorySizes(b) = K[l]
    BY DEF HistorySizes
<1>2. l \in Nat
    BY DEF Sound
<1>3. ASSUME NEW k \in 0..l, Ends(b, k)
      PROVE  /\ k \in 1..l
             /\ b[k].prev \in 0..(k - 1)
             /\ b[k].prev > 0 => Ends(b, b[k].prev)
             /\ \A j \in (b[k].prev + 1)..(k - 1) : ~Ends(b, j)
    <2>1. k \in 1..l /\ Latest(b, b[k].prev, k - 1)
        BY <1>3 DEF Ends, Sound
    <2>2. QED
        BY <1>2, <2>1 DEF Latest, Ends
<1>4. ASSUME NEW k \in 0..l PROVE W[k] = Back(W, k)
    <2>1. CASE ~Ends(b, k)
        BY <2>1
    <2>2. CASE Ends(b, k)
        <3> DEFINE p == b[k].prev
        <3>1. /\ k \in 1..l
              /\ p \in 0..(k - 1)
              /\ p > 0 => Ends(b, p)
              /\ \A j \in (p + 1)..(k - 1) : ~Ends(b, j)
            BY <1>3, <2>2
        <3> HIDE DEF p
        <3>2. CASE p = 0
            <4>1. Upto(k) = {k}
                BY <2>2, <3>1, <3>2
            <4>2. Back(W, k) = {k}
                BY <2>2, <3>2 DEF p
            <4>3. QED
                BY <2>2, <4>1, <4>2
        <3>3. CASE p # 0
            <4>1. p \in 1..(k - 1) /\ p \in 0..l /\ Ends(b, p)
                BY <1>2, <3>1, <3>3
            <4>2. Upto(k) = {k} \cup Upto(p)
                BY <2>2, <3>1, <4>1
            <4>3. W[p] = Upto(p)
                BY <4>1
            <4>4. Back(W, k) = {k} \cup W[p]
                BY <2>2, <4>1 DEF p
            <4>5. QED
                BY <2>2, <4>2, <4>3, <4>4
        <3>4. QED
            BY <3>2, <3>3
    <2>3. QED
        BY <2>1, <2>2
<1>5. W = [k \in 0..l |-> Back(W, k)]
    <2>1. W = [k \in 0..l |-> W[k]]
        OBVIOUS
    <2> HIDE DEF W, Back
    <2>2. QED
        BY <1>4, <2>1
<1> HIDE DEF Back
<1>6. K = [k \in 0..l |-> Back(K, k)]
    <2>1. \E F : F = [k \in 0..l |-> Back(F, k)]
        BY <1>5
    <2>2. QED
        BY <2>1
<1> HIDE DEF K, W
<1>7. \A k \in 0..l : K[k] = Back(K, k)
    BY <1>6
<1> DEFINE Bad == {k \in 0..l : K[k] # W[k]}
<1>8. Bad = {}
    <2> SUFFICES ASSUME Bad # {} PROVE FALSE
        OBVIOUS
    <2> DEFINE m == Lowest(Bad)
    <2>1. m \in Bad /\ \A j \in Bad : m <= j
        <3>1. Bad \in SUBSET Nat
            BY <1>2
        <3> HIDE DEF Bad
        <3>2. QED
            BY <3>1, LowestExists
    <2> HIDE DEF m
    <2>2. m \in 0..l /\ K[m] # W[m]
        BY <2>1
    <2>3. K[m] = Back(K, m) /\ W[m] = Back(W, m)
        BY <1>4, <1>7, <2>2
    <2>4. Ends(b, m) /\ b[m].prev \in 1..(m - 1)
        BY <2>2, <2>3 DEF Back
    <2> DEFINE p == b[m].prev
    <2>5. p \in 0..l /\ ~(m <= p)
        BY <1>2, <2>2, <2>4
    <2>6. K[p] = W[p]
        BY <2>1, <2>5
    <2>7. QED
        BY <2>2, <2>3, <2>4, <2>6 DEF Back
<1>9. K[l] = W[l]
    <2>1. l \in 0..l
        BY <1>2
    <2>2. QED
        BY <1>8, <2>1
<1>10. W[l] = IF Ends(b, l) THEN Upto(l) ELSE {}
    <2>1. l \in 0..l
        BY <1>2
    <2>2. QED
        BY <2>1 DEF W
<1>11. QED
    BY <1>1, <1>9, <1>10

-----------------------------------------------------------------------------
(***************************************************************************)
(* Handles while a container is changed.                                   *)
(***************************************************************************)

\* A handle with other names.
Retabled(z, files, x) == [z EXCEPT !.files = files, !.changed = x]

\* A handle with another table is a handle of the same container.
LEMMA RetabledHandle ==
    ASSUME NEW z \in Handle, NEW files \in Tables, NEW x \in BOOLEAN
    PROVE  /\ Retabled(z, files, x) \in Handle
           /\ Retabled(z, files, x).file = z.file
           /\ Retabled(z, files, x).files = files
           /\ Retabled(z, files, x).prev = z.prev
           /\ Retabled(z, files, x).changed <=> x
<1> DEFINE y == [z EXCEPT !.files = files, !.changed = x]
<1>1. DOMAIN z = {"file", "files", "changed", "prev"}
    BY DEF Handle
<1>2. y.file = z.file /\ y.files = files /\ y.prev = z.prev
    BY <1>1
<1>3. y.changed <=> x
    BY <1>1, Zenon
<1>4. y \in Handle
    BY DEF Handle
<1>5. QED
    BY <1>2, <1>3, <1>4 DEF Retabled

\* Functions from names.
LEMMA TableFrom ==
    ASSUME NEW D \in SUBSET Names, NEW f \in [D -> Nat]
    PROVE  f \in Tables
BY DEF Tables

\* The names of a table.
LEMMA DomainOfTable ==
    ASSUME NEW f \in Tables
    PROVE  DOMAIN f \in SUBSET Names /\ f \in [DOMAIN f -> Nat]
BY DEF Tables

\* Names are taken out of a container.
LEMMA RemovedFits ==
    ASSUME NEW b \in Seq(Block), NEW z, Fits(z, b), NEW ns
    PROVE  /\ Fits(ZipRemove(z, ns), b)
           /\ ZipRemove(z, ns).file = z.file
           /\ ZipRemove(z, ns).prev = z.prev
           /\ z.changed => ZipRemove(z, ns).changed
           /\ \A n \in Plain : ZipRead(b, ZipRemove(z, ns), n) = IF n \in ns THEN Absent ELSE ZipRead(b, z, n)
<1> DEFINE files == [m \in DOMAIN z.files \ ns |-> z.files[m]]
           x == z.changed \/ ns \cap DOMAIN z.files # {}
           y == Retabled(z, files, x)
<1>1. z \in Handle /\ Table(z.files, b, Len(b)) /\ Latest(b, z.prev, Len(b))
    BY DEF Fits
<1>2. z.files \in Tables /\ z.changed \in BOOLEAN
    BY <1>1, Zenon DEF Handle
<1>3. files \in Tables
    <2>1. files \in [DOMAIN z.files \ ns -> Nat] /\ DOMAIN z.files \ ns \in SUBSET Names
        BY <1>2, DomainOfTable
    <2>2. QED
        BY <2>1, TableFrom
<1>4. x \in BOOLEAN
    BY <1>2, Zenon
<1>5. ZipRemove(z, ns) = y
    BY Zenon DEF ZipRemove, Retabled
<1>6. /\ y \in Handle
      /\ y.file = z.file /\ y.files = files /\ y.prev = z.prev
      /\ y.changed <=> x
    <2> HIDE DEF files, x
    <2>1. QED
        BY <1>1, <1>3, <1>4, RetabledHandle
<1> HIDE DEF y
<1>7. Table(files, b, Len(b))
    <2>1. \A n \in DOMAIN files : n \in DOMAIN z.files /\ files[n] = z.files[n]
        OBVIOUS
    <2> HIDE DEF files
    <2>2. QED
        BY <1>1, <1>3, <2>1 DEF Table
<1>8. \A n \in Plain : ZipRead(b, y, n) = IF n \in ns THEN Absent ELSE ZipRead(b, z, n)
    BY <1>6 DEF ZipRead, ZipIsFile
<1>9. QED
    BY <1>1, <1>5, <1>6, <1>7, <1>8 DEF Fits

\* Directories are made.
LEMMA DirectoriesFit ==
    ASSUME NEW b \in Seq(Block), NEW z, Fits(z, b), NEW ds \in SUBSET Dirs
    PROVE  /\ Fits(ZipCreateDirectories(z, ds), b)
           /\ ZipCreateDirectories(z, ds).file = z.file
           /\ ZipCreateDirectories(z, ds).prev = z.prev
           /\ z.changed => ZipCreateDirectories(z, ds).changed
           /\ \A n \in Plain : ZipRead(b, ZipCreateDirectories(z, ds), n) = ZipRead(b, z, n)
<1> DEFINE files == [m \in DOMAIN z.files \cup ds |-> IF m \in ds THEN 0 ELSE z.files[m]]
           x == z.changed \/ ds \ DOMAIN z.files # {}
           y == Retabled(z, files, x)
<1>1. z \in Handle /\ Table(z.files, b, Len(b)) /\ Latest(b, z.prev, Len(b))
    BY DEF Fits
<1>2. z.files \in Tables /\ z.changed \in BOOLEAN
    BY <1>1, Zenon DEF Handle
<1>3. files \in Tables
    <2>1. DOMAIN z.files \in SUBSET Names /\ z.files \in [DOMAIN z.files -> Nat]
        BY <1>2, DomainOfTable
    <2>2. files \in [DOMAIN z.files \cup ds -> Nat] /\ DOMAIN z.files \cup ds \in SUBSET Names
        BY <2>1 DEF Names
    <2>3. QED
        BY <2>2, TableFrom
<1>4. x \in BOOLEAN
    BY <1>2, Zenon
<1>5. ZipCreateDirectories(z, ds) = y
    BY Zenon DEF ZipCreateDirectories, Retabled
<1>6. /\ y \in Handle
      /\ y.file = z.file /\ y.files = files /\ y.prev = z.prev
      /\ y.changed <=> x
    <2> HIDE DEF files, x
    <2>1. QED
        BY <1>1, <1>3, <1>4, RetabledHandle
<1> HIDE DEF y
<1>7. Table(files, b, Len(b))
    <2>1. \A n \in DOMAIN files : IF n \in ds THEN files[n] = 0
                                  ELSE n \in DOMAIN z.files /\ files[n] = z.files[n]
        OBVIOUS
    <2> HIDE DEF files
    <2>2. QED
        BY <1>1, <1>3, <2>1 DEF Table
<1>8. \A n \in Plain : ZipRead(b, y, n) = ZipRead(b, z, n)
    <2>1. \A n \in Plain : n \notin ds
        BY NamesAssumption
    <2>2. QED
        BY <1>6, <2>1 DEF ZipRead, ZipIsFile
<1>9. QED
    BY <1>1, <1>5, <1>6, <1>7, <1>8 DEF Fits

\* The contents of a name are written behind the last block.
LEMMA WrittenFits ==
    ASSUME NEW b \in Seq(Block), NEW z, Fits(z, b), NEW n \in Plain, NEW c \in Contents
    PROVE  /\ Fits(ZipWritten(z, b, n), Append(b, FileBlock(c)))
           /\ ZipWritten(z, b, n).file = z.file
           /\ ZipWritten(z, b, n).changed
           /\ ZipRead(Append(b, FileBlock(c)), ZipWritten(z, b, n), n) = c
           /\ \A m \in Plain \ {n} : ZipRead(Append(b, FileBlock(c)), ZipWritten(z, b, n), m) = ZipRead(b, z, m)
<1> DEFINE l == Len(b)
           e == Append(b, FileBlock(c))
           files == With(z.files, n, l + 1)
           x == TRUE
           y == Retabled(z, files, x)
<1>1. /\ FileBlock(c).kind = "file"
      /\ FileBlock(c).data = c
    BY DEF FileBlock
<1>2. l \in Nat /\ Len(e) = l + 1 /\ e[l + 1] = FileBlock(c) /\ Agree(b, e, l)
    BY Appended
<1>3. z \in Handle /\ Fits(z, e)
    BY <1>1, FitsStays DEF Fits
<1>4. \A m \in Plain : ZipRead(e, z, m) = ZipRead(b, z, m)
    BY <1>2, ReadStays
<1> HIDE DEF l, e
<1>5. z.files \in Tables
    BY <1>3 DEF Handle
<1>6. /\ files \in Tables
      /\ DOMAIN files = DOMAIN z.files \cup {n}
      /\ files[n] = l + 1
      /\ \A m \in DOMAIN z.files \ {n} : files[m] = z.files[m]
    <2>1. DOMAIN z.files \in SUBSET Names /\ z.files \in [DOMAIN z.files -> Nat]
        BY <1>5, DomainOfTable
    <2>2. /\ files \in [DOMAIN z.files \cup {n} -> Nat] /\ DOMAIN z.files \cup {n} \in SUBSET Names
        BY <1>2, <2>1 DEF Names, With
    <2>3. files \in Tables
        BY <2>2, TableFrom
    <2>4. QED
        BY <2>3 DEF With
<1>7. ZipWritten(z, b, n) = y
    BY Zenon DEF ZipWritten, Retabled, l
<1>8. /\ y \in Handle
      /\ y.file = z.file /\ y.files = files /\ y.prev = z.prev
      /\ y.changed <=> x
    <2>1. x \in BOOLEAN
        OBVIOUS
    <2> HIDE DEF files, x
    <2>2. QED
        BY <1>3, <1>6, <2>1, RetabledHandle
<1> HIDE DEF y, files
<1>9. Table(z.files, e, l + 1) /\ Latest(e, z.prev, l + 1)
    BY <1>2, <1>3 DEF Fits
<1>10. Table(files, e, l + 1)
    <2>1. n \notin Dirs
        BY NamesAssumption
    <2>2. l + 1 \in 1..(l + 1) /\ e[l + 1].kind = "file"
        BY <1>1, <1>2
    <2>3. QED
        BY <1>6, <1>9, <2>1, <2>2 DEF Table
<1>11. ZipRead(e, y, n) = c
    BY <1>1, <1>2, <1>6, <1>8 DEF ZipRead, ZipIsFile
<1>12. \A m \in Plain \ {n} : ZipRead(e, y, m) = ZipRead(e, z, m)
    BY <1>6, <1>8 DEF ZipRead, ZipIsFile
<1>13. Fits(y, e)
    BY <1>2, <1>8, <1>9, <1>10 DEF Fits
<1>14. QED
    BY <1>4, <1>7, <1>8, <1>11, <1>12, <1>13 DEF e

-----------------------------------------------------------------------------
(***************************************************************************)
(* The overlay and its temporary files.                                    *)
(***************************************************************************)

\* Parts of functions.
LEMMA RestrictFacts ==
    ASSUME NEW f, NEW S
    PROVE  /\ DOMAIN Restrict(f, S) = S
           /\ \A x \in S : Restrict(f, S)[x] = f[x]
BY DEF Restrict

\* What a function is without a name.
LEMMA WithoutFacts ==
    ASSUME NEW f, NEW n
    PROVE  /\ DOMAIN Without(f, n) = DOMAIN f \ {n}
           /\ \A m \in DOMAIN f \ {n} : Without(f, n)[m] = f[m]
BY DEF Without

\* What a function is with a name more.
LEMMA WithFacts ==
    ASSUME NEW f, NEW n, NEW x
    PROVE  /\ DOMAIN With(f, n, x) = DOMAIN f \cup {n}
           /\ With(f, n, x)[n] = x
           /\ \A m \in DOMAIN f \ {n} : With(f, n, x)[m] = f[m]
BY DEF With

\* What an overlay says of a name.
LEMMA OverlayFacts ==
    ASSUME NEW o, OverlayOK(o), NEW n \in DOMAIN o
    PROVE  /\ n \in Names
           /\ o[n] \in Entry
           /\ o[n].directory <=> n \in Dirs
           /\ Live(o[n]) <=> n \in Plain /\ ~o[n].removed
           /\ Live(o[n]) => o[n].tmp \in Tmps /\ o[n].tmp[1] = n
           /\ ~Live(o[n]) => o[n].tmp = NoTmp
<1>1. /\ n \in Names
      /\ o[n] \in Entry
      /\ o[n].directory <=> n \in Dirs
      /\ o[n].tmp = NoTmp <=> o[n].directory \/ o[n].removed
      /\ o[n].tmp # NoTmp => o[n].tmp[1] = n
    BY DEF OverlayOK, OverlayType
<1>2. n \in Plain <=> n \notin Dirs
    BY <1>1, NamesAssumption DEF Names
<1>3. o[n].tmp \in Tmps \cup {NoTmp}
    BY <1>1 DEF Entry
<1>4. Live(o[n]) <=> n \in Plain /\ ~o[n].removed
    BY <1>1, <1>2, Zenon DEF Live
<1>5. Live(o[n]) => o[n].tmp # NoTmp
    BY Zenon DEF Live
<1>6. ~Live(o[n]) => o[n].tmp = NoTmp
    BY <1>1, Zenon DEF Live
<1>7. QED
    BY <1>1, <1>3, <1>4, <1>5, <1>6

\* Names of an overlay are changed one by one.
LEMMA EntriesWith ==
    ASSUME NEW o \in Entries, NEW n \in Names, NEW e \in Entry
    PROVE  With(o, n, e) \in Entries
<1>1. PICK D \in SUBSET Names : o \in [D -> Entry]
    BY DEF Entries
<1>2. With(o, n, e) \in [D \cup {n} -> Entry] /\ D \cup {n} \in SUBSET Names
    BY <1>1 DEF With
<1>3. QED
    BY <1>2 DEF Entries

\* An overlay stays one when a name gets an entry of its own.
LEMMA OverlayWith ==
    ASSUME NEW o, OverlayOK(o), NEW n \in Names, NEW e \in Entry,
           e.directory <=> n \in Dirs,
           e.tmp = NoTmp <=> e.directory \/ e.removed,
           e.tmp # NoTmp => e.tmp[1] = n
    PROVE  OverlayOK(With(o, n, e))
<1> DEFINE w == With(o, n, e)
<1>1. /\ o \in Entries
      /\ DOMAIN o \subseteq Names
      /\ \A m \in DOMAIN o : /\ o[m] \in Entry
                             /\ o[m].directory <=> m \in Dirs
                             /\ o[m].tmp = NoTmp <=> o[m].directory \/ o[m].removed
                             /\ o[m].tmp # NoTmp => o[m].tmp[1] = m
    BY DEF OverlayOK, OverlayType
<1>2. w \in Entries
    BY <1>1, EntriesWith
<1>3. /\ DOMAIN w = DOMAIN o \cup {n}
      /\ w[n] = e
      /\ \A m \in DOMAIN o \ {n} : w[m] = o[m]
    BY DEF With
<1> HIDE DEF w
<1>4. ASSUME NEW m \in DOMAIN w
      PROVE  /\ w[m] \in Entry
             /\ w[m].directory <=> m \in Dirs
             /\ w[m].tmp = NoTmp <=> w[m].directory \/ w[m].removed
             /\ w[m].tmp # NoTmp => w[m].tmp[1] = m
    <2>1. CASE m = n
        BY <1>3, <2>1
    <2>2. CASE m # n
        <3>1. m \in DOMAIN o /\ w[m] = o[m]
            BY <1>3, <2>2
        <3>2. QED
            BY <1>1, <3>1
    <2>3. QED
        BY <2>1, <2>2
<1>5. QED
    BY <1>1, <1>2, <1>3, <1>4 DEF OverlayOK, OverlayType, w

\* Part of an overlay is an overlay.
LEMMA OverlayPart ==
    ASSUME NEW o, OverlayOK(o), NEW S \in SUBSET DOMAIN o
    PROVE  OverlayOK(Restrict(o, S))
<1> DEFINE w == Restrict(o, S)
<1>1. DOMAIN w = S /\ \A x \in S : w[x] = o[x]
    BY RestrictFacts
<1>2. w \in Entries
    <2>1. PICK D \in SUBSET Names : o \in [D -> Entry]
        BY DEF OverlayOK, Entries
    <2>2. w \in [S -> Entry] /\ S \in SUBSET Names
        BY <2>1 DEF Restrict
    <2>3. QED
        BY <2>2 DEF Entries
<1> HIDE DEF w
<1>3. ASSUME NEW m \in S
      PROVE  /\ w[m] \in Entry
             /\ w[m].directory <=> m \in Dirs
             /\ w[m].tmp = NoTmp <=> w[m].directory \/ w[m].removed
             /\ w[m].tmp # NoTmp => w[m].tmp[1] = m
    <2>1. w[m] = o[m] /\ m \in DOMAIN o
        BY <1>1
    <2>2. QED
        BY <2>1 DEF OverlayOK, OverlayType
<1>4. S \subseteq Names
    BY DEF OverlayOK, OverlayType
<1>5. QED
    BY <1>1, <1>2, <1>3, <1>4 DEF OverlayOK, OverlayType, w

\* Nothing is kept in an empty overlay.
LEMMA OverlayNone == OverlayOK(<<>>)
<1>1. <<>> \in [{} -> Entry]
    OBVIOUS
<1>2. <<>> \in Entries
    BY <1>1 DEF Entries
<1>3. QED
    BY <1>2 DEF OverlayOK, OverlayType

\* The temporary files.
LEMMA TmpsPart ==
    ASSUME NEW t \in Functions_(Tmps, Contents), NEW S \in SUBSET DOMAIN t
    PROVE  Restrict(t, S) \in Functions_(Tmps, Contents)
<1>1. PICK D \in SUBSET Tmps : t \in [D -> Contents]
    BY DEF Functions_
<1>2. Restrict(t, S) \in [S -> Contents] /\ S \in SUBSET Tmps
    BY <1>1 DEF Restrict
<1>3. QED
    BY <1>2 DEF Functions_

\* A temporary file is deleted.
LEMMA TmpsLess ==
    ASSUME NEW t \in Functions_(Tmps, Contents), NEW k
    PROVE  Without(t, k) \in Functions_(Tmps, Contents)
<1>1. PICK D \in SUBSET Tmps : t \in [D -> Contents]
    BY DEF Functions_
<1>2. Without(t, k) \in [D \ {k} -> Contents] /\ D \ {k} \in SUBSET Tmps
    BY <1>1 DEF Without
<1>3. QED
    BY <1>2 DEF Functions_

\* A temporary file is written.
LEMMA TmpsMore ==
    ASSUME NEW t \in Functions_(Tmps, Contents), NEW k \in Tmps, NEW c \in Contents
    PROVE  With(t, k, c) \in Functions_(Tmps, Contents)
<1>1. PICK D \in SUBSET Tmps : t \in [D -> Contents]
    BY DEF Functions_
<1>2. With(t, k, c) \in [D \cup {k} -> Contents] /\ D \cup {k} \in SUBSET Tmps
    BY <1>1 DEF With
<1>3. QED
    BY <1>2 DEF Functions_

\* What is read of a temporary file.
LEMMA TmpsTyped ==
    ASSUME NEW t \in Functions_(Tmps, Contents), NEW k \in DOMAIN t
    PROVE  k \in Tmps /\ t[k] \in Contents
BY DEF Functions_

\* A new temporary file has a name of its own.
LEMMA NewTmpFacts ==
    ASSUME NEW n \in Plain, FreeTmps(n) # {}
    PROVE  /\ NewTmp(n) \in Tmps
           /\ NewTmp(n) # NoTmp
           /\ NewTmp(n)[1] = n
           /\ NewTmp(n) \notin Taken
<1> DEFINE k == CHOOSE k \in FreeTmps(n) : \A l \in FreeTmps(n) : k <= l
<1>1. FreeTmps(n) \in SUBSET Nat
    BY ContainerAssumption DEF FreeTmps
<1>2. k \in FreeTmps(n)
    BY <1>1, LowestExists DEF Lowest
<1>3. NewTmp(n) = <<n, k>>
    BY DEF NewTmp
<1> HIDE DEF k
<1>4. k \in 1..MaxTmps /\ <<n, k>> \notin Taken
    BY <1>2 DEF FreeTmps
<1>5. <<n, k>> # <<>>
    OBVIOUS
<1>6. QED
    BY <1>3, <1>4, <1>5 DEF Tmps, NoTmp

-----------------------------------------------------------------------------
(***************************************************************************)
(* What is seen.                                                           *)
(***************************************************************************)

\* The view, name by name.
Seen(n) ==
    IF n \notin DOMAIN overlay
      THEN IF zip = NoZip THEN Absent ELSE ZipRead(disk[zip.file], zip, n)
    ELSE IF ~Live(overlay[n]) THEN Absent
    ELSE IF overlay[n].tmp \in DOMAIN tmps THEN tmps[overlay[n].tmp]
    ELSE Lost

\* A name is seen as its overlay, its temporary file and the container say.
LEMMA ViewSeen ==
    ASSUME NEW n \in Plain
    PROVE  View[n] = Seen(n) /\ View'[n] = Seen(n)'
BY DEF View, Seen

\* What is read of a container is what was written, or nothing.
LEMMA ReadTyped ==
    ASSUME NEW b, Sound(b), NEW z, Fits(z, b), NEW n \in Plain
    PROVE  ZipRead(b, z, n) \in Contents \cup {Absent}
<1>1. n \notin Dirs
    BY NamesAssumption
<1>2. n \in DOMAIN z.files => z.files[n] \in 1..Len(b) /\ b[z.files[n]].kind = "file"
    BY <1>1 DEF Fits, Table
<1>3. ASSUME NEW i \in 1..Len(b), b[i].kind = "file" PROVE b[i].data \in Contents
    <2>1. b[i] \in Block
        BY DEF Sound
    <2>2. QED
        BY <1>3, <2>1 DEF Block, Broken
<1>4. QED
    BY <1>2, <1>3 DEF ZipRead, ZipIsFile

\* What is seen of a container is contents, nothing, or lost.
LEMMA ViewTyped ==
    ASSUME StorageInv, ZipInv, OverlayOK(overlay)
    PROVE  View \in Views
<1>1. ASSUME NEW n \in Plain PROVE Seen(n) \in Contents \cup {Absent, Lost}
    <2>1. zip # NoZip => ZipRead(disk[zip.file], zip, n) \in Contents \cup {Absent}
        BY ReadTyped DEF ZipInv, StorageInv
    <2>2. \A k \in DOMAIN tmps : tmps[k] \in Contents
        BY TmpsTyped DEF StorageInv
    <2>3. QED
        BY <2>1, <2>2 DEF Seen
<1>2. View = [n \in Plain |-> View[n]]
    BY DEF View
<1>3. \A n \in Plain : View[n] \in Contents \cup {Absent, Lost}
    BY <1>1, ViewSeen
<1>4. QED
    BY <1>2, <1>3 DEF Views

\* A version is read the same as long as its blocks are there, in any copy.
LEMMA VersionStays ==
    ASSUME NEW b, Sound(b), NEW k, Ends(b, k), NEW c, Agree(b, c, k), NEW f, NEW g, NEW n \in Plain
    PROVE  ZipRead(c, ZipOpened(g, c, k), n) = ZipRead(b, ZipOpened(f, b, k), n)
<1>1. n \notin Dirs
    BY NamesAssumption
<1>2. k \in 1..Len(b) /\ b[k].kind = "end"
    BY DEF Ends
<1>3. Len(b) \in Nat
    BY DEF Sound
<1>4. Table(b[k].files, b, k - 1)
    BY <1>2 DEF Sound
<1>5. n \in DOMAIN b[k].files => b[k].files[n] \in 1..(k - 1)
    BY <1>1, <1>4 DEF Table
<1>6. k \in 1..k /\ \A i \in 1..(k - 1) : i \in 1..k
    BY <1>2, <1>3
<1>7. c[k] = b[k] /\ \A i \in 1..(k - 1) : c[i] = b[i]
    BY <1>6 DEF Agree
<1>8. QED
    BY <1>5, <1>7 DEF ZipRead, ZipIsFile, ZipOpened

\* The version a handle was saved as is one.
LEMMA LastVersion ==
    ASSUME NEW b, NEW z, Fits(z, b), z.prev > 0
    PROVE  Ends(b, z.prev)
BY DEF Fits, Latest, Ends

\* What is seen stays the same if its blocks and its temporary file do.
LEMMA SeenStays ==
    ASSUME ZipInv, OverlayOK(overlay), UNCHANGED <<zip, overlay>>,
           zip # NoZip => Agree(disk[zip.file], disk'[zip.file], Len(disk[zip.file])),
           NEW n \in Plain,
           n \in DOMAIN overlay /\ Live(overlay[n]) =>
               /\ overlay[n].tmp \in DOMAIN tmps <=> overlay[n].tmp \in DOMAIN tmps'
               /\ overlay[n].tmp \in DOMAIN tmps => tmps'[overlay[n].tmp] = tmps[overlay[n].tmp]
    PROVE  View'[n] = View[n]
<1>1. zip # NoZip => ZipRead(disk'[zip.file], zip, n) = ZipRead(disk[zip.file], zip, n)
    BY ReadStays DEF ZipInv
<1>2. Seen(n)' = Seen(n)
    BY <1>1 DEF Seen
<1>3. QED
    BY <1>2, ViewSeen

\* It stays out of date if it was.
LEMMA DatedStays ==
    ASSUME StorageInv, ZipInv, UNCHANGED zip, zip # NoZip,
           Agree(disk[zip.file], disk'[zip.file], Len(disk[zip.file])),
           NEW n \in Plain
    PROVE  Dated(n)' <=> Dated(n)
<1> DEFINE b == disk[zip.file]
           c == disk'[zip.file]
<1>1. Sound(b) /\ Fits(zip, b) /\ Ends(b, zip.prev)
    BY LastVersion DEF ZipInv, StorageInv
<1>2. Agree(b, c, zip.prev)
    BY <1>1 DEF Agree, Ends, Sound
<1>3. ZipRead(c, ZipOpened(zip.file, c, zip.prev), n) = ZipRead(b, ZipOpened(zip.file, b, zip.prev), n)
    BY <1>1, <1>2, VersionStays
<1>4. ZipRead(c, zip, n) = ZipRead(b, zip, n)
    BY <1>1, ReadStays
<1>5. QED
    BY <1>3, <1>4 DEF Dated

\* What a save settles before it copies files.
LEMMA PreparedFits ==
    ASSUME OverlayOK(overlay), NEW b \in Seq(Block), NEW z, Fits(z, b)
    PROVE  /\ Fits(Prepared(z), b)
           /\ Prepared(z).file = z.file
           /\ Prepared(z).prev = z.prev
           /\ z.changed => Prepared(z).changed
           /\ \A n \in Plain : ZipRead(b, Prepared(z), n) =
                  IF n \in DOMAIN overlay /\ overlay[n].removed THEN Absent ELSE ZipRead(b, z, n)
<1> DEFINE gone == {n \in DOMAIN overlay : overlay[n].removed}
           dirs == {n \in DOMAIN overlay : ~overlay[n].removed /\ overlay[n].directory}
           y == ZipRemove(z, gone)
<1>1. Prepared(z) = ZipCreateDirectories(y, dirs)
    BY DEF Prepared
<1>2. dirs \in SUBSET Dirs
    BY OverlayFacts
<1>3. /\ Fits(y, b)
      /\ y.file = z.file
      /\ y.prev = z.prev
      /\ z.changed => y.changed
      /\ \A n \in Plain : ZipRead(b, y, n) = IF n \in gone THEN Absent ELSE ZipRead(b, z, n)
    BY RemovedFits
<1>4. \A n : n \in gone <=> n \in DOMAIN overlay /\ overlay[n].removed
    OBVIOUS
<1> HIDE DEF y, dirs, gone
<1>5. /\ Fits(ZipCreateDirectories(y, dirs), b)
      /\ ZipCreateDirectories(y, dirs).file = y.file
      /\ ZipCreateDirectories(y, dirs).prev = y.prev
      /\ y.changed => ZipCreateDirectories(y, dirs).changed
      /\ \A n \in Plain : ZipRead(b, ZipCreateDirectories(y, dirs), n) = ZipRead(b, y, n)
    BY <1>2, <1>3, DirectoriesFit
<1>6. QED
    BY <1>1, <1>3, <1>4, <1>5

-----------------------------------------------------------------------------
(***************************************************************************)
(* The invariant, part by part.                                            *)
(***************************************************************************)

\* A container is written.
LEMMA DiskPut ==
    ASSUME StorageInv, NEW f \in Files, NEW b, Sound(b), disk' = [disk EXCEPT ![f] = b],
           tmps' \in Functions_(Tmps, Contents)
    PROVE  /\ StorageInv'
           /\ Exists(f)'
           /\ disk'[f] = b
           /\ \A g \in Files \ {f} : disk'[g] = disk[g]
<1>1. b \in Seq(Block)
    BY DEF Sound
<1>2. disk \in [Files -> Seq(Block) \cup {NoFile}] /\ \A g \in Files : disk[g] # NoFile => Sound(disk[g])
    BY DEF StorageInv, Exists
<1>3. disk'[f] = b /\ \A g \in Files \ {f} : disk'[g] = disk[g]
    BY <1>2
<1>4. disk' \in [Files -> Seq(Block) \cup {NoFile}]
    BY <1>1, <1>2
<1>5. \A g \in Files : disk'[g] # NoFile => Sound(disk'[g])
    BY <1>2, <1>3
<1>6. b # NoFile
    BY <1>1, ContainerAssumption
<1>7. QED
    BY <1>3, <1>4, <1>5, <1>6 DEF StorageInv, Exists

\* No container is written.
LEMMA DiskKept ==
    ASSUME StorageInv, UNCHANGED disk, tmps' \in Functions_(Tmps, Contents)
    PROVE  StorageInv'
BY DEF StorageInv, Exists

\* What was written down stays true when its temporary files are removed.
LEMMA IndexStays ==
    ASSUME IndexInv, UNCHANGED index,
           \A t \in Indexed : t \in DOMAIN tmps' => t \in DOMAIN tmps /\ tmps'[t] = tmps[t]
    PROVE  IndexInv'
<1>1. CASE index \in {NoIndex, BrokenIndex}
    BY <1>1 DEF IndexInv
<1>2. CASE index \notin {NoIndex, BrokenIndex}
    <2>1. /\ index \in [kind : {"index"}, cname : Files \cup {NoFile}, files : Entries, view : Views]
          /\ OverlayOK(index.files)
          /\ \A n \in Plain :
               IF n \notin DOMAIN index.files THEN index.cname = NoFile => index.view[n] = Absent
               ELSE IF ~Live(index.files[n]) THEN index.view[n] = Absent
               ELSE index.files[n].tmp \in DOMAIN tmps => tmps[index.files[n].tmp] = index.view[n]
        BY <1>2 DEF IndexInv
    <2>2. \A n \in DOMAIN index.files : index.files[n].tmp \in Indexed
        BY <2>1 DEF Indexed, Named
    <2>3. \A n \in Plain :
               IF n \notin DOMAIN index.files THEN index.cname = NoFile => index.view[n] = Absent
               ELSE IF ~Live(index.files[n]) THEN index.view[n] = Absent
               ELSE index.files[n].tmp \in DOMAIN tmps' => tmps'[index.files[n].tmp] = index.view[n]
        BY <2>1, <2>2
    <2>4. OverlayOK(index.files)'
        BY <2>1 DEF OverlayOK, OverlayType
    <2>5. QED
        BY <2>1, <2>3, <2>4 DEF IndexInv
<1>3. QED
    BY <1>1, <1>2

\* An open container stays as it is, or grows by what is no directory.
LEMMA ZipStays ==
    ASSUME StorageInv, ZipInv, UNCHANGED zip,
           zip # NoZip => \/ disk'[zip.file] = disk[zip.file]
                          \/ \E x \in Block : /\ x.kind # "end"
                                              /\ disk'[zip.file] = Append(disk[zip.file], x)
    PROVE  /\ ZipInv'
           /\ zip # NoZip => Agree(disk[zip.file], disk'[zip.file], Len(disk[zip.file]))
<1> SUFFICES ASSUME zip # NoZip
             PROVE  /\ Exists(zip.file)'
                    /\ Fits(zip, disk'[zip.file])
                    /\ zip.changed => ~Ends(disk'[zip.file], Len(disk'[zip.file]))
                    /\ Agree(disk[zip.file], disk'[zip.file], Len(disk[zip.file]))
    BY DEF ZipInv
<1>1. /\ zip.file \in Files
      /\ disk[zip.file] # NoFile
      /\ Fits(zip, disk[zip.file])
      /\ zip.changed => ~Ends(disk[zip.file], Len(disk[zip.file]))
      /\ disk[zip.file] \in Seq(Block)
    BY DEF ZipInv, StorageInv, Exists, Sound
<1>2. CASE disk'[zip.file] = disk[zip.file]
    BY <1>1, <1>2 DEF Exists, Agree
<1>3. CASE disk'[zip.file] # disk[zip.file]
    <2> DEFINE b == disk[zip.file]
               c == disk'[zip.file]
    <2>1. PICK x \in Block : x.kind # "end" /\ c = Append(b, x)
        BY <1>3
    <2>2. b \in Seq(Block) /\ Fits(zip, b)
        BY <1>1
    <2> HIDE DEF b, c
    <2>3. Fits(zip, c)
        BY <2>1, <2>2, FitsStays
    <2>4. Len(c) = Len(b) + 1 /\ c[Len(b) + 1] = x /\ Agree(b, c, Len(b)) /\ c \in Seq(Block)
        BY <2>1, <2>2, Appended
    <2>5. ~Ends(c, Len(c))
        BY <2>1, <2>4 DEF Ends
    <2>6. c # NoFile
        BY <2>4, ContainerAssumption
    <2>7. QED
        BY <2>3, <2>4, <2>5, <2>6 DEF Exists, b, c
<1>4. QED
    BY <1>2, <1>3

-----------------------------------------------------------------------------
(***************************************************************************)
(* Calls that are one step.                                                *)
(***************************************************************************)

\* Between two saves nothing is to be known of one.
LEMMA SavingNone ==
    ASSUME saving' = NoSave
    PROVE  SavingInv' /\ ViewInv'
BY DEF SavingInv, ViewInv, NoSave, Copy, Writes

\* The parts of an invariant that a call leaves alone.
LEMMA IndexKept ==
    ASSUME IndexInv, UNCHANGED <<index, tmps>>
    PROVE  IndexInv'
BY IndexStays

\* A new container shows nothing.
LEMMA CreateStep ==
    ASSUME ContainerInv, Create
    PROVE  /\ ContainerInv'
           /\ \A n \in Plain : View'[n] = Absent
           /\ UNCHANGED <<disk, index, zip, overlay>>
           /\ zip = NoZip /\ saving' = NoSave /\ opened' /\ ~opened
<1>1. /\ UNCHANGED <<disk, tmps, index, based, cname, zip, overlay, saving>>
      /\ opened' = TRUE /\ result' = TRUE /\ ~opened
    BY DEF Create, storage
<1>2. zip = NoZip /\ overlay = <<>> /\ saving = NoSave
    BY <1>1 DEF ContainerInv, SessionInv
<1>3. StorageInv' /\ IndexInv'
    BY <1>1, DiskKept, IndexKept DEF ContainerInv, StorageInv
<1>4. ZipInv'
    BY <1>1, <1>2 DEF ZipInv
<1>5. SavingInv' /\ ViewInv'
    BY <1>1, <1>2, SavingNone
<1>6. SessionInv'
    <2>1. based' \in BOOLEAN /\ cname' = zip'.file
        BY <1>1 DEF ContainerInv, SessionInv
    <2>2. QED
        BY <1>1, <1>2, <2>1, OverlayNone DEF SessionInv
<1>7. \A n \in Plain : View'[n] = Absent
    BY <1>1, <1>2, ViewSeen DEF Seen
<1>8. QED
    BY <1>1, <1>2, <1>3, <1>4, <1>5, <1>6, <1>7 DEF ContainerInv

\* A container that was opened shows the version it was opened as.
LEMMA OpenStep ==
    ASSUME ContainerInv, NEW f \in Files, NEW k, OpenFromHistory(f, k), Ends(disk[f], Len(disk[f]))
    PROVE  /\ ContainerInv'
           /\ Ends(disk[f], k)
           /\ zip' = ZipOpened(f, disk[f], k)
           /\ \A n \in Plain : View'[n] = ZipRead(disk[f], ZipOpened(f, disk[f], k), n)
           /\ UNCHANGED <<disk, tmps, index>>
           /\ Exists(f) /\ saving' = NoSave /\ opened' /\ ~opened
           /\ overlay' = <<>> /\ cname' = f /\ zip' # NoZip
<1>1. /\ UNCHANGED <<disk, tmps, index, based, overlay, saving>>
      /\ opened' = TRUE /\ result' = TRUE /\ cname' = f /\ ~opened
      /\ zip' = ZipOpened(f, disk[f], k)
      /\ Exists(f) /\ Ends(disk[f], k)
    BY DEF OpenFromHistory, storage, Opens
<1>2. overlay = <<>> /\ saving = NoSave
    BY <1>1 DEF ContainerInv, SessionInv
<1>3. StorageInv' /\ IndexInv'
    BY <1>1, DiskKept, IndexKept DEF ContainerInv, StorageInv
<1>4. Sound(disk[f])
    BY <1>1 DEF ContainerInv, StorageInv
<1>5. Fits(zip', disk[f]) /\ zip'.prev > 0
    BY <1>1, <1>4, OpenedFits
<1>6. zip'.file = f /\ ~zip'.changed
    BY <1>1 DEF ZipOpened
<1>7. ZipInv'
    BY <1>1, <1>5, <1>6 DEF ZipInv, Exists
<1>8. SavingInv' /\ ViewInv'
    BY <1>1, <1>2, SavingNone
<1>9. SessionInv'
    <2>1. based' \in BOOLEAN
        BY <1>1 DEF ContainerInv, SessionInv
    <2>2. QED
        BY <1>1, <1>2, <1>6, <2>1, OverlayNone DEF SessionInv
<1>10. zip' # NoZip
    BY <1>6, ContainerAssumption DEF NoZip
<1>11. \A n \in Plain : View'[n] = ZipRead(disk[f], ZipOpened(f, disk[f], k), n)
    <2>1. \A n \in Plain : Seen(n)' = ZipRead(disk'[f], zip', n)
        BY <1>1, <1>2, <1>6, <1>10 DEF Seen
    <2>2. QED
        BY <1>1, <2>1, ViewSeen
<1>12. QED
    BY <1>1, <1>2, <1>3, <1>6, <1>7, <1>8, <1>9, <1>10, <1>11 DEF ContainerInv

\* An earlier version is one of those of a container that opens.
LEMMA EarlierOpens ==
    ASSUME ContainerInv, NEW f \in Files, OpenEarlier(f)
    PROVE  \E k : OpenFromHistory(f, k) /\ Ends(disk[f], Len(disk[f]))
<1>1. Sound(disk[f])
    BY DEF OpenEarlier, ContainerInv, StorageInv
<1>2. PICK k \in HistorySizes(disk[f]) : OpenFromHistory(f, k)
    BY DEF OpenEarlier
<1>3. Ends(disk[f], Len(disk[f]))
    BY <1>1, <1>2, HistoryIs
<1>4. QED
    BY <1>2, <1>3

\* A directory that is created changes nothing that is seen of the files.
LEMMA DirectoryCreateStep ==
    ASSUME ContainerInv, NEW d \in Dirs, DirectoryCreate(d)
    PROVE  /\ ContainerInv'
           /\ \A n \in Plain : View'[n] = View[n]
           /\ \A n \in Plain : n \in DOMAIN overlay' <=> n \in DOMAIN overlay
           /\ UNCHANGED <<disk, tmps, index, zip, opened, saving, result, cname>>
           /\ opened /\ saving = NoSave
<1> DEFINE e == [directory |-> TRUE, removed |-> FALSE, tmp |-> NoTmp]
<1>1. /\ UNCHANGED <<disk, tmps, index, based, opened, cname, zip, saving, result>>
      /\ overlay' = With(overlay, d, e)
      /\ opened /\ saving = NoSave
    BY DEF DirectoryCreate, storage, Idle
<1>2. OverlayOK(overlay) /\ d \in Names
    BY DEF ContainerInv, SessionInv, Names
<1>3. OverlayOK(overlay')
    <2>1. e \in Entry
        BY DEF Entry
    <2>2. e.directory /\ ~e.removed /\ e.tmp = NoTmp
        OBVIOUS
    <2> HIDE DEF e
    <2>3. QED
        BY <1>1, <1>2, <2>1, <2>2, OverlayWith
<1>4. StorageInv' /\ IndexInv'
    BY <1>1, DiskKept, IndexKept DEF ContainerInv, StorageInv
<1>5. ZipInv'
    BY <1>1, ZipStays DEF ContainerInv
<1>6. SavingInv' /\ ViewInv'
    BY <1>1, SavingNone
<1>7. SessionInv'
    <2>1. OverlayOK(overlay)'
        BY <1>3 DEF OverlayOK, OverlayType
    <2>2. QED
        BY <1>1, <2>1 DEF ContainerInv, SessionInv
<1>8. \A n \in Plain : n # d
    BY NamesAssumption
<1>9. ASSUME NEW n \in Plain
      PROVE  /\ n \in DOMAIN overlay' <=> n \in DOMAIN overlay
             /\ n \in DOMAIN overlay => overlay'[n] = overlay[n]
    BY <1>1, <1>8 DEF With
<1>10. \A n \in Plain : View'[n] = View[n]
    BY <1>1, <1>9, ViewSeen DEF Seen
<1>11. QED
    BY <1>1, <1>4, <1>5, <1>6, <1>7, <1>9, <1>10 DEF ContainerInv

\* Names that are not written keep their temporary files.
LEMMA OtherTmps ==
    ASSUME NEW o, OverlayOK(o), NEW m \in DOMAIN o, Live(o[m]), NEW n, n # m
    PROVE  /\ n \in DOMAIN o => o[n].tmp # o[m].tmp
           /\ \A k : k[1] = n => k # o[m].tmp
<1>1. o[m].tmp[1] = m
    BY OverlayFacts
<1>2. ASSUME n \in DOMAIN o PROVE o[n].tmp # o[m].tmp
    <2>1. CASE Live(o[n])
        BY <1>1, <1>2, <2>1, OverlayFacts
    <2>2. CASE ~Live(o[n])
        <3>1. o[n].tmp = NoTmp
            BY <1>2, <2>2, OverlayFacts
        <3>2. o[m].tmp # NoTmp
            BY Zenon DEF Live
        <3>3. QED
            BY <3>1, <3>2
    <2>3. QED
        BY <2>1, <2>2
<1>3. QED
    BY <1>1, <1>2

\* What is written to a file is what is seen of it, and of no other file.
LEMMA FileWriteStep ==
    ASSUME ContainerInv, NEW n \in Plain, NEW c \in Contents, FileWrite(n, c)
    PROVE  /\ ContainerInv'
           /\ View'[n] = c
           /\ \A m \in Plain \ {n} : View'[m] = View[m]
           /\ \A m \in Plain : m \in DOMAIN overlay' <=> m \in DOMAIN overlay \/ m = n
           /\ Live(overlay'[n])
           /\ UNCHANGED <<disk, index, zip, opened, saving, result, cname>>
           /\ opened /\ saving = NoSave
<1> DEFINE k == NewTmp(n)
           e == [directory |-> FALSE, removed |-> FALSE, tmp |-> k]
           old == IF n \in DOMAIN overlay THEN {overlay[n].tmp} ELSE {}
           part == Restrict(tmps, DOMAIN tmps \ old)
<1>1. /\ UNCHANGED <<disk, index, based, opened, cname, zip, saving, result>>
      /\ FreeTmps(n) # {}
      /\ overlay' = With(overlay, n, e)
      /\ tmps' = With(part, k, c)
      /\ opened /\ saving = NoSave
    BY DEF FileWrite, Idle
<1>2. OverlayOK(overlay) /\ n \in Names /\ n \notin Dirs
    BY NamesAssumption DEF ContainerInv, SessionInv, Names
<1>3. k \in Tmps /\ k # NoTmp /\ k[1] = n /\ k \notin Taken
    BY <1>1, NewTmpFacts
<1> HIDE DEF k
<1>4. OverlayOK(overlay')
    <2>1. e \in Entry
        BY <1>3 DEF Entry
    <2>2. ~e.directory /\ ~e.removed /\ e.tmp = k
        OBVIOUS
    <2> HIDE DEF e
    <2>3. QED
        BY <1>1, <1>2, <1>3, <2>1, <2>2, OverlayWith
<1>5. tmps \in Functions_(Tmps, Contents)
    BY DEF ContainerInv, StorageInv
<1>6. tmps' \in Functions_(Tmps, Contents)
    <2>1. part \in Functions_(Tmps, Contents)
        BY <1>5, TmpsPart
    <2> HIDE DEF part
    <2>2. QED
        BY <1>1, <1>3, <2>1, TmpsMore
<1>7. /\ DOMAIN tmps' = (DOMAIN tmps \ old) \cup {k}
      /\ tmps'[k] = c
      /\ \A t \in DOMAIN tmps \ old : t # k => tmps'[t] = tmps[t]
    BY <1>1 DEF With, Restrict
<1>8. StorageInv'
    BY <1>1, <1>6, DiskKept DEF ContainerInv
<1>9. IndexInv'
    <2>1. \A t \in Indexed : t \in DOMAIN tmps' => t \in DOMAIN tmps /\ tmps'[t] = tmps[t]
        BY <1>3, <1>7 DEF Taken
    <2>2. QED
        BY <1>1, <2>1, IndexStays DEF ContainerInv
<1>10. ZipInv'
    BY <1>1, ZipStays DEF ContainerInv
<1>11. SavingInv' /\ ViewInv'
    BY <1>1, SavingNone
<1>12. SessionInv'
    <2>1. OverlayOK(overlay)'
        BY <1>4 DEF OverlayOK, OverlayType
    <2>2. QED
        BY <1>1, <2>1 DEF ContainerInv, SessionInv
<1>13. /\ DOMAIN overlay' = DOMAIN overlay \cup {n}
       /\ overlay'[n] = e
       /\ \A m \in DOMAIN overlay \ {n} : overlay'[m] = overlay[m]
    BY <1>1 DEF With
<1>14. Live(e) /\ e.tmp = k
    <2>1. ~e.directory /\ ~e.removed /\ e.tmp = k
        OBVIOUS
    <2> HIDE DEF e
    <2>2. QED
        BY <1>3, <2>1 DEF Live
<1> HIDE DEF e, part
<1>15. View'[n] = c
    BY <1>7, <1>13, <1>14, ViewSeen DEF Seen
<1>16. ASSUME NEW m \in Plain \ {n} PROVE View'[m] = View[m]
    <2>1. CASE m \in DOMAIN overlay /\ Live(overlay[m])
        <3>1. overlay[m].tmp \notin old /\ overlay[m].tmp # k
            BY <1>2, <1>3, <2>1, OtherTmps
        <3>2. overlay'[m] = overlay[m] /\ m \in DOMAIN overlay'
            BY <1>13, <2>1
        <3> HIDE DEF old
        <3>3. /\ overlay[m].tmp \in DOMAIN tmps' <=> overlay[m].tmp \in DOMAIN tmps
              /\ overlay[m].tmp \in DOMAIN tmps => tmps'[overlay[m].tmp] = tmps[overlay[m].tmp]
            BY <1>7, <3>1
        <3>4. QED
            BY <2>1, <3>2, <3>3, ViewSeen DEF Seen
    <2>2. CASE ~(m \in DOMAIN overlay /\ Live(overlay[m]))
        BY <1>1, <1>13, <2>2, ViewSeen DEF Seen
    <2>3. QED
        BY <2>1, <2>2
<1>17. QED
    BY <1>1, <1>8, <1>9, <1>10, <1>11, <1>12, <1>13, <1>14, <1>15, <1>16 DEF ContainerInv

\* A file that was removed is not seen any more, and the others are as before.
LEMMA FileRemoveStep ==
    ASSUME ContainerInv, NEW n \in Plain, FileRemove(n)
    PROVE  /\ ContainerInv'
           /\ View'[n] = Absent
           /\ \A m \in Plain \ {n} : View'[m] = View[m]
           /\ \A m \in Plain : m \in DOMAIN overlay' <=> m \in DOMAIN overlay \/ m = n
           /\ UNCHANGED <<disk, index, zip, opened, saving, result, cname>>
           /\ opened /\ saving = NoSave
<1> DEFINE e == [directory |-> FALSE, removed |-> TRUE, tmp |-> NoTmp]
<1>1. /\ UNCHANGED <<disk, index, based, opened, cname, zip, saving, result>>
      /\ overlay' = With(overlay, n, e)
      /\ tmps' = IF n \in DOMAIN overlay THEN Without(tmps, overlay[n].tmp) ELSE tmps
      /\ opened /\ saving = NoSave
    BY DEF FileRemove, Idle
<1>2. OverlayOK(overlay) /\ n \in Names /\ n \notin Dirs
    BY NamesAssumption DEF ContainerInv, SessionInv, Names
<1>3. ~e.directory /\ e.removed /\ e.tmp = NoTmp /\ e \in Entry
    BY DEF Entry
<1> HIDE DEF e
<1>4. OverlayOK(overlay')
    BY <1>1, <1>2, <1>3, OverlayWith
<1>5. tmps' \in Functions_(Tmps, Contents)
    BY <1>1, TmpsLess DEF ContainerInv, StorageInv
<1>6. /\ DOMAIN tmps' \subseteq DOMAIN tmps
      /\ \A t \in DOMAIN tmps' : tmps'[t] = tmps[t]
      /\ \A t \in DOMAIN tmps : t \in DOMAIN tmps' \/ (n \in DOMAIN overlay /\ t = overlay[n].tmp)
    BY <1>1 DEF Without
<1>7. StorageInv'
    BY <1>1, <1>5, DiskKept DEF ContainerInv
<1>8. IndexInv'
    BY <1>1, <1>6, IndexStays DEF ContainerInv
<1>9. ZipInv'
    BY <1>1, ZipStays DEF ContainerInv
<1>10. SavingInv' /\ ViewInv'
    BY <1>1, SavingNone
<1>11. SessionInv'
    <2>1. OverlayOK(overlay)'
        BY <1>4 DEF OverlayOK, OverlayType
    <2>2. QED
        BY <1>1, <2>1 DEF ContainerInv, SessionInv
<1>12. /\ DOMAIN overlay' = DOMAIN overlay \cup {n}
       /\ overlay'[n] = e
       /\ \A m \in DOMAIN overlay \ {n} : overlay'[m] = overlay[m]
    BY <1>1 DEF With
<1>13. View'[n] = Absent
    BY <1>3, <1>12, ViewSeen DEF Seen, Live
<1>14. ASSUME NEW m \in Plain \ {n} PROVE View'[m] = View[m]
    <2>1. CASE m \in DOMAIN overlay /\ Live(overlay[m])
        <3>1. n \in DOMAIN overlay => overlay[n].tmp # overlay[m].tmp
            BY <1>2, <2>1, OtherTmps
        <3>2. QED
            BY <1>1, <1>6, <1>12, <2>1, <3>1, ViewSeen DEF Seen
    <2>2. CASE ~(m \in DOMAIN overlay /\ Live(overlay[m]))
        BY <1>1, <1>12, <2>2, ViewSeen DEF Seen
    <2>3. QED
        BY <2>1, <2>2
<1>15. QED
    BY <1>1, <1>7, <1>8, <1>9, <1>10, <1>11, <1>12, <1>13, <1>14 DEF ContainerInv

\* Writing the index changes nothing that is seen of the container.
LEMMA WriteIndexStep ==
    ASSUME ContainerInv, NEW i, WriteIndex(i), i \in {BrokenIndex, IndexOf(cname, overlay, View)}
    PROVE  /\ ContainerInv'
           /\ \A n \in Plain : View'[n] = View[n]
           /\ index' = i
           /\ UNCHANGED <<disk, zip, overlay, opened, saving, result, cname>>
           /\ opened /\ saving = NoSave
<1>1. /\ UNCHANGED <<disk, opened, cname, zip, overlay, saving, result>>
      /\ index' = i /\ based' = TRUE
      /\ tmps' = Restrict(tmps, DOMAIN tmps \cap Named(overlay))
      /\ opened /\ saving = NoSave
    BY DEF WriteIndex, Idle
<1>2. OverlayOK(overlay) /\ cname = zip.file
    BY DEF ContainerInv, SessionInv
<1>3. tmps' \in Functions_(Tmps, Contents)
    BY <1>1, TmpsPart DEF ContainerInv, StorageInv
<1>4. /\ DOMAIN tmps' = DOMAIN tmps \cap Named(overlay)
      /\ \A t \in DOMAIN tmps' : tmps'[t] = tmps[t]
    BY <1>1 DEF Restrict
<1>5. \A n \in DOMAIN overlay : overlay[n].tmp \in Named(overlay)
    BY DEF Named
<1>6. StorageInv'
    BY <1>1, <1>3, DiskKept DEF ContainerInv
<1>7. ZipInv'
    BY <1>1, ZipStays DEF ContainerInv
<1>8. SavingInv' /\ ViewInv'
    BY <1>1, SavingNone
<1>9. SessionInv'
    <2>1. OverlayOK(overlay)'
        BY <1>1, <1>2 DEF OverlayOK, OverlayType
    <2>2. QED
        BY <1>1, <2>1 DEF ContainerInv, SessionInv
<1>10. ASSUME NEW n \in Plain PROVE View'[n] = View[n]
    BY <1>1, <1>4, <1>5, ViewSeen DEF Seen
<1>11. IndexInv'
    <2>1. CASE i = BrokenIndex
        BY <1>1, <2>1 DEF IndexInv
    <2>2. CASE i = IndexOf(cname, overlay, View)
        <3>1. /\ index'.kind = "index" /\ index'.cname = cname
              /\ index'.files = overlay /\ index'.view = View
              /\ index' = [kind |-> "index", cname |-> cname, files |-> overlay, view |-> View]
            BY <1>1, <2>2 DEF IndexOf
        <3>2. cname \in Files \cup {NoFile} /\ (cname = NoFile => zip = NoZip)
            BY <1>2, ContainerAssumption DEF ContainerInv, ZipInv, NoZip
        <3>3. View \in Views
            BY <1>2, ViewTyped DEF ContainerInv
        <3>4. overlay \in Entries
            BY <1>2 DEF OverlayOK
        <3>5. index' \in [kind : {"index"}, cname : Files \cup {NoFile}, files : Entries, view : Views]
            BY <3>1, <3>2, <3>3, <3>4
        <3>6. \A n \in Plain :
               IF n \notin DOMAIN overlay THEN cname = NoFile => View[n] = Absent
               ELSE IF ~Live(overlay[n]) THEN View[n] = Absent
               ELSE overlay[n].tmp \in DOMAIN tmps' => tmps'[overlay[n].tmp] = View[n]
            BY <1>4, <1>5, <3>2, ViewSeen DEF Seen
        <3>7. OverlayOK(index.files)'
            BY <1>2, <3>1 DEF OverlayOK, OverlayType
        <3>8. QED
            BY <3>1, <3>5, <3>6, <3>7 DEF IndexInv
    <2>3. QED
        BY <2>1, <2>2
<1>12. QED
    BY <1>1, <1>6, <1>7, <1>8, <1>9, <1>10, <1>11 DEF ContainerInv

-----------------------------------------------------------------------------
(***************************************************************************)
(* A save begins.                                                          *)
(***************************************************************************)

\* The names that are to be copied are those that are live.
LEMMA FilesAreLive ==
    ASSUME OverlayOK(overlay)
    PROVE  /\ Files_ \subseteq Plain
           /\ Files_ \subseteq DOMAIN overlay
           /\ \A n \in DOMAIN overlay : n \in Files_ <=> Live(overlay[n])
           /\ \A n \in DOMAIN overlay : n \in Plain /\ n \notin Files_ => overlay[n].removed
<1>1. ASSUME NEW n \in DOMAIN overlay
      PROVE  /\ n \in Files_ <=> Live(overlay[n])
             /\ n \in Files_ => n \in Plain
             /\ n \in Plain /\ n \notin Files_ => overlay[n].removed
    <2>1. /\ n \in Names
          /\ overlay[n].directory <=> n \in Dirs
          /\ Live(overlay[n]) <=> n \in Plain /\ ~overlay[n].removed
        BY OverlayFacts
    <2>2. n \in Plain <=> n \notin Dirs
        BY <2>1, NamesAssumption DEF Names
    <2>3. n \in Files_ <=> ~overlay[n].removed /\ ~overlay[n].directory
        BY DEF Files_
    <2>4. QED
        BY <2>1, <2>2, <2>3
<1>2. Files_ \subseteq DOMAIN overlay
    BY DEF Files_
<1>3. QED
    BY <1>1, <1>2

\* What is known when the files begin to be copied.
Begins(z, p, view, b) ==
    /\ p \in BOOLEAN /\ view \in Views /\ b \in Seq(Block)
    /\ saving' = Writing(z, p, view)
    /\ UNCHANGED <<overlay, zip, cname>>
    /\ disk'[z.file] = b
    /\ Fits(z, b)
    /\ p <=> z.file = cname
    /\ z.changed \/ z.prev > 0
    /\ \A n \in Plain : View'[n] = view[n]
    /\ \A n \in Plain \ DOMAIN overlay :
           ZipRead(b, z, n) = view[n] \/ (~p /\ zip # NoZip /\ Dated(n)')

\* A save that begins writing tracks every file it is to write.
LEMMA WritingBegins ==
    ASSUME OverlayOK(overlay), NEW z, NEW p, NEW view, NEW b, Begins(z, p, view, b)
    PROVE  /\ SavingInv'
           /\ ViewInv'
           /\ saving'.zip.file = z.file
           /\ saving'.view = view
           /\ saving'.step = "files"
           /\ saving'.left = Restrict(overlay, Files_)
           /\ saving' \in Writes
           /\ saving' \notin Copy
<1> DEFINE y == Prepared(z)
           left == Restrict(overlay, Files_)
<1> USE DEF Begins
<1>1. saving' = [step |-> "files", zip |-> y, at_place |-> p, left |-> left, todo |-> Files_, view |-> view]
    BY DEF Writing
<1>2. /\ Fits(y, b)
      /\ y.file = z.file
      /\ y.prev = z.prev
      /\ z.changed => y.changed
      /\ \A n \in Plain : ZipRead(b, y, n) =
             IF n \in DOMAIN overlay /\ overlay[n].removed THEN Absent ELSE ZipRead(b, z, n)
    BY PreparedFits
<1>3. /\ Files_ \subseteq Plain
      /\ Files_ \subseteq DOMAIN overlay
      /\ \A n \in DOMAIN overlay : n \in Files_ <=> Live(overlay[n])
      /\ \A n \in DOMAIN overlay : n \in Plain /\ n \notin Files_ => overlay[n].removed
    BY FilesAreLive
<1>4. left \in Entries /\ DOMAIN left = Files_
    BY <1>3, OverlayPart, RestrictFacts DEF OverlayOK
<1>5. left = Restrict(overlay, DOMAIN left)
    BY <1>4
<1> HIDE DEF y, left
<1>6. y \in Handle
    BY <1>2 DEF Fits
<1>7. saving' \in Writes
    BY <1>1, <1>3, <1>4, <1>6 DEF Writes
<1>8. /\ saving'.step = "files" /\ saving'.zip = y /\ (saving'.at_place <=> p)
      /\ saving'.left = left /\ saving'.todo = Files_ /\ saving'.view = view
    BY <1>1
<1>9. saving' \notin Copy
    BY <1>8 DEF Copy
<1>10. disk'[y.file] # NoFile
    BY <1>2, ContainerAssumption
<1>11. Files_' = Files_
    BY DEF Files_
<1>12. SavingInv'
    BY <1>2, <1>4, <1>5, <1>7, <1>8, <1>10, <1>11 DEF SavingInv, Exists
<1>13. ASSUME NEW n \in Plain PROVE Tracked(n)'
    <2>1. View'[n] = view[n]
        OBVIOUS
    <2>2. ASSUME n \notin DOMAIN left
          PROVE  \/ ZipRead(b, y, n) = view[n]
                 \/ ~p /\ n \notin DOMAIN overlay /\ zip # NoZip /\ Dated(n)'
        <3>1. CASE n \in DOMAIN overlay
            <4>1. overlay[n].removed /\ ~Live(overlay[n])
                BY <1>3, <1>4, <2>2, <3>1
            <4>2. View'[n] = Absent
                BY <3>1, <4>1, ViewSeen DEF Seen
            <4>3. QED
                BY <1>2, <2>1, <3>1, <4>1, <4>2
        <3>2. CASE n \notin DOMAIN overlay
            BY <1>2, <3>2
        <3>3. QED
            BY <3>1, <3>2
    <2>3. QED
        BY <1>2, <1>8, <2>1, <2>2 DEF Tracked
<1>14. ViewInv'
    BY <1>9, <1>13 DEF ViewInv
<1>15. QED
    BY <1>2, <1>7, <1>8, <1>9, <1>12, <1>14 DEF left

\* A save to the container that is open writes what is seen.
LEMMA SaveAtPlaceStep ==
    ASSUME ContainerInv, SaveAtPlace
    PROVE  /\ ContainerInv'
           /\ \A n \in Plain : View'[n] = View[n]
           /\ saving'.view = View /\ saving'.step = "files" /\ saving'.zip.file = cname
           /\ saving'.left = Restrict(overlay, Files_) /\ saving' \in Writes /\ saving' \notin Copy
           /\ UNCHANGED <<disk, tmps, index, zip, overlay, opened, result, cname>>
           /\ opened /\ saving = NoSave /\ zip # NoZip /\ cname \in Files
<1>1. /\ UNCHANGED <<disk, tmps, index, based, opened, cname, zip, overlay, result>>
      /\ saving' = Writing(zip, TRUE, View)
      /\ opened /\ saving = NoSave /\ cname # NoFile
    BY DEF SaveAtPlace, storage, session, Idle
<1>2. OverlayOK(overlay) /\ cname = zip.file /\ zip # NoZip
    BY <1>1 DEF ContainerInv, SessionInv, NoZip
<1>3. /\ Fits(zip, disk[zip.file]) /\ zip.prev > 0
      /\ disk[zip.file] \in Seq(Block)
      /\ cname \in Files
    BY <1>2 DEF ContainerInv, ZipInv, StorageInv, Sound
<1>4. View \in Views
    BY <1>2, ViewTyped DEF ContainerInv
<1>5. StorageInv' /\ IndexInv'
    BY <1>1, DiskKept, IndexKept DEF ContainerInv, StorageInv
<1>6. ZipInv'
    BY <1>1, ZipStays DEF ContainerInv
<1>7. SessionInv'
    <2>1. OverlayOK(overlay)'
        BY <1>1, <1>2 DEF OverlayOK, OverlayType
    <2>2. QED
        BY <1>1, <2>1 DEF ContainerInv, SessionInv
<1>8. \A n \in Plain : View'[n] = View[n]
    BY <1>1, ViewSeen DEF Seen
<1>9. \A n \in Plain \ DOMAIN overlay : ZipRead(disk[zip.file], zip, n) = View[n]
    BY <1>2, ViewSeen DEF Seen
<1>10. /\ SavingInv' /\ ViewInv'
       /\ saving'.zip.file = zip.file
       /\ saving'.view = View /\ saving'.step = "files"
       /\ saving'.left = Restrict(overlay, Files_) /\ saving' \in Writes /\ saving' \notin Copy
    <2>1. Begins(zip, TRUE, View, disk[zip.file])
        BY <1>1, <1>2, <1>3, <1>4, <1>8, <1>9 DEF Begins
    <2>2. QED
        BY <1>2, <2>1, WritingBegins
<1>11. QED
    BY <1>1, <1>2, <1>3, <1>5, <1>6, <1>7, <1>8, <1>10 DEF ContainerInv

\* A save to a container that is created writes what is seen.
LEMMA SaveNewStep ==
    ASSUME ContainerInv, NEW f \in Files, SaveNew(f)
    PROVE  /\ ContainerInv'
           /\ \A n \in Plain : View'[n] = View[n]
           /\ saving'.view = View /\ saving'.step = "files" /\ saving'.zip.file = f
           /\ saving'.left = Restrict(overlay, Files_) /\ saving' \in Writes /\ saving' \notin Copy
           /\ \A g \in Files \ {f} : disk'[g] = disk[g]
           /\ UNCHANGED <<tmps, index, zip, overlay, opened, result, cname>>
           /\ opened /\ saving = NoSave /\ zip = NoZip
<1> DEFINE z == ZipCreated(f)
<1>1. /\ UNCHANGED <<tmps, index, based, opened, cname, zip, overlay, result>>
      /\ disk' = [disk EXCEPT ![f] = <<>>]
      /\ saving' = Writing(z, FALSE, View)
      /\ opened /\ saving = NoSave /\ f # cname /\ zip = NoZip
    BY DEF SaveNew, session, Idle
<1>2. OverlayOK(overlay)
    BY DEF ContainerInv, SessionInv
<1>3. Fits(z, <<>>) /\ Sound(<<>>)
    BY CreatedFits
<1>4. z.file = f /\ z.changed /\ z.files = <<>>
    BY DEF ZipCreated
<1> HIDE DEF z
<1>5. View \in Views
    BY <1>2, ViewTyped DEF ContainerInv
<1>6. StorageInv' /\ disk'[f] = <<>> /\ \A g \in Files \ {f} : disk'[g] = disk[g]
    BY <1>1, <1>3, DiskPut DEF ContainerInv, StorageInv
<1>7. IndexInv'
    BY <1>1, IndexKept DEF ContainerInv
<1>8. ZipInv'
    BY <1>1 DEF ZipInv
<1>9. SessionInv'
    <2>1. OverlayOK(overlay)'
        BY <1>1, <1>2 DEF OverlayOK, OverlayType
    <2>2. QED
        BY <1>1, <2>1 DEF ContainerInv, SessionInv
<1>10. \A n \in Plain : View'[n] = View[n]
    BY <1>1, ViewSeen DEF Seen
<1>11. \A n \in Plain \ DOMAIN overlay : ZipRead(<<>>, z, n) = View[n]
    <2>1. \A n \in Plain : n \notin DOMAIN z.files
        BY <1>4
    <2>2. \A n \in Plain : ZipRead(<<>>, z, n) = Absent
        BY <2>1 DEF ZipRead, ZipIsFile
    <2>3. QED
        BY <1>1, <2>2, ViewSeen DEF Seen
<1>12. /\ SavingInv' /\ ViewInv'
       /\ saving'.zip.file = z.file
       /\ saving'.view = View /\ saving'.step = "files"
       /\ saving'.left = Restrict(overlay, Files_) /\ saving' \in Writes /\ saving' \notin Copy
    <2>1. <<>> \in Seq(Block)
        OBVIOUS
    <2>2. Begins(z, FALSE, View, <<>>)
        BY <1>1, <1>3, <1>4, <1>5, <1>6, <1>10, <1>11, <2>1 DEF Begins
    <2>3. QED
        BY <1>2, <2>2, WritingBegins
<1>13. QED
    BY <1>1, <1>4, <1>6, <1>7, <1>8, <1>9, <1>10, <1>12 DEF ContainerInv

\* A save to another container begins with a copy of the one that is open.
LEMMA SaveCopyStep ==
    ASSUME ContainerInv, NEW f \in Files, SaveCopy(f)
    PROVE  /\ ContainerInv'
           /\ \A n \in Plain : View'[n] = View[n]
           /\ saving' \in Copy /\ saving' \notin Writes
           /\ saving'.view = View /\ saving'.file = f /\ saving'.step = "container"
           /\ \A g \in Files \ {f} : disk'[g] = disk[g]
           /\ UNCHANGED <<tmps, index, zip, overlay, opened, result, cname>>
           /\ opened /\ saving = NoSave /\ zip # NoZip /\ f # cname
<1>1. /\ UNCHANGED <<tmps, index, based, opened, cname, zip, overlay, result>>
      /\ disk' = [disk EXCEPT ![f] = <<>>]
      /\ saving' = Copying(f)
      /\ opened /\ saving = NoSave /\ f # cname /\ zip # NoZip
    BY DEF SaveCopy, session, Idle
<1>2. OverlayOK(overlay) /\ cname = zip.file
    BY DEF ContainerInv, SessionInv
<1>3. Sound(<<>>)
    BY CreatedFits
<1>4. View \in Views
    BY <1>2, ViewTyped DEF ContainerInv
<1>5. StorageInv' /\ Exists(f)' /\ \A g \in Files \ {f} : disk'[g] = disk[g]
    BY <1>1, <1>3, DiskPut DEF ContainerInv, StorageInv
<1>6. IndexInv'
    BY <1>1, IndexKept DEF ContainerInv
<1>7. disk'[zip.file] = disk[zip.file]
    BY <1>1, <1>2, <1>5 DEF ContainerInv, ZipInv
<1>8. ZipInv'
    BY <1>1, <1>7, ZipStays DEF ContainerInv
<1>9. SessionInv'
    <2>1. OverlayOK(overlay)'
        BY <1>1, <1>2 DEF OverlayOK, OverlayType
    <2>2. QED
        BY <1>1, <2>1 DEF ContainerInv, SessionInv
<1>10. \A n \in Plain : View'[n] = View[n]
    BY <1>1, <1>7, ViewSeen DEF Seen
<1>11. saving' = [step |-> "container", file |-> f, view |-> View]
    BY <1>1 DEF Copying
<1>12. /\ saving' \in Copy /\ saving' \notin Writes
       /\ saving'.view = View /\ saving'.file = f /\ saving'.step = "container"
    BY <1>4, <1>11 DEF Copy, Writes
<1>13. SavingInv'
    BY <1>1, <1>5, <1>12 DEF SavingInv, Exists
<1>14. View' = View
    <2>1. View = [n \in Plain |-> View[n]] /\ View' = [n \in Plain |-> View'[n]]
        BY DEF View
    <2>2. QED
        BY <1>10, <2>1
<1>15. ViewInv'
    BY <1>12, <1>14 DEF ViewInv
<1>16. QED
    BY <1>1, <1>5, <1>6, <1>8, <1>9, <1>10, <1>12, <1>13, <1>15 DEF ContainerInv

-----------------------------------------------------------------------------
(***************************************************************************)
(* The container is copied.                                                *)
(***************************************************************************)

\* What is known of a save under way.
LEMMA CopyKnown ==
    ASSUME ContainerInv, saving.step = "container"
    PROVE  /\ saving \in Copy /\ saving \notin Writes
           /\ saving.file \in Files /\ saving.view \in Views
           /\ zip # NoZip /\ saving.file # cname /\ saving.view = View
           /\ opened /\ saving # NoSave /\ cname = zip.file
<1>1. saving # NoSave /\ saving \notin Writes
    BY DEF NoSave, Writes
<1>2. saving \in Copy /\ zip # NoZip /\ saving.file # cname
    BY <1>1 DEF ContainerInv, SavingInv
<1>3. QED
    BY <1>1, <1>2 DEF ContainerInv, ViewInv, SessionInv, Copy

\* The container a save writes to is there and fits its handle.
LEMMA WritesKnown ==
    ASSUME ContainerInv, saving.step = "files"
    PROVE  /\ saving \in Writes /\ saving \notin Copy
           /\ Exists(saving.zip.file)
           /\ Fits(saving.zip, disk[saving.zip.file])
           /\ saving.at_place <=> saving.zip.file = cname
           /\ saving.zip.changed \/ saving.zip.prev > 0
           /\ DOMAIN saving.left \subseteq Files_
           /\ saving.left = Restrict(overlay, DOMAIN saving.left)
           /\ saving.todo \subseteq DOMAIN saving.left
           /\ \A n \in Plain : Tracked(n)
           /\ saving.zip \in Handle /\ saving.zip.file \in Files /\ saving.view \in Views
           /\ Sound(disk[saving.zip.file])
           /\ opened /\ saving # NoSave /\ cname = zip.file
<1>1. saving # NoSave /\ saving \notin Copy
    BY DEF NoSave, Copy
<1>2. /\ saving \in Writes
      /\ Exists(saving.zip.file)
      /\ Fits(saving.zip, disk[saving.zip.file])
      /\ saving.at_place <=> saving.zip.file = cname
      /\ saving.zip.changed \/ saving.zip.prev > 0
      /\ DOMAIN saving.left \subseteq Files_
      /\ saving.left = Restrict(overlay, DOMAIN saving.left)
      /\ saving.todo \subseteq DOMAIN saving.left
    BY <1>1 DEF ContainerInv, SavingInv
<1>3. \A n \in Plain : Tracked(n)
    BY <1>2 DEF ContainerInv, ViewInv
<1>4. saving.zip \in Handle /\ saving.view \in Views
    BY <1>2 DEF Writes
<1>5. saving.zip.file \in Files
    BY <1>4 DEF Handle
<1>6. Sound(disk[saving.zip.file])
    BY <1>2, <1>5 DEF ContainerInv, StorageInv
<1>7. opened /\ cname = zip.file
    BY <1>1 DEF ContainerInv, SessionInv
<1>8. QED
    BY <1>1, <1>2, <1>3, <1>4, <1>5, <1>6, <1>7

\* The part of the container a copy is made of opens as the version saved last.
LEMMA WholeFacts ==
    ASSUME StorageInv, ZipInv, zip # NoZip
    PROVE  /\ Sound(Whole)
           /\ Len(Whole) = zip.prev
           /\ Ends(Whole, Len(Whole))
           /\ Ends(disk[zip.file], zip.prev)
           /\ Agree(disk[zip.file], Whole, zip.prev)
           /\ zip.prev \in Nat
<1> DEFINE b == disk[zip.file]
           k == zip.prev
<1>1. Sound(b) /\ Fits(zip, b) /\ k > 0
    BY DEF ZipInv, StorageInv
<1>2. b \in Seq(Block) /\ Ends(b, k)
    BY <1>1, LastVersion DEF Sound
<1>3. k \in 1..Len(b) /\ b[k].kind = "end" /\ Len(b) \in Nat
    BY <1>2 DEF Ends
<1>4. Whole = SubSeq(b, 1, k)
    BY DEF Whole
<1> HIDE DEF b, k
<1>5. Sound(Whole) /\ Len(Whole) = k /\ Agree(Whole, b, k)
    BY <1>1, <1>2, <1>3, <1>4, SoundPrefix, Prefix
<1>6. Agree(b, Whole, k)
    BY <1>5 DEF Agree
<1>7. Ends(Whole, k)
    BY <1>3, <1>5, <1>6 DEF Ends, Agree
<1>8. QED
    BY <1>2, <1>3, <1>5, <1>6, <1>7 DEF b, k

\* Once the container was copied, the copy shows what is seen where nothing is to be written.
LEMMA CopyContainerStep ==
    ASSUME ContainerInv, CopyContainer
    PROVE  /\ ContainerInv'
           /\ \A n \in Plain : View'[n] = View[n]
           /\ saving \in Copy
           /\ saving'.view = saving.view /\ saving'.zip.file = saving.file /\ saving'.step = "files"
           /\ saving'.left = Restrict(overlay, Files_) /\ saving' \in Writes /\ saving' \notin Copy
           /\ \A g \in Files \ {saving.file} : disk'[g] = disk[g]
           /\ UNCHANGED <<tmps, index, zip, overlay, opened, result, cname>>
<1> DEFINE f == saving.file
           z == ZipOpened(f, Whole, Len(Whole))
<1>1. /\ saving \in Copy
      /\ f \in Files /\ saving.view \in Views
      /\ zip # NoZip /\ f # cname /\ saving.view = View
      /\ cname = zip.file
    BY CopyKnown DEF CopyContainer
<1>2. /\ Sound(Whole)
      /\ Len(Whole) = zip.prev
      /\ Ends(Whole, Len(Whole))
      /\ Ends(disk[zip.file], zip.prev)
      /\ Agree(disk[zip.file], Whole, zip.prev)
    BY <1>1, WholeFacts DEF ContainerInv
<1>3. /\ UNCHANGED <<tmps, index, based, opened, cname, zip, overlay, result>>
      /\ disk' = [disk EXCEPT ![f] = Whole]
      /\ saving' = Writing(z, FALSE, saving.view)
    BY <1>2 DEF CopyContainer, session, Opens
<1>4. Fits(z, Whole) /\ z.prev > 0
    BY <1>1, <1>2, OpenedFits
<1>5. z.file = f
    BY DEF ZipOpened
<1>6. StorageInv' /\ disk'[f] = Whole /\ \A g \in Files \ {f} : disk'[g] = disk[g]
    BY <1>1, <1>2, <1>3, DiskPut DEF ContainerInv, StorageInv
<1>7. IndexInv'
    BY <1>3, IndexKept DEF ContainerInv
<1>8. disk'[zip.file] = disk[zip.file]
    BY <1>1, <1>6 DEF ContainerInv, ZipInv
<1>9. ZipInv'
    BY <1>3, <1>8, ZipStays DEF ContainerInv
<1>10. OverlayOK(overlay)
    BY DEF ContainerInv, SessionInv
<1>11. SessionInv'
    <2>1. OverlayOK(overlay)'
        BY <1>3, <1>10 DEF OverlayOK, OverlayType
    <2>2. saving # NoSave /\ opened
        BY CopyKnown DEF CopyContainer
    <2>3. QED
        BY <1>3, <2>1, <2>2 DEF ContainerInv, SessionInv
<1>12. \A n \in Plain : View'[n] = View[n]
    BY <1>3, <1>8, ViewSeen DEF Seen
<1>13. ASSUME NEW n \in Plain \ DOMAIN overlay
       PROVE  ZipRead(Whole, z, n) = View[n] \/ Dated(n)'
    <2>1. ZipRead(Whole, z, n) = ZipRead(disk[zip.file], ZipOpened(zip.file, disk[zip.file], zip.prev), n)
        <3>1. Sound(disk[zip.file])
            BY <1>1 DEF ContainerInv, ZipInv, StorageInv
        <3>2. QED
            BY <1>2, <3>1, VersionStays
    <2>2. View[n] = ZipRead(disk[zip.file], zip, n)
        BY <1>1, ViewSeen DEF Seen
    <2>3. Dated(n)' <=> Dated(n)
        BY <1>3, <1>8 DEF Dated
    <2>4. QED
        BY <2>1, <2>2, <2>3 DEF Dated
<1>14. Begins(z, FALSE, saving.view, Whole)
    <2>1. Whole \in Seq(Block)
        BY <1>2 DEF Sound
    <2> HIDE DEF z
    <2>2. QED
        BY <1>1, <1>3, <1>4, <1>5, <1>6, <1>12, <1>13, <2>1 DEF Begins
<1> HIDE DEF z
<1>15. /\ SavingInv' /\ ViewInv'
       /\ saving'.zip.file = f
       /\ saving'.view = saving.view /\ saving'.step = "files"
       /\ saving'.left = Restrict(overlay, Files_) /\ saving' \in Writes /\ saving' \notin Copy
    BY <1>5, <1>10, <1>14, WritingBegins
<1>16. QED
    BY <1>1, <1>3, <1>6, <1>7, <1>9, <1>11, <1>12, <1>15 DEF ContainerInv

\* A part of a container is one.
LEMMA PartsSound ==
    ASSUME StorageInv, ZipInv, zip # NoZip, NEW b \in Parts
    PROVE  Sound(b)
<1>1. Sound(Whole) /\ Len(Whole) = zip.prev /\ zip.prev \in Nat
    BY WholeFacts
<1>2. PICK k \in 0..(zip.prev - 1) : b = SubSeq(Whole, 1, k) \/ b = Append(SubSeq(Whole, 1, k), Broken)
    BY DEF Parts
<1>3. Sound(SubSeq(Whole, 1, k))
    BY <1>1, <1>2, SoundPrefix
<1>4. Fitting(Broken, SubSeq(Whole, 1, k))
    BY DEF Fitting, Broken, Block
<1>5. QED
    BY <1>2, <1>3, <1>4, SoundAppend

\* A copy that fails ends the save and leaves what is seen.
LEMMA CopyContainerFailsStep ==
    ASSUME ContainerInv, CopyContainerFails
    PROVE  /\ ContainerInv'
           /\ \A n \in Plain : View'[n] = View[n]
           /\ saving \in Copy /\ saving' = NoSave
           /\ \A g \in Files \ {saving.file} : disk'[g] = disk[g]
           /\ UNCHANGED <<tmps, index, zip, overlay, opened, cname>>
           /\ result' = FALSE
<1> DEFINE f == saving.file
<1>1. /\ saving \in Copy
      /\ f \in Files
      /\ zip # NoZip /\ f # cname
      /\ opened
      /\ cname = zip.file
    BY CopyKnown DEF CopyContainerFails
<1>2. PICK b \in Parts \cup {Whole} : disk' = [disk EXCEPT ![f] = b]
    BY DEF CopyContainerFails
<1>3. Sound(b)
    BY <1>1, PartsSound, WholeFacts DEF ContainerInv
<1>4. /\ UNCHANGED <<tmps, index, based, opened, cname, zip, overlay>>
      /\ saving' = NoSave /\ result' = FALSE
    BY DEF CopyContainerFails, session, Return
<1>5. StorageInv' /\ \A g \in Files \ {f} : disk'[g] = disk[g]
    BY <1>1, <1>2, <1>3, <1>4, DiskPut DEF ContainerInv, StorageInv
<1>6. IndexInv'
    BY <1>4, IndexKept DEF ContainerInv
<1>7. disk'[zip.file] = disk[zip.file]
    BY <1>1, <1>5 DEF ContainerInv, ZipInv
<1>8. ZipInv'
    BY <1>4, <1>7, ZipStays DEF ContainerInv
<1>9. SessionInv'
    <2>1. OverlayOK(overlay)'
        BY <1>4 DEF OverlayOK, OverlayType, ContainerInv, SessionInv
    <2>2. QED
        BY <1>1, <1>4, <2>1 DEF ContainerInv, SessionInv
<1>10. \A n \in Plain : View'[n] = View[n]
    BY <1>4, <1>7, ViewSeen DEF Seen
<1>11. QED
    BY <1>1, <1>4, <1>5, <1>6, <1>8, <1>9, <1>10, SavingNone DEF ContainerInv

-----------------------------------------------------------------------------
(***************************************************************************)
(* File after file is copied.                                              *)
(***************************************************************************)

\* A step that writes x behind the container, whose handle is then y.
Grows(x, y, left, todo) ==
    /\ x \in Block /\ x.kind # "end"
    /\ disk' = [disk EXCEPT ![saving.zip.file] = Append(disk[saving.zip.file], x)]
    /\ Fits(y, Append(disk[saving.zip.file], x))
    /\ y.file = saving.zip.file /\ y.changed
    /\ DOMAIN left \subseteq DOMAIN saving.left
    /\ left = Restrict(overlay, DOMAIN left)
    /\ todo \subseteq DOMAIN left
    /\ tmps' \in Functions_(Tmps, Contents)
    /\ DOMAIN tmps' \subseteq DOMAIN tmps
    /\ \A t \in DOMAIN tmps' : tmps'[t] = tmps[t]
    /\ UNCHANGED <<index, based, opened, cname, zip, overlay, result>>
    /\ saving' \in Writes
    /\ saving'.zip = y /\ saving'.left = left /\ saving'.todo = todo
    /\ saving'.view = saving.view
    /\ saving'.at_place <=> saving.at_place

\* A block appended by a save fits the container, and what was there is read as before.
LEMMA GrowsStep ==
    ASSUME ContainerInv, saving.step = "files", NEW x, NEW y, NEW left, NEW todo,
           Grows(x, y, left, todo)
    PROVE  /\ StorageInv' /\ IndexInv' /\ ZipInv' /\ SessionInv' /\ SavingInv'
           /\ saving' \notin Copy /\ saving' # NoSave /\ saving'.step = "files"
           /\ \A g \in Files \ {saving.zip.file} : disk'[g] = disk[g]
           /\ disk'[saving.zip.file] = Append(disk[saving.zip.file], x)
           /\ zip # NoZip => Agree(disk[zip.file], disk'[zip.file], Len(disk[zip.file]))
           /\ zip # NoZip => \A n \in Plain : Dated(n)' <=> Dated(n)
<1> DEFINE f == saving.zip.file
           b == disk[f]
           c == Append(b, x)
<1> USE DEF Grows
<1>1. /\ DOMAIN saving.left \subseteq Files_
      /\ saving.at_place <=> f = cname
      /\ f \in Files
      /\ Sound(b)
      /\ opened /\ cname = zip.file
    BY WritesKnown
<1>2. Sound(c)
    <2>1. Fitting(x, b)
        BY DEF Fitting
    <2>2. QED
        BY <1>1, <2>1, SoundAppend
<1>3. StorageInv' /\ Exists(f)' /\ disk'[f] = c /\ \A g \in Files \ {f} : disk'[g] = disk[g]
    BY <1>1, <1>2, DiskPut DEF ContainerInv
<1>4. IndexInv'
    BY IndexStays DEF ContainerInv
<1>5. zip # NoZip => disk'[zip.file] = disk[zip.file] \/ disk'[zip.file] = Append(disk[zip.file], x)
    BY <1>3 DEF ContainerInv, ZipInv
<1>6. /\ ZipInv'
      /\ zip # NoZip => Agree(disk[zip.file], disk'[zip.file], Len(disk[zip.file]))
    BY <1>5, ZipStays DEF ContainerInv
<1>7. zip # NoZip => \A n \in Plain : Dated(n)' <=> Dated(n)
    BY <1>6, DatedStays DEF ContainerInv
<1>8. SessionInv'
    <2>1. OverlayOK(overlay)'
        BY DEF OverlayOK, OverlayType, ContainerInv, SessionInv
    <2>2. QED
        BY <1>1, <2>1 DEF ContainerInv, SessionInv
<1>9. Files_' = Files_
    BY DEF Files_
<1>10. saving' \notin Copy /\ saving' # NoSave /\ saving'.step = "files"
    BY DEF Copy, NoSave, Writes
<1>11. SavingInv'
    <2>1. disk'[y.file] # NoFile /\ Fits(y, disk'[y.file])
        BY <1>3 DEF Exists
    <2>2. DOMAIN left \subseteq Files_
        BY <1>1
    <2>3. y.file = f /\ (y.changed \/ y.prev > 0)
        OBVIOUS
    <2>4. saving'.at_place <=> y.file = cname'
        BY <1>1
    <2> HIDE DEF c, f, b
    <2>5. QED
        BY <1>9, <2>1, <2>2, <2>3, <2>4 DEF SavingInv, Exists
<1>12. QED
    BY <1>3, <1>4, <1>6, <1>7, <1>8, <1>10, <1>11

\* A name that is left to be copied is live.
LEMMA LeftIsLive ==
    ASSUME ContainerInv, saving.step = "files", NEW n \in DOMAIN saving.left
    PROVE  n \in Plain /\ n \in DOMAIN overlay /\ Live(overlay[n]) /\ saving.left[n] = overlay[n]
<1>1. DOMAIN saving.left \subseteq Files_ /\ saving.left = Restrict(overlay, DOMAIN saving.left)
    BY WritesKnown
<1>2. OverlayOK(overlay)
    BY DEF ContainerInv, SessionInv
<1>3. n \in Files_ /\ saving.left[n] = overlay[n]
    BY <1>1 DEF Restrict
<1>4. QED
    BY <1>2, <1>3, FilesAreLive

\* A file that is saved is in the container as it was seen.
LEMMA SaveFileStep ==
    ASSUME ContainerInv, NEW n \in Plain, SaveFile(n)
    PROVE  /\ ContainerInv'
           /\ saving \in Writes /\ saving' \in Writes /\ saving' \notin Copy
           /\ saving'.view = saving.view /\ saving'.step = "files"
           /\ saving'.zip.file = saving.zip.file /\ saving'.zip.changed
           /\ \A g \in Files \ {saving.zip.file} : disk'[g] = disk[g]
           /\ UNCHANGED <<index, zip, overlay, opened, result, cname>>
           /\ zip # NoZip => \A m \in Plain : Dated(m)' <=> Dated(m)
<1> DEFINE z == saving.zip
           b == disk[z.file]
           t == overlay[n].tmp
           c == tmps[t]
           x == FileBlock(c)
           y == ZipWritten(z, b, n)
           left == Without(saving.left, n)
           todo == saving.todo \ {n}
<1>1. /\ saving.step = "files" /\ n \in saving.todo /\ t \in DOMAIN tmps
      /\ disk' = [disk EXCEPT ![z.file] = Append(b, x)]
      /\ saving' = [saving EXCEPT !.zip = y, !.left = left, !.todo = todo]
      /\ tmps' = Without(tmps, t)
      /\ UNCHANGED <<index, based, opened, cname, zip, overlay, result>>
    BY DEF SaveFile, CanCopy, ToWrite, session
<1>2. /\ saving \in Writes /\ saving \notin Copy
      /\ Fits(z, b)
      /\ DOMAIN saving.left \subseteq Files_
      /\ saving.left = Restrict(overlay, DOMAIN saving.left)
      /\ saving.todo \subseteq DOMAIN saving.left
      /\ \A m \in Plain : Tracked(m)
      /\ b \in Seq(Block)
    BY <1>1, WritesKnown DEF Sound
<1>3. c \in Contents
    BY <1>1, TmpsTyped DEF ContainerInv, StorageInv
<1>4. /\ Fits(y, Append(b, x))
      /\ y.file = z.file
      /\ y.changed
      /\ ZipRead(Append(b, x), y, n) = c
      /\ \A m \in Plain \ {n} : ZipRead(Append(b, x), y, m) = ZipRead(b, z, m)
    BY <1>2, <1>3, WrittenFits
<1>5. x \in Block /\ x.kind # "end"
    BY <1>3 DEF FileBlock, Block
<1>6. /\ DOMAIN left = DOMAIN saving.left \ {n}
      /\ left = Restrict(overlay, DOMAIN left)
    <2>1. DOMAIN left = DOMAIN saving.left \ {n}
        BY DEF Without
    <2>2. \A m \in DOMAIN saving.left : saving.left[m] = overlay[m]
        BY <1>2 DEF Restrict
    <2>3. left = [m \in DOMAIN saving.left \ {n} |-> overlay[m]]
        BY <2>2 DEF Without
    <2>4. QED
        BY <2>1, <2>3 DEF Restrict
<1>7. todo \subseteq DOMAIN left
    BY <1>2, <1>6
<1>8. /\ tmps' \in Functions_(Tmps, Contents)
      /\ DOMAIN tmps' = DOMAIN tmps \ {t}
      /\ \A k \in DOMAIN tmps' : tmps'[k] = tmps[k]
    BY <1>1, TmpsLess DEF Without, ContainerInv, StorageInv
<1>9. OverlayOK(overlay) /\ Files_ \subseteq DOMAIN overlay /\ Files_ \subseteq Plain
    BY FilesAreLive DEF ContainerInv, SessionInv
<1>10. y \in Handle /\ left \in Entries /\ todo \in SUBSET Plain
    <2>1. DOMAIN left \subseteq DOMAIN overlay
        BY <1>2, <1>6, <1>9
    <2>2. left \in Entries
        BY <1>6, <1>9, <2>1, OverlayPart DEF OverlayOK
    <2>3. QED
        BY <1>2, <1>4, <1>9, <2>2 DEF Fits
<1> HIDE DEF y, left, todo, x, c
<1>11. /\ saving' \in Writes
       /\ saving'.zip = y /\ saving'.left = left /\ saving'.todo = todo
       /\ saving'.view = saving.view
       /\ saving'.at_place <=> saving.at_place
    BY <1>1, <1>2, <1>10 DEF Writes
<1>12. Grows(x, y, left, todo)
    BY <1>1, <1>4, <1>5, <1>6, <1>7, <1>8, <1>11 DEF Grows
<1>13. /\ StorageInv' /\ IndexInv' /\ ZipInv' /\ SessionInv' /\ SavingInv'
       /\ saving' \notin Copy /\ saving' # NoSave /\ saving'.step = "files"
       /\ \A g \in Files \ {z.file} : disk'[g] = disk[g]
       /\ disk'[z.file] = Append(b, x)
       /\ zip # NoZip => Agree(disk[zip.file], disk'[zip.file], Len(disk[zip.file]))
       /\ zip # NoZip => \A m \in Plain : Dated(m)' <=> Dated(m)
    BY <1>1, <1>12, GrowsStep
<1>14. n \in DOMAIN overlay /\ Live(overlay[n]) /\ n \in DOMAIN saving.left
    BY <1>1, <1>2, LeftIsLive
<1>15. View[n] = c /\ View'[n] = Lost
    BY <1>1, <1>8, <1>14, ViewSeen DEF Seen, c
<1>16. ASSUME NEW m \in Plain \ {n} PROVE View'[m] = View[m]
    <2>1. ASSUME m \in DOMAIN overlay, Live(overlay[m]) PROVE overlay[m].tmp # t
        BY <1>9, <2>1, <1>14, OtherTmps
    <2>2. QED
        BY <1>1, <1>8, <1>9, <1>13, <2>1, SeenStays DEF ContainerInv
<1>17. ASSUME NEW m \in Plain PROVE Tracked(m)'
    <2>1. CASE m = n
        <3>1. n \notin DOMAIN left /\ ZipRead(disk'[y.file], y, n) = saving.view[n]
            BY <1>2, <1>4, <1>6, <1>13, <1>14, <1>15 DEF Tracked
        <3>2. QED
            BY <1>11, <1>15, <2>1, <3>1 DEF Tracked
    <2>2. CASE m # n
        <3>1. Tracked(m) /\ View'[m] = View[m]
            BY <1>2, <1>16, <2>2
        <3>2. m \in DOMAIN left <=> m \in DOMAIN saving.left
            BY <1>6, <2>2
        <3>3. ZipRead(disk'[y.file], y, m) = ZipRead(b, z, m)
            BY <1>4, <1>13, <2>2
        <3>4. zip # NoZip => (Dated(m)' <=> Dated(m))
            BY <1>13
        <3>5. QED
            BY <1>1, <1>11, <3>1, <3>2, <3>3, <3>4 DEF Tracked
    <2>3. QED
        BY <2>1, <2>2
<1>18. ViewInv'
    BY <1>13, <1>17 DEF ViewInv
<1>19. QED
    BY <1>1, <1>2, <1>4, <1>11, <1>13, <1>18 DEF ContainerInv

\* A handle that could not save, or wrote in vain, is changed.
LEMMA ChangedFits ==
    ASSUME NEW b, NEW z, Fits(z, b)
    PROVE  /\ Fits([z EXCEPT !.changed = TRUE], b)
           /\ [z EXCEPT !.changed = TRUE].file = z.file
           /\ [z EXCEPT !.changed = TRUE].changed
           /\ \A n : ZipRead(b, [z EXCEPT !.changed = TRUE], n) = ZipRead(b, z, n)
<1> DEFINE y == [z EXCEPT !.changed = TRUE]
<1>1. z \in Handle
    BY DEF Fits
<1>2. DOMAIN z = {"file", "files", "changed", "prev"}
    BY <1>1 DEF Handle
<1>3. y.file = z.file /\ y.files = z.files /\ y.prev = z.prev /\ y.changed
    BY <1>2
<1>4. y \in Handle
    BY <1>1 DEF Handle
<1> HIDE DEF y
<1>5. Fits(y, b)
    BY <1>3, <1>4 DEF Fits
<1>6. \A n : ZipRead(b, y, n) = ZipRead(b, z, n)
    BY <1>3 DEF ZipRead, ZipIsFile
<1>7. QED
    BY <1>3, <1>5, <1>6 DEF y

\* A file that is not copied as a whole stays in the overlay, with its temporary file.
LEMMA LeftStep ==
    ASSUME ContainerInv, saving.step = "files", NEW x, NEW y, NEW todo,
           Grows(x, y, saving.left, todo), UNCHANGED tmps,
           \A m \in Plain \ DOMAIN saving.left :
               ZipRead(Append(disk[saving.zip.file], x), y, m) = ZipRead(disk[saving.zip.file], saving.zip, m)
    PROVE  /\ ContainerInv'
           /\ saving \in Writes /\ saving' \in Writes /\ saving' \notin Copy
           /\ saving'.view = saving.view /\ saving'.step = "files"
           /\ saving'.zip.file = saving.zip.file /\ saving'.zip.changed
           /\ \A g \in Files \ {saving.zip.file} : disk'[g] = disk[g]
           /\ UNCHANGED <<index, zip, overlay, opened, result, cname>>
           /\ zip # NoZip => \A m \in Plain : Dated(m)' <=> Dated(m)
<1> DEFINE f == saving.zip.file
<1>1. saving \in Writes /\ \A m \in Plain : Tracked(m)
    BY WritesKnown
<1>2. /\ StorageInv' /\ IndexInv' /\ ZipInv' /\ SessionInv' /\ SavingInv'
      /\ saving' \notin Copy /\ saving' # NoSave /\ saving'.step = "files"
      /\ \A g \in Files \ {f} : disk'[g] = disk[g]
      /\ disk'[f] = Append(disk[f], x)
      /\ zip # NoZip => Agree(disk[zip.file], disk'[zip.file], Len(disk[zip.file]))
      /\ zip # NoZip => \A m \in Plain : Dated(m)' <=> Dated(m)
    BY GrowsStep
<1>3. /\ y.file = f /\ y.changed
      /\ saving' \in Writes /\ saving'.zip = y /\ saving'.left = saving.left
      /\ saving'.view = saving.view /\ (saving'.at_place <=> saving.at_place)
      /\ UNCHANGED <<index, zip, overlay, opened, result, cname>>
    BY DEF Grows
<1>4. ASSUME NEW m \in Plain PROVE View'[m] = View[m]
    BY <1>2, <1>3, SeenStays DEF ContainerInv, SessionInv
<1>5. ASSUME NEW m \in Plain PROVE Tracked(m)'
    <2>1. Tracked(m) /\ View'[m] = View[m]
        BY <1>1, <1>4
    <2>2. m \notin DOMAIN saving.left => ZipRead(disk'[y.file], y, m) = ZipRead(disk[f], saving.zip, m)
        BY <1>2, <1>3
    <2>3. zip # NoZip => (Dated(m)' <=> Dated(m))
        BY <1>2
    <2>4. QED
        BY <1>3, <2>1, <2>2, <2>3 DEF Tracked
<1>6. ViewInv'
    BY <1>2, <1>5 DEF ViewInv
<1>7. QED
    BY <1>1, <1>2, <1>3, <1>6 DEF ContainerInv

\* A copy that breaks off leaves a part of the file, or of its header.
LEMMA SaveFileBreaksOffStep ==
    ASSUME ContainerInv, NEW n \in Plain, SaveFileBreaksOff(n)
    PROVE  /\ ContainerInv'
           /\ saving \in Writes /\ saving' \in Writes /\ saving' \notin Copy
           /\ saving'.view = saving.view /\ saving'.step = "files"
           /\ saving'.zip.file = saving.zip.file /\ saving'.zip.changed
           /\ \A g \in Files \ {saving.zip.file} : disk'[g] = disk[g]
           /\ UNCHANGED <<index, zip, overlay, opened, result, cname>>
           /\ zip # NoZip => \A m \in Plain : Dated(m)' <=> Dated(m)
<1> DEFINE z == saving.zip
           b == disk[z.file]
           todo == saving.todo \ {n}
<1>1. /\ saving.step = "files" /\ n \in saving.todo
      /\ UNCHANGED <<tmps, index, based, opened, cname, zip, overlay, result>>
    BY DEF SaveFileBreaksOff, CanCopy, ToWrite, session
<1>2. /\ saving \in Writes /\ saving \notin Copy
      /\ Fits(z, b)
      /\ DOMAIN saving.left \subseteq Files_
      /\ saving.left = Restrict(overlay, DOMAIN saving.left)
      /\ saving.todo \subseteq DOMAIN saving.left
      /\ b \in Seq(Block)
    BY <1>1, WritesKnown DEF Sound
<1>3. tmps \in Functions_(Tmps, Contents) /\ n \in DOMAIN saving.left
    BY <1>1, <1>2 DEF ContainerInv, StorageInv
<1>4. todo \subseteq DOMAIN saving.left /\ todo \in SUBSET Plain
    BY <1>2 DEF Writes
<1>5. CASE /\ disk' = [disk EXCEPT ![z.file] = Append(b, FileBlock(Torn))]
           /\ saving' = [saving EXCEPT !.zip = ZipWritten(z, b, n), !.todo = todo]
    <2> DEFINE x == FileBlock(Torn)
               y == ZipWritten(z, b, n)
    <2>1. Torn \in Contents
        BY DEF Contents
    <2>2. /\ Fits(y, Append(b, x)) /\ y.file = z.file /\ y.changed
          /\ \A m \in Plain \ {n} : ZipRead(Append(b, x), y, m) = ZipRead(b, z, m)
        BY <1>2, <2>1, WrittenFits
    <2>3. x \in Block /\ x.kind # "end"
        BY <2>1 DEF FileBlock, Block
    <2>4. y \in Handle
        BY <2>2 DEF Fits
    <2> HIDE DEF x, y, todo
    <2>5. /\ saving' \in Writes
          /\ saving'.zip = y /\ saving'.left = saving.left /\ saving'.todo = todo
          /\ saving'.view = saving.view
          /\ saving'.at_place <=> saving.at_place
        BY <1>2, <1>4, <1>5, <2>4 DEF Writes, x, y
    <2>6. Grows(x, y, saving.left, todo)
        BY <1>1, <1>2, <1>3, <1>4, <1>5, <2>2, <2>3, <2>5 DEF Grows, x
    <2>7. QED
        BY <1>1, <1>3, <2>2, <2>6, LeftStep
<1>6. CASE /\ disk' = [disk EXCEPT ![z.file] = Append(b, Broken)]
           /\ saving' = [saving EXCEPT !.zip.changed = TRUE, !.todo = todo]
    <2> DEFINE y == [z EXCEPT !.changed = TRUE]
    <2>1. Broken \in Block /\ Broken.kind # "end"
        BY DEF Broken, Block
    <2>2. Fits(z, Append(b, Broken))
        BY <1>2, <2>1, FitsStays
    <2>3. /\ Fits(y, Append(b, Broken)) /\ y.file = z.file /\ y.changed
          /\ \A m : ZipRead(Append(b, Broken), y, m) = ZipRead(Append(b, Broken), z, m)
        BY <2>2, ChangedFits
    <2>4. \A m \in Plain : ZipRead(Append(b, Broken), z, m) = ZipRead(b, z, m)
        <3>1. Agree(b, Append(b, Broken), Len(b))
            BY <1>2, Appended
        <3>2. QED
            BY <1>2, <3>1, ReadStays
    <2>5. y \in Handle
        BY <2>3 DEF Fits
    <2>6. saving' = [saving EXCEPT !.zip = y, !.todo = todo]
        BY <1>6
    <2> HIDE DEF y, todo
    <2>7. /\ saving' \in Writes
          /\ saving'.zip = y /\ saving'.left = saving.left /\ saving'.todo = todo
          /\ saving'.view = saving.view
          /\ saving'.at_place <=> saving.at_place
        BY <1>2, <1>4, <2>5, <2>6 DEF Writes
    <2>8. Grows(Broken, y, saving.left, todo)
        BY <1>1, <1>2, <1>3, <1>4, <1>6, <2>1, <2>3, <2>7 DEF Grows
    <2>9. QED
        BY <1>1, <1>3, <2>3, <2>4, <2>8, LeftStep
<1>7. QED
    BY <1>5, <1>6 DEF SaveFileBreaksOff

\* A file that cannot be copied is given up.
LEMMA SaveFileFailsStep ==
    ASSUME ContainerInv, NEW n \in Plain, SaveFileFails(n)
    PROVE  /\ ContainerInv'
           /\ saving \in Writes /\ saving' \in Writes /\ saving' \notin Copy
           /\ saving'.view = saving.view /\ saving'.step = "files"
           /\ saving'.zip = saving.zip /\ saving'.left = saving.left
           /\ UNCHANGED <<disk, tmps, index, zip, overlay, opened, result, cname>>
<1> DEFINE todo == saving.todo \ {n}
<1>1. /\ saving.step = "files"
      /\ saving' = [saving EXCEPT !.todo = todo]
      /\ UNCHANGED <<disk, tmps, index, based, opened, cname, zip, overlay, result>>
    BY DEF SaveFileFails, ToWrite, storage, session
<1>2. /\ saving \in Writes
      /\ saving.todo \subseteq DOMAIN saving.left
      /\ Exists(saving.zip.file)
      /\ Fits(saving.zip, disk[saving.zip.file])
      /\ saving.at_place <=> saving.zip.file = cname
      /\ saving.zip.changed \/ saving.zip.prev > 0
      /\ DOMAIN saving.left \subseteq Files_
      /\ saving.left = Restrict(overlay, DOMAIN saving.left)
      /\ \A m \in Plain : Tracked(m)
      /\ opened
    BY <1>1, WritesKnown
<1>3. todo \subseteq DOMAIN saving.left /\ todo \in SUBSET Plain
    BY <1>2 DEF Writes
<1> HIDE DEF todo
<1>4. /\ saving' \in Writes
      /\ saving'.zip = saving.zip /\ saving'.left = saving.left /\ saving'.todo = todo
      /\ saving'.view = saving.view /\ saving'.step = "files"
      /\ saving'.at_place <=> saving.at_place
    BY <1>1, <1>2, <1>3 DEF Writes
<1>5. saving' \notin Copy /\ saving' # NoSave
    BY <1>4 DEF Copy, NoSave
<1>6. StorageInv' /\ IndexInv'
    BY <1>1, DiskKept, IndexKept DEF ContainerInv, StorageInv
<1>7. ZipInv'
    BY <1>1, ZipStays DEF ContainerInv
<1>8. SessionInv'
    <2>1. OverlayOK(overlay)'
        BY <1>1 DEF OverlayOK, OverlayType, ContainerInv, SessionInv
    <2>2. QED
        BY <1>1, <1>2, <2>1 DEF ContainerInv, SessionInv
<1>9. Files_' = Files_
    BY <1>1 DEF Files_
<1>10. SavingInv'
    BY <1>1, <1>2, <1>3, <1>4, <1>9 DEF SavingInv, Exists
<1>11. ASSUME NEW m \in Plain PROVE Tracked(m)'
    <2>1. Tracked(m)
        BY <1>2
    <2>2. View'[m] = View[m]
        BY <1>1, ViewSeen DEF Seen
    <2>3. Dated(m)' <=> Dated(m)
        BY <1>1 DEF Dated
    <2>4. QED
        BY <1>1, <1>4, <2>1, <2>2, <2>3 DEF Tracked
<1>12. ViewInv'
    BY <1>5, <1>11 DEF ViewInv
<1>13. QED
    BY <1>1, <1>2, <1>4, <1>5, <1>6, <1>7, <1>8, <1>10, <1>12 DEF ContainerInv

-----------------------------------------------------------------------------
(***************************************************************************)
(* A save ends.                                                            *)
(***************************************************************************)

\* There is one last directory.
LEMMA LatestUnique ==
    ASSUME NEW b, NEW k \in Nat, NEW p, NEW q, Latest(b, p, k), Latest(b, q, k)
    PROVE  p = q
<1>1. /\ p \in 0..k /\ q \in 0..k
      /\ p > 0 => b[p].kind = "end"
      /\ q > 0 => b[q].kind = "end"
      /\ \A j \in (p + 1)..k : b[j].kind # "end"
      /\ \A j \in (q + 1)..k : b[j].kind # "end"
    BY DEF Latest
<1>2. ~(p < q)
    <2>1. p < q => q \in (p + 1)..k /\ q > 0
        BY <1>1
    <2>2. QED
        BY <1>1, <2>1
<1>3. ~(q < p)
    <2>1. q < p => p \in (q + 1)..k /\ p > 0
        BY <1>1
    <2>2. QED
        BY <1>1, <2>1
<1>4. QED
    BY <1>1, <1>2, <1>3

\* The session goes on with the container that was written.
Settled == saving.at_place \/ saving.left = <<>>

\* The save returns with the directory written: the session has what is left
\* over the container that was written, or goes on as before.
LEMMA SaveDirectoryStep ==
    ASSUME ContainerInv, SaveDirectory
    PROVE  /\ ContainerInv'
           /\ saving \in Writes /\ saving' = NoSave
           /\ result' <=> saving.left = <<>>
           /\ disk'[saving.zip.file] = ZipSaved(saving.zip, disk[saving.zip.file])
           /\ \A g \in Files \ {saving.zip.file} :
                  \/ disk'[g] = disk[g]
                  \/ /\ Settled /\ Exists(g)
                     /\ ~Ends(disk[g], Len(disk[g]))
           /\ Settled => /\ zip' = ZipAfterSave(saving.zip, disk[saving.zip.file])
                         /\ overlay' = saving.left
                         /\ cname' = saving.zip.file
                         /\ \A n \in Plain : View'[n] =
                               IF n \in DOMAIN saving.left THEN View[n]
                               ELSE ZipRead(disk[saving.zip.file], saving.zip, n)
           /\ ~Settled => /\ UNCHANGED <<zip, overlay, cname>>
                          /\ \A n \in Plain : View'[n] = View[n]
           /\ UNCHANGED <<tmps, index, opened>>
           /\ opened
<1> DEFINE z == saving.zip
           f == z.file
           b == disk[f]
           c == ZipSaved(z, b)
           y == ZipAfterSave(z, b)
<1>1. saving.step = "files"
    BY DEF SaveDirectory, AllTried
<1>2. /\ UNCHANGED <<tmps, index, based, opened>>
      /\ saving' = NoSave
      /\ result' = (saving.left = <<>>)
      /\ overlay' = IF Settled THEN saving.left ELSE overlay
      /\ zip' = IF Settled THEN y ELSE zip
      /\ cname' = IF ~saving.at_place /\ saving.left = <<>> THEN f ELSE cname
      /\ IF ~saving.at_place /\ saving.left = <<>> /\ zip # NoZip
           THEN \E d \in Dropped(zip, disk[zip.file]) : disk' = [disk EXCEPT ![f] = c, ![zip.file] = d]
           ELSE disk' = [disk EXCEPT ![f] = c]
    BY DEF SaveDirectory, Return, ReturnsComplete, KeepsLeft, Settled
<1>3. /\ saving \in Writes /\ saving \notin Copy
      /\ Fits(z, b)
      /\ saving.at_place <=> f = cname
      /\ z.changed \/ z.prev > 0
      /\ DOMAIN saving.left \subseteq Files_
      /\ saving.left = Restrict(overlay, DOMAIN saving.left)
      /\ f \in Files
      /\ Sound(b)
      /\ opened /\ cname = zip.file
    BY <1>1, WritesKnown
<1>4. /\ Sound(c)
      /\ Agree(b, c, Len(b))
      /\ Fits(y, c)
      /\ y.file = f
      /\ y.files = z.files
      /\ ~y.changed
      /\ y.prev > 0
    BY <1>3, SavedFits
<1>5. cname' = IF Settled THEN f ELSE cname
    BY <1>2, <1>3 DEF Settled
<1>6. /\ disk \in [Files -> Seq(Block) \cup {NoFile}]
      /\ \A g \in Files : disk[g] # NoFile => Sound(disk[g])
      /\ tmps \in Functions_(Tmps, Contents)
    BY DEF ContainerInv, StorageInv, Exists
<1>7. /\ StorageInv' /\ disk'[f] # NoFile
      /\ disk'[f] = c
      /\ \A g \in Files \ {f} : \/ disk'[g] = disk[g]
                                \/ Settled /\ Exists(g) /\ ~Ends(disk[g], Len(disk[g]))
      /\ ~Settled => \A g \in Files \ {f} : disk'[g] = disk[g]
    <2> HIDE DEF c, y
    <2>1. CASE ~saving.at_place /\ saving.left = <<>> /\ zip # NoZip
        <3>1. PICK d \in Dropped(zip, disk[zip.file]) : disk' = [disk EXCEPT ![f] = c, ![zip.file] = d]
            BY <1>2, <2>1
        <3>2. /\ zip.file \in Files /\ zip.file # f
              /\ Fits(zip, disk[zip.file])
              /\ Exists(zip.file)
              /\ Sound(disk[zip.file])
              /\ zip.changed => ~Ends(disk[zip.file], Len(disk[zip.file]))
            BY <1>3, <2>1 DEF ContainerInv, ZipInv, StorageInv
        <3>3. Sound(d) /\ (~zip.changed => d = disk[zip.file])
            BY <3>2, DroppedSound
        <3>4. /\ disk'[f] = c /\ disk'[zip.file] = d
              /\ \A g \in Files \ {f, zip.file} : disk'[g] = disk[g]
            BY <1>3, <1>6, <3>1, <3>2
        <3>5. c \in Seq(Block) /\ d \in Seq(Block)
            BY <1>4, <3>3 DEF Sound
        <3>6. disk' \in [Files -> Seq(Block) \cup {NoFile}]
            BY <1>6, <3>1, <3>5
        <3>7. \A g \in Files : disk'[g] # NoFile => Sound(disk'[g])
            BY <1>4, <1>6, <3>3, <3>4
        <3>8. c # NoFile
            BY <3>5, ContainerAssumption
        <3>9. Settled
            BY <2>1 DEF Settled
        <3>10. StorageInv'
            BY <1>2, <1>6, <3>6, <3>7 DEF StorageInv, Exists
        <3>11. QED
            BY <3>2, <3>3, <3>4, <3>8, <3>9, <3>10
    <2>2. CASE ~(~saving.at_place /\ saving.left = <<>> /\ zip # NoZip)
        <3>1. disk' = [disk EXCEPT ![f] = c]
            BY <1>2, <2>2
        <3>2. StorageInv /\ tmps' \in Functions_(Tmps, Contents)
            BY <1>2, <1>6 DEF ContainerInv
        <3>3. StorageInv' /\ disk'[f] # NoFile /\ disk'[f] = c /\ \A g \in Files \ {f} : disk'[g] = disk[g]
            BY <1>3, <1>4, <3>1, <3>2, DiskPut DEF Exists
        <3>4. QED
            BY <3>3
    <2>3. QED
        BY <2>1, <2>2
<1>8. IndexInv'
    BY <1>2, IndexKept DEF ContainerInv
<1>9. OverlayOK(overlay) /\ Files_ \subseteq DOMAIN overlay
    BY FilesAreLive DEF ContainerInv, SessionInv
<1> HIDE DEF c, y
<1>10. ASSUME Settled
       PROVE  /\ ZipInv' /\ OverlayOK(overlay')
              /\ \A n \in Plain : View'[n] = IF n \in DOMAIN saving.left THEN View[n] ELSE ZipRead(b, z, n)
    <2>1. zip' = y /\ overlay' = saving.left
        BY <1>2, <1>10
    <2>2. zip' # NoZip
        BY <1>3, <1>4, <2>1, ContainerAssumption DEF NoZip
    <2>3. ZipInv'
        BY <1>3, <1>4, <1>7, <2>1 DEF ZipInv, Exists
    <2>4. OverlayOK(saving.left)
        BY <1>3, <1>9, OverlayPart
    <2>5. ASSUME NEW n \in Plain
          PROVE  View'[n] = IF n \in DOMAIN saving.left THEN View[n] ELSE ZipRead(b, z, n)
        <3>1. CASE n \in DOMAIN saving.left
            <4>1. n \in DOMAIN overlay /\ Live(overlay[n]) /\ saving.left[n] = overlay[n]
                BY <1>1, <3>1, LeftIsLive
            <4>2. QED
                BY <1>2, <2>1, <3>1, <4>1, ViewSeen DEF Seen
        <3>2. CASE n \notin DOMAIN saving.left
            <4>1. View'[n] = ZipRead(c, y, n)
                BY <1>4, <1>7, <2>1, <2>2, <3>2, ViewSeen DEF Seen
            <4>2. ZipRead(c, y, n) = ZipRead(c, z, n)
                BY <1>4 DEF ZipRead, ZipIsFile
            <4>3. ZipRead(c, z, n) = ZipRead(b, z, n)
                BY <1>3, <1>4, ReadStays
            <4>4. QED
                BY <3>2, <4>1, <4>2, <4>3
        <3>3. QED
            BY <3>1, <3>2
    <2>6. QED
        BY <2>1, <2>3, <2>4, <2>5
<1>11. ASSUME ~Settled
       PROVE  /\ ZipInv' /\ OverlayOK(overlay')
              /\ \A n \in Plain : View'[n] = View[n]
    <2>1. UNCHANGED <<zip, overlay, tmps>>
        BY <1>2, <1>11
    <2>2. zip # NoZip => disk'[zip.file] = disk[zip.file]
        BY <1>3, <1>7, <1>11 DEF ContainerInv, ZipInv, Settled
    <2>3. ZipInv'
        BY <2>1, <2>2, ZipStays DEF ContainerInv
    <2>4. \A n \in Plain : View'[n] = View[n]
        BY <2>1, <2>2, ViewSeen DEF Seen
    <2>5. QED
        BY <1>9, <2>1, <2>3, <2>4
<1>12. SessionInv'
    <2>1. OverlayOK(overlay)'
        BY <1>10, <1>11 DEF OverlayOK, OverlayType
    <2>2. result' \in BOOLEAN
        BY <1>2
    <2>3. cname' = zip'.file
        BY <1>2, <1>3, <1>4, <1>5
    <2>4. QED
        BY <1>2, <1>3, <2>1, <2>2, <2>3 DEF ContainerInv, SessionInv
<1>13. ContainerInv'
    BY <1>2, <1>7, <1>8, <1>10, <1>11, <1>12, SavingNone DEF ContainerInv
<1>14. QED
    BY <1>2, <1>3, <1>5, <1>7, <1>10, <1>11, <1>13 DEF c, y

\* The save returns without a directory: what was copied can still be seen,
\* and the container does not open.
LEMMA SaveDirectoryFailsStep ==
    ASSUME ContainerInv, SaveDirectoryFails
    PROVE  /\ ContainerInv'
           /\ saving \in Writes /\ saving' = NoSave
           /\ result' = FALSE
           /\ \A g \in Files \ {saving.zip.file} : disk'[g] = disk[g]
           /\ \A n \in Plain : View'[n] = View[n]
           /\ UNCHANGED <<tmps, index, opened, overlay, cname>>
           /\ opened
<1> DEFINE z == saving.zip
           f == z.file
           b == disk[f]
           c == Append(b, Broken)
<1>1. saving.step = "files" /\ z.changed
    BY DEF SaveDirectoryFails, AllTried
<1>2. /\ UNCHANGED <<tmps, index, based, opened, cname, overlay>>
      /\ saving' = NoSave
      /\ result' = FALSE
      /\ zip' = IF saving.at_place THEN z ELSE zip
      /\ IF saving.at_place THEN disk' = [disk EXCEPT ![f] = c]
         ELSE \E d \in Dropped(z, c) : disk' = [disk EXCEPT ![f] = d]
    BY DEF SaveDirectoryFails, Return
<1>3. /\ saving \in Writes /\ saving \notin Copy
      /\ Fits(z, b)
      /\ saving.at_place <=> f = cname
      /\ DOMAIN saving.left \subseteq Files_
      /\ f \in Files
      /\ Sound(b)
      /\ \A m \in Plain : Tracked(m)
      /\ opened /\ cname = zip.file
    BY <1>1, WritesKnown
<1>4. b \in Seq(Block) /\ Broken \in Block /\ Broken.kind # "end"
    BY <1>3 DEF Sound, Broken, Block
<1>5. /\ Sound(c) /\ Fits(z, c)
      /\ Agree(b, c, Len(b))
      /\ Len(c) = Len(b) + 1 /\ c[Len(b) + 1] = Broken
      /\ Len(b) \in Nat
    BY <1>3, <1>4, SoundAppend, FitsStays, Appended DEF Fitting
<1>6. tmps' \in Functions_(Tmps, Contents)
    BY <1>2 DEF ContainerInv, StorageInv
<1>7. IndexInv'
    BY <1>2, IndexKept DEF ContainerInv
<1>8. OverlayOK(overlay) /\ Files_ \subseteq DOMAIN overlay
    BY FilesAreLive DEF ContainerInv, SessionInv
<1>9. SessionInv'
    <2>1. OverlayOK(overlay)'
        BY <1>2, <1>8 DEF OverlayOK, OverlayType
    <2>2. cname' = zip'.file
        BY <1>2, <1>3
    <2>3. QED
        BY <1>2, <1>3, <2>1, <2>2 DEF ContainerInv, SessionInv
<1> HIDE DEF c
<1>10. CASE saving.at_place
    <2>1. disk' = [disk EXCEPT ![f] = c] /\ zip' = z
        BY <1>2, <1>10
    <2>2. StorageInv' /\ disk'[f] # NoFile /\ disk'[f] = c /\ \A g \in Files \ {f} : disk'[g] = disk[g]
        <3>1. StorageInv
            BY DEF ContainerInv
        <3>2. QED
            BY <1>3, <1>5, <1>6, <2>1, <3>1, DiskPut DEF Exists
    <2>3. zip # NoZip /\ zip.file = f
        BY <1>3, <1>10, ContainerAssumption DEF NoZip
    <2>4. z.prev > 0
        <3>1. Latest(b, zip.prev, Len(b)) /\ zip.prev > 0
            BY <2>3 DEF ContainerInv, ZipInv, Fits
        <3>2. Latest(b, z.prev, Len(b))
            BY <1>3 DEF Fits
        <3>3. QED
            BY <1>5, <3>1, <3>2, LatestUnique
    <2>5. ~Ends(c, Len(c))
        BY <1>4, <1>5 DEF Ends
    <2>6. ZipInv'
        BY <1>3, <1>5, <2>1, <2>2, <2>4, <2>5 DEF ZipInv, Exists
    <2>7. zip' # NoZip
        BY <1>3, <2>1, ContainerAssumption DEF NoZip
    <2>8. ASSUME NEW n \in Plain PROVE View'[n] = View[n]
        <3>1. CASE n \in DOMAIN overlay
            BY <1>2, <3>1, ViewSeen DEF Seen
        <3>2. CASE n \notin DOMAIN overlay
            <4>1. n \notin DOMAIN saving.left /\ Tracked(n)
                BY <1>3, <1>8, <3>2
            <4>2. ZipRead(b, z, n) = saving.view[n] /\ View[n] \in {saving.view[n], Lost}
                BY <1>10, <4>1 DEF Tracked
            <4>3. View'[n] = ZipRead(c, z, n)
                BY <1>2, <2>1, <2>2, <2>7, <3>2, ViewSeen DEF Seen
            <4>4. ZipRead(c, z, n) = ZipRead(b, z, n)
                BY <1>3, <1>5, ReadStays
            <4>5. View[n] # Lost
                <5>1. View[n] = ZipRead(b, zip, n)
                    BY <2>3, <3>2, ViewSeen DEF Seen
                <5>2. ZipRead(b, zip, n) \in Contents \cup {Absent}
                    BY <1>3, <2>3, ReadTyped DEF ContainerInv, ZipInv
                <5>3. QED
                    BY <5>1, <5>2, ContainerAssumption
            <4>6. QED
                BY <4>2, <4>3, <4>4, <4>5
        <3>3. QED
            BY <3>1, <3>2
    <2>9. QED
        BY <1>2, <1>3, <1>7, <1>9, <2>2, <2>6, <2>8, SavingNone DEF ContainerInv
<1>11. CASE ~saving.at_place
    <2>1. PICK d \in Dropped(z, c) : disk' = [disk EXCEPT ![f] = d]
        BY <1>2, <1>11
    <2>2. Sound(d)
        BY <1>5, DroppedSound
    <2>3. StorageInv' /\ \A g \in Files \ {f} : disk'[g] = disk[g]
        BY <1>3, <1>6, <2>1, <2>2, DiskPut DEF ContainerInv
    <2>4. zip' = zip /\ (zip # NoZip => disk'[zip.file] = disk[zip.file])
        BY <1>2, <1>3, <1>11, <2>3 DEF ContainerInv, ZipInv
    <2>5. ZipInv'
        BY <2>4, ZipStays DEF ContainerInv
    <2>6. \A n \in Plain : View'[n] = View[n]
        BY <1>2, <2>4, ViewSeen DEF Seen
    <2>7. QED
        BY <1>2, <1>3, <1>7, <1>9, <2>3, <2>5, <2>6, SavingNone DEF ContainerInv
<1>12. QED
    BY <1>10, <1>11

-----------------------------------------------------------------------------
(***************************************************************************)
(* Sessions end, and begin again.                                          *)
(***************************************************************************)

\* No session.
LEMMA ForgetStep ==
    ASSUME ContainerInv, Forget, result' \in BOOLEAN
    PROVE  /\ ZipInv' /\ SessionInv' /\ SavingInv' /\ ViewInv'
<1>1. /\ based' = FALSE /\ opened' = FALSE /\ cname' = NoFile /\ zip' = NoZip
      /\ overlay' = <<>> /\ saving' = NoSave
    BY DEF Forget
<1>2. ZipInv'
    BY <1>1 DEF ZipInv
<1>3. OverlayOK(overlay)'
    BY <1>1, OverlayNone DEF OverlayOK, OverlayType
<1>4. NoZip.file = NoFile
    BY DEF NoZip
<1>5. SessionInv'
    BY <1>1, <1>3, <1>4 DEF SessionInv
<1>6. QED
    BY <1>1, <1>2, <1>5, SavingNone

\* A document that is closed harms no container that opens.
LEMMA CloseStep ==
    ASSUME ContainerInv, Close
    PROVE  /\ ContainerInv'
           /\ ~opened' /\ saving' = NoSave
           /\ \A g \in Files : disk'[g] = disk[g] \/ (Exists(g) /\ ~Ends(disk[g], Len(disk[g])))
           /\ index' \in {index, NoIndex}
           /\ result' = result
           /\ opened /\ saving = NoSave
<1>1. /\ tmps' = Restrict(tmps, DOMAIN tmps \ Named(overlay))
      /\ index' = IF based THEN NoIndex ELSE index
      /\ IF zip = NoZip
           THEN UNCHANGED disk
           ELSE \E d \in Dropped(zip, disk[zip.file]) : disk' = [disk EXCEPT ![zip.file] = d]
      /\ Forget
      /\ result' = result
      /\ opened /\ saving = NoSave
    BY DEF Close, Idle
<1>2. StorageInv /\ result' \in BOOLEAN
    BY <1>1 DEF ContainerInv, SessionInv
<1>3. tmps' \in Functions_(Tmps, Contents)
    BY <1>1, TmpsPart DEF ContainerInv, StorageInv
<1>4. \A t \in DOMAIN tmps' : t \in DOMAIN tmps /\ tmps'[t] = tmps[t]
    BY <1>1 DEF Restrict
<1>5. IndexInv'
    <2>1. CASE based
        BY <1>1, <2>1 DEF IndexInv
    <2>2. CASE ~based
        BY <1>1, <1>4, <2>2, IndexStays DEF ContainerInv
    <2>3. QED
        BY <2>1, <2>2
<1>6. /\ StorageInv'
      /\ \A g \in Files : disk'[g] = disk[g] \/ (Exists(g) /\ ~Ends(disk[g], Len(disk[g])))
    <2>1. CASE zip = NoZip
        BY <1>1, <1>2, <1>3, <2>1, DiskKept
    <2>2. CASE zip # NoZip
        <3>1. PICK d \in Dropped(zip, disk[zip.file]) : disk' = [disk EXCEPT ![zip.file] = d]
            BY <1>1, <2>2
        <3>2. /\ zip.file \in Files
              /\ Fits(zip, disk[zip.file])
              /\ Exists(zip.file)
              /\ Sound(disk[zip.file])
              /\ zip.changed => ~Ends(disk[zip.file], Len(disk[zip.file]))
            BY <2>2 DEF ContainerInv, ZipInv, StorageInv
        <3>3. Sound(d) /\ (~zip.changed => d = disk[zip.file])
            BY <3>2, DroppedSound
        <3>4. StorageInv' /\ disk'[zip.file] = d /\ \A g \in Files \ {zip.file} : disk'[g] = disk[g]
            BY <1>2, <1>3, <3>1, <3>2, <3>3, DiskPut
        <3>5. QED
            BY <3>2, <3>3, <3>4
    <2>3. QED
        BY <2>1, <2>2
<1>7. ~opened' /\ saving' = NoSave /\ index' \in {index, NoIndex}
    BY <1>1 DEF Forget
<1>8. QED
    BY <1>1, <1>2, <1>5, <1>6, <1>7, ForgetStep DEF ContainerInv

\* A process that dies harms no container but the one it writes.
LEMMA CrashStep ==
    ASSUME ContainerInv, Crash
    PROVE  /\ ContainerInv'
           /\ ~opened' /\ saving' = NoSave
           /\ \A g \in Files : \/ disk'[g] = disk[g]
                               \/ saving \in Copy /\ g = saving.file
                               \/ saving \in Writes /\ g = saving.zip.file
           /\ UNCHANGED <<index, result>>
           /\ tmps' = Restrict(tmps, DOMAIN tmps \cap Indexed)
           /\ opened
<1>1. /\ \/ UNCHANGED disk
         \/ saving.step = "container" /\ \E b \in Parts : disk' = [disk EXCEPT ![saving.file] = b]
         \/ saving.step = "files" /\ disk' = [disk EXCEPT ![saving.zip.file] = Append(@, Broken)]
      /\ Forget
      /\ tmps' = Restrict(tmps, DOMAIN tmps \cap Indexed)
      /\ UNCHANGED <<index, result>>
      /\ opened
    BY DEF Crash
<1>2. StorageInv /\ result' \in BOOLEAN
    BY <1>1 DEF ContainerInv, SessionInv
<1>3. tmps' \in Functions_(Tmps, Contents)
    BY <1>1, TmpsPart DEF ContainerInv, StorageInv
<1>4. \A t \in DOMAIN tmps' : t \in DOMAIN tmps /\ tmps'[t] = tmps[t]
    BY <1>1 DEF Restrict
<1>5. IndexInv'
    BY <1>1, <1>4, IndexStays DEF ContainerInv
<1>6. /\ StorageInv'
      /\ \A g \in Files : \/ disk'[g] = disk[g]
                          \/ saving \in Copy /\ g = saving.file
                          \/ saving \in Writes /\ g = saving.zip.file
    <2>1. CASE UNCHANGED disk
        BY <1>2, <1>3, <2>1, DiskKept
    <2>2. CASE saving.step = "container" /\ \E b \in Parts : disk' = [disk EXCEPT ![saving.file] = b]
        <3>1. PICK b \in Parts : disk' = [disk EXCEPT ![saving.file] = b]
            BY <2>2
        <3>2. saving \in Copy /\ saving.file \in Files /\ zip # NoZip
            BY <2>2, CopyKnown
        <3>3. Sound(b)
            BY <3>2, PartsSound DEF ContainerInv
        <3>4. StorageInv' /\ \A g \in Files \ {saving.file} : disk'[g] = disk[g]
            BY <1>2, <1>3, <3>1, <3>2, <3>3, DiskPut
        <3>5. QED
            BY <3>2, <3>4
    <2>3. CASE saving.step = "files" /\ disk' = [disk EXCEPT ![saving.zip.file] = Append(@, Broken)]
        <3>1. saving \in Writes /\ saving.zip.file \in Files /\ Sound(disk[saving.zip.file])
            BY <2>3, WritesKnown
        <3>2. Sound(Append(disk[saving.zip.file], Broken))
            <4>1. Fitting(Broken, disk[saving.zip.file])
                BY DEF Fitting, Broken, Block
            <4>2. QED
                BY <3>1, <4>1, SoundAppend
        <3>3. StorageInv' /\ \A g \in Files \ {saving.zip.file} : disk'[g] = disk[g]
            <4>1. disk' = [disk EXCEPT ![saving.zip.file] = Append(disk[saving.zip.file], Broken)]
                BY <2>3
            <4>2. QED
                BY <1>2, <1>3, <3>1, <3>2, <4>1, DiskPut
        <3>4. QED
            BY <3>1, <3>3
    <2>4. QED
        BY <1>1, <2>1, <2>2, <2>3
<1>7. ~opened' /\ saving' = NoSave
    BY <1>1 DEF Forget
<1>8. QED
    BY <1>1, <1>2, <1>5, <1>6, <1>7, ForgetStep DEF ContainerInv

\* What is known of an index.
LEMMA IndexKnown ==
    ASSUME IndexInv, index.kind = "index"
    PROVE  /\ index.cname \in Files \cup {NoFile}
           /\ OverlayOK(index.files)
           /\ index.view \in Views
           /\ \A n \in Plain :
                IF n \notin DOMAIN index.files THEN index.cname = NoFile => index.view[n] = Absent
                ELSE IF ~Live(index.files[n]) THEN index.view[n] = Absent
                ELSE index.files[n].tmp \in DOMAIN tmps => tmps[index.files[n].tmp] = index.view[n]
BY DEF IndexInv, NoIndex, BrokenIndex

\* What is recovered was seen when it was written down, is lost, or is in the container.
LEMMA OpenTemporaryStep ==
    ASSUME ContainerInv, OpenTemporary
    PROVE  /\ ContainerInv'
           /\ UNCHANGED <<disk, tmps, index>>
           /\ opened' /\ ~opened /\ saving' = NoSave
           /\ index.kind = "index"
           /\ overlay' = index.files
           /\ \A n \in Plain :
                \/ View'[n] \in {index.view[n], Lost}
                \/ /\ n \notin DOMAIN index.files
                   /\ index.cname \in Files /\ Exists(index.cname)
                   /\ Opens(disk[index.cname], Len(disk[index.cname]))
                   /\ View'[n] = ZipRead(disk[index.cname],
                                         ZipOpened(index.cname, disk[index.cname], Len(disk[index.cname])), n)
<1> DEFINE f == index.cname
           z == ZipOpened(f, disk[f], Len(disk[f]))
<1>1. /\ UNCHANGED <<disk, tmps, index, saving>>
      /\ index.kind = "index"
      /\ f # NoFile => Exists(f) /\ Opens(disk[f], Len(disk[f]))
      /\ opened' = TRUE /\ ~opened
      /\ cname' = f
      /\ zip' = IF f = NoFile THEN NoZip ELSE z
      /\ overlay' = index.files
      /\ based' = TRUE /\ result' = TRUE
    BY DEF OpenTemporary, IndexOpens, storage
<1>2. /\ f \in Files \cup {NoFile}
      /\ OverlayOK(index.files)
      /\ \A n \in Plain :
           IF n \notin DOMAIN index.files THEN f = NoFile => index.view[n] = Absent
           ELSE IF ~Live(index.files[n]) THEN index.view[n] = Absent
           ELSE index.files[n].tmp \in DOMAIN tmps => tmps[index.files[n].tmp] = index.view[n]
    BY <1>1, IndexKnown DEF ContainerInv
<1>3. saving = NoSave
    BY <1>1 DEF ContainerInv, SessionInv
<1>4. StorageInv' /\ IndexInv'
    BY <1>1, DiskKept, IndexKept DEF ContainerInv, StorageInv
<1>5. f # NoFile => /\ f \in Files /\ Exists(f) /\ Sound(disk[f])
                    /\ Ends(disk[f], Len(disk[f]))
    BY <1>1, <1>2 DEF Opens, ContainerInv, StorageInv
<1>6. z.file = f /\ ~z.changed
    BY DEF ZipOpened
<1>7. f # NoFile => Fits(z, disk[f]) /\ z.prev > 0 /\ zip' # NoZip
    <2>1. f # NoFile => Fits(z, disk[f]) /\ z.prev > 0
        BY <1>5, OpenedFits
    <2> HIDE DEF z
    <2>2. QED
        BY <1>1, <1>6, <2>1 DEF NoZip
<1> HIDE DEF z
<1>8. ZipInv'
    BY <1>1, <1>5, <1>6, <1>7 DEF ZipInv, Exists
<1>9. SessionInv'
    <2>1. OverlayOK(overlay)'
        BY <1>1, <1>2 DEF OverlayOK, OverlayType
    <2>2. NoZip.file = NoFile
        BY DEF NoZip
    <2>3. QED
        BY <1>1, <1>6, <2>1, <2>2 DEF SessionInv
<1>10. ASSUME NEW n \in Plain
       PROVE  \/ View'[n] \in {index.view[n], Lost}
              \/ /\ n \notin DOMAIN index.files
                 /\ f # NoFile
                 /\ View'[n] = ZipRead(disk[f], z, n)
    <2>1. View'[n] = Seen(n)'
        BY ViewSeen
    <2>2. CASE n \notin DOMAIN index.files
        <3>1. CASE f = NoFile
            BY <1>1, <1>2, <2>1, <2>2, <3>1 DEF Seen
        <3>2. CASE f # NoFile
            BY <1>1, <1>6, <1>7, <2>1, <2>2, <3>2 DEF Seen
        <3>3. QED
            BY <3>1, <3>2
    <2>3. CASE n \in DOMAIN index.files
        BY <1>1, <1>2, <2>1, <2>3 DEF Seen
    <2>4. QED
        BY <2>2, <2>3
<1>11. QED
    BY <1>1, <1>3, <1>4, <1>5, <1>8, <1>9, <1>10, SavingNone DEF ContainerInv, Opens, z

\* A backup that cannot be used is thrown away while no document is open.
LEMMA DiscardStep ==
    ASSUME ContainerInv, ~opened, tmps' = Restrict(tmps, DOMAIN tmps \ Indexed), index' = NoIndex,
           UNCHANGED <<disk, session, saving, result>>
    PROVE  ContainerInv'
<1>1. UNCHANGED <<based, opened, cname, zip, overlay>>
    BY DEF session
<1>2. saving = NoSave /\ zip = NoZip
    BY DEF ContainerInv, SessionInv
<1>3. tmps' \in Functions_(Tmps, Contents)
    BY TmpsPart DEF ContainerInv, StorageInv
<1>4. StorageInv' /\ IndexInv'
    BY <1>3, DiskKept DEF ContainerInv, IndexInv
<1>5. ZipInv' /\ SavingInv' /\ ViewInv'
    BY <1>1, <1>2, SavingNone DEF ZipInv
<1>6. SessionInv'
    <2>1. OverlayOK(overlay)'
        BY <1>1 DEF OverlayOK, OverlayType, ContainerInv, SessionInv
    <2>2. QED
        BY <1>1, <2>1 DEF ContainerInv, SessionInv
<1>7. QED
    BY <1>4, <1>5, <1>6 DEF ContainerInv

\* Nothing is stored at first.
LEMMA ContainerInit == Init => ContainerInv
<1> SUFFICES ASSUME Init PROVE ContainerInv
    OBVIOUS
<1>1. /\ disk = [f \in Files |-> NoFile] /\ tmps = <<>> /\ index = NoIndex
      /\ based = FALSE /\ opened = FALSE /\ cname = NoFile /\ zip = NoZip
      /\ overlay = <<>> /\ saving = NoSave /\ result = TRUE
    BY DEF Init
<1>2. tmps \in Functions_(Tmps, Contents)
    <2>1. <<>> \in [{} -> Contents]
        OBVIOUS
    <2>2. QED
        BY <1>1, <2>1 DEF Functions_
<1>3. StorageInv
    BY <1>1, <1>2 DEF StorageInv, Exists
<1>4. IndexInv
    BY <1>1 DEF IndexInv
<1>5. ZipInv
    BY <1>1 DEF ZipInv
<1>6. SessionInv
    BY <1>1, OverlayNone DEF SessionInv, NoZip
<1>7. SavingInv /\ ViewInv
    BY <1>1 DEF SavingInv, ViewInv, NoSave, Copy, Writes
<1>8. QED
    BY <1>3, <1>4, <1>5, <1>6, <1>7 DEF ContainerInv

\* What a container keeps is not about the number of calls.
LEMMA ContainerUntouched ==
    ASSUME ContainerInv,
           UNCHANGED <<disk, tmps, index, based, opened, cname, zip, overlay, saving, result>>
    PROVE  ContainerInv'
<1>1. StorageInv' /\ IndexInv'
    BY DiskKept, IndexKept DEF ContainerInv, StorageInv
<1>2. ZipInv'
    BY ZipStays DEF ContainerInv
<1>3. SessionInv'
    <2>1. OverlayOK(overlay)'
        BY DEF OverlayOK, OverlayType, ContainerInv, SessionInv
    <2>2. QED
        BY <2>1 DEF ContainerInv, SessionInv
<1>4. SavingInv'
    <2>1. Files_' = Files_
        BY DEF Files_
    <2>2. QED
        BY <2>1 DEF SavingInv, ContainerInv, Exists
<1>5. ViewInv'
    <2>1. View' = View
        BY DEF View
    <2>2. \A n : Dated(n)' <=> Dated(n)
        BY DEF Dated
    <2>3. QED
        BY <2>1, <2>2 DEF ViewInv, Tracked, ContainerInv
<1>6. QED
    BY <1>1, <1>2, <1>3, <1>4, <1>5 DEF ContainerInv

\* The calls of a container keep the invariant, in any order.
LEMMA ContainerStep == ContainerInv /\ [Next]_vars => ContainerInv'
<1> SUFFICES ASSUME ContainerInv, [Next]_vars PROVE ContainerInv'
    OBVIOUS
<1>1. CASE Create
    BY <1>1, CreateStep
<1>2. ASSUME NEW f \in Files, Open(f) PROVE ContainerInv'
    <2>1. OpenFromHistory(f, Len(disk[f])) /\ Ends(disk[f], Len(disk[f]))
        BY <1>2 DEF Open, OpenFromHistory, Opens
    <2>2. QED
        BY <2>1, OpenStep
<1>3. ASSUME NEW f \in Files, OpenEarlier(f) PROVE ContainerInv'
    BY <1>3, EarlierOpens, OpenStep
<1>4. CASE Edit
    BY <1>4, DirectoryCreateStep, FileWriteStep, FileRemoveStep DEF Edit
<1>5. CASE SaveTemporary
    BY <1>5, WriteIndexStep DEF SaveTemporary
<1>6. CASE SaveTemporaryFails
    BY <1>6, WriteIndexStep DEF SaveTemporaryFails
<1>7. CASE Save
    <2>1. CASE SaveAtPlace
        BY <2>1, SaveAtPlaceStep
    <2>2. ASSUME NEW f \in Files, SaveCopy(f) \/ SaveNew(f) PROVE ContainerInv'
        BY <2>2, SaveCopyStep, SaveNewStep
    <2>3. CASE CopyContainer
        BY <2>3, CopyContainerStep
    <2>4. CASE CopyContainerFails
        BY <2>4, CopyContainerFailsStep
    <2>5. ASSUME NEW n \in Plain, SaveFile(n) \/ SaveFileBreaksOff(n) \/ SaveFileFails(n) PROVE ContainerInv'
        BY <2>5, SaveFileStep, SaveFileBreaksOffStep, SaveFileFailsStep
    <2>6. CASE SaveDirectory
        BY <2>6, SaveDirectoryStep
    <2>7. CASE SaveDirectoryFails
        BY <2>7, SaveDirectoryFailsStep
    <2>8. QED
        BY <1>7, <2>1, <2>2, <2>3, <2>4, <2>5, <2>6, <2>7 DEF Save
<1>8. CASE Close
    BY <1>8, CloseStep
<1>9. CASE Crash
    BY <1>9, CrashStep
<1>10. CASE OpenTemporary
    BY <1>10, OpenTemporaryStep
<1>11. CASE UNCHANGED vars
    BY <1>11, ContainerUntouched DEF vars
<1>12. QED
    BY <1>1, <1>2, <1>3, <1>4, <1>5, <1>6, <1>7, <1>8, <1>9, <1>10, <1>11 DEF Next

-----------------------------------------------------------------------------
(***************************************************************************)
(* The handlers of the main loop.                                          *)
(***************************************************************************)

\* Nothing is to be known of a handler when none is running.
LEMMA HandlerIdle ==
    ASSUME handler' = None, saving' = NoSave, canvas' \in Contents, strokes' \in [Pictures -> Seq(Contents)],
           unsaved' \in BOOLEAN, started' \in BOOLEAN, started' => ~opened'
    PROVE  HandlerInv'
BY DEF HandlerInv, Preparing, Storing, None, NoSave, Copy, Writes

\* A document that shows changes, or is being written, claims nothing.
LEMMA CleanVacuous ==
    ASSUME ~opened' \/ (handler' # None /\ ~Preparing') \/ ~result' \/ unsaved' \/ cname' = NoFile
    PROVE  CleanInv'
BY DEF CleanInv

\* The kinds of handlers differ.
LEMMA HandlerKinds ==
    ASSUME DocumentInv
    PROVE  /\ handler.name = "none" => handler = None
           /\ started \/ ~opened => handler = None /\ saving = NoSave
           /\ handler.name = "save_as" => handler \in SaveHandlers /\ opened
           /\ handler.name = "auto_backup" => opened /\ unsaved /\ saving = NoSave
           /\ saving # NoSave => Storing /\ \A n \in Claimed : saving.view[n] = Meant(n)
           /\ canvas \in Contents /\ strokes \in [Pictures -> Seq(Contents)]
           /\ unsaved \in BOOLEAN /\ started \in BOOLEAN
           /\ opened => ~started
BY DEF DocumentInv, ContainerInv, SessionInv, HandlerInv, SaveHandlers, Storing, None

\* A document that was just opened has no strokes.
LEMMA LoadedUnpainted ==
    ASSUME Loaded
    PROVE  /\ strokes' \in [Pictures -> Seq(Contents)]
           /\ Registered' = {}
           /\ Held' = {project}
<1>1. strokes' = [n \in Pictures |-> <<>>]
    BY DEF Loaded, Unpainted
<1>2. \A n \in Pictures : strokes'[n] = <<>>
    BY <1>1
<1>3. QED
    BY <1>1, <1>2 DEF Registered, Held

\* Painted pictures, like the canvas, are contents of files.
LEMMA MeantTyped ==
    ASSUME DocumentInv, NEW n \in Held
    PROVE  Meant(n) \in Contents /\ n \in Plain
<1>1. canvas \in Contents /\ strokes \in [Pictures -> Seq(Contents)]
    BY HandlerKinds
<1>2. CASE n = project
    BY <1>1, <1>2, ProjectAssumption DEF Meant
<1>3. CASE n # project
    <2>1. n \in Registered /\ n \in Pictures /\ n \in Plain
        BY <1>3 DEF Held, Registered, Pictures
    <2>2. strokes[n] \in Seq(Contents) /\ strokes[n] # <<>>
        BY <1>1, <2>1 DEF Registered
    <2>3. Len(strokes[n]) \in 1..Len(strokes[n])
        BY <2>2
    <2>4. Painted(n) \in Contents
        BY <2>2, <2>3 DEF Painted
    <2>5. QED
        BY <1>3, <2>1, <2>4 DEF Meant
<1>4. QED
    BY <1>2, <1>3

\* A handler changes nothing in memory.
LEMMA MemoryStays ==
    ASSUME UNCHANGED <<canvas, strokes>>
    PROVE  /\ Registered' = Registered
           /\ Held' = Held
           /\ \A n : Meant(n)' = Meant(n)
BY DEF Registered, Held, Meant, Painted

\* What was written stays so until the file is written again.
LEMMA WrittenStays ==
    ASSUME UNCHANGED <<canvas, strokes, overlay>>, NEW n \in Plain, View'[n] = View[n], Written(n)
    PROVE  Written(n)'
BY MemoryStays DEF Written, Live

\* A file that is written as it is in memory, and the others.
LEMMA WriteKeeps ==
    ASSUME ContainerInv, NEW n \in Plain, NEW c \in Contents, FileWrite(n, c), UNCHANGED <<canvas, strokes>>
    PROVE  /\ \A m \in Plain \ {n} : Written(m) => Written(m)'
           /\ c = Meant(n) => Written(n)'
           /\ DOMAIN overlay' = DOMAIN overlay \cup {n}
<1>1. /\ View'[n] = c
      /\ \A m \in Plain \ {n} : View'[m] = View[m]
      /\ Live(overlay'[n])
    BY FileWriteStep
<1>2. /\ DOMAIN overlay' = DOMAIN overlay \cup {n}
      /\ \A m \in DOMAIN overlay \ {n} : overlay'[m] = overlay[m]
    BY DEF FileWrite, With
<1>3. ASSUME NEW m \in Plain \ {n}, Written(m) PROVE Written(m)'
    <2>1. m \in DOMAIN overlay' /\ overlay'[m] = overlay[m]
        BY <1>2, <1>3 DEF Written
    <2>2. QED
        BY <1>1, <1>3, <2>1, MemoryStays DEF Written, Live
<1>4. ASSUME c = Meant(n) PROVE Written(n)'
    <2>1. View'[n] = Meant(n)' /\ n \in DOMAIN overlay' /\ Live(overlay'[n])
        BY <1>1, <1>2, <1>4, MemoryStays
    <2>2. QED
        BY <2>1 DEF Written, Live
<1>5. QED
    BY <1>2, <1>3, <1>4

\* Writing what is held in memory does not touch what is stored.
LEMMA CleanStays ==
    ASSUME CleanInv, handler = None \/ Preparing,
           UNCHANGED <<canvas, strokes, unwritten, unsaved>>,
           UNCHANGED <<disk, opened, cname, zip, result>>,
           DOMAIN overlay' \subseteq DOMAIN overlay \cup Held
    PROVE  CleanInv'
<1>1. Held' = Held /\ \A n : Meant(n)' = Meant(n)
    BY MemoryStays
<1>2. QED
    BY <1>1 DEF CleanInv

\* Between handlers: a document is opened, changed or closed.
LEMMA MainLoopStep ==
    ASSUME DocumentInv,
           NewDocument \/ OpenDocument \/ EditCanvas \/ EditPicture
           \/ (\E n \in Pictures : Paint(n) \/ UndoPaint(n))
           \/ AutoBackup \/ CloseDocument \/ Quit
    PROVE  DocumentInv'
<1>1. MainLoop
    BY DEF NewDocument, OpenDocument, EditCanvas, EditPicture, Paint, UndoPaint, AutoBackup, CloseDocument, Quit
<1>2. /\ ContainerInv /\ HandlerInv /\ CleanInv
      /\ handler = None /\ saving = NoSave
      /\ canvas \in Contents /\ strokes \in [Pictures -> Seq(Contents)]
      /\ unsaved \in BOOLEAN /\ started \in BOOLEAN
      /\ started => ~opened
    BY <1>1, HandlerKinds DEF MainLoop, DocumentInv
<1>3. \A c \in Data : c \in Contents
    BY DEF Contents
<1>4. Torn \in Contents
    BY DEF Contents
<1>5. CASE NewDocument
    <2>1. /\ Create /\ canvas' \in Data /\ Loaded /\ unsaved' = FALSE /\ started' = FALSE
          /\ handler' = handler
        BY <1>5 DEF NewDocument
    <2>2. ContainerInv' /\ UNCHANGED zip /\ zip = NoZip /\ saving' = NoSave
        BY <1>2, <2>1, CreateStep
    <2>3. cname' = NoFile
        BY <2>2 DEF ContainerInv, SessionInv, NoZip
    <2>4. HandlerInv'
        BY <1>2, <1>3, <2>1, <2>2, HandlerIdle, LoadedUnpainted
    <2>5. CleanInv'
        BY <2>3, CleanVacuous
    <2>6. QED
        BY <2>2, <2>4, <2>5 DEF DocumentInv
<1>6. CASE OpenDocument
    <2>1. /\ \E f \in Files : Open(f) \/ OpenEarlier(f)
          /\ View'[project] \in Data
          /\ canvas' = View'[project] /\ Loaded /\ unsaved' = FALSE /\ started' = FALSE
          /\ handler' = handler
        BY <1>6 DEF OpenDocument
    <2>2. PICK f \in Files : Open(f) \/ OpenEarlier(f)
        BY <2>1
    <2>3. PICK k : OpenFromHistory(f, k) /\ Ends(disk[f], Len(disk[f]))
        <3>1. CASE Open(f)
            BY <3>1 DEF Open, OpenFromHistory, Opens
        <3>2. CASE OpenEarlier(f)
            BY <1>2, <3>2, EarlierOpens
        <3>3. QED
            BY <2>2, <3>1, <3>2
    <2>4. /\ ContainerInv' /\ Ends(disk[f], k)
          /\ zip' = ZipOpened(f, disk[f], k)
          /\ \A n \in Plain : View'[n] = ZipRead(disk[f], ZipOpened(f, disk[f], k), n)
          /\ UNCHANGED disk
          /\ saving' = NoSave /\ overlay' = <<>> /\ cname' = f
        BY <1>2, <2>3, OpenStep
    <2>5. HandlerInv'
        BY <1>2, <1>3, <2>1, <2>4, HandlerIdle, LoadedUnpainted
    <2>6. zip'.files = disk[f][k].files /\ k \in 1..Len(disk[f])
        BY <2>4 DEF ZipOpened, Ends
    <2>7. canvas' = ZipRead(disk[f], zip', project)
        BY <2>1, <2>4, ProjectAssumption
    <2>8. CleanInv'
        <3>1. /\ Ends(disk'[f], Len(disk'[f]))
              /\ \E l \in 1..Len(disk'[f]) : Ends(disk'[f], l) /\ disk'[f][l].files = zip'.files
            BY <2>3, <2>4, <2>6
        <3>2. \A n \in Held' : ZipRead(disk'[f], zip', n) = Meant(n)'
            BY <2>1, <2>4, <2>7, LoadedUnpainted DEF Meant
        <3>3. QED
            BY <2>4, <3>1, <3>2 DEF CleanInv
    <2>9. QED
        BY <2>4, <2>5, <2>8 DEF DocumentInv
<1>7. CASE EditCanvas
    <2>1. /\ opened /\ canvas' \in Data /\ unsaved' = TRUE
          /\ UNCHANGED <<vars, strokes, handler, started>>
        BY <1>7 DEF EditCanvas
    <2>2. opened' = opened /\ saving' = saving
        BY <2>1 DEF vars
    <2>3. ContainerInv'
        BY <1>2, <2>1, ContainerStep
    <2>4. HandlerInv'
        BY <1>2, <1>3, <2>1, <2>2, HandlerIdle
    <2>5. CleanInv'
        BY <2>1, CleanVacuous
    <2>6. QED
        BY <2>3, <2>4, <2>5 DEF DocumentInv
<1>8. CASE EditPicture
    <2>1. /\ \/ \E n \in Pictures, c \in Contents : FileWrite(n, c)
             \/ \E n \in Pictures : FileRemove(n)
             \/ \E d \in Dirs : DirectoryCreate(d)
          /\ unsaved' = TRUE
          /\ UNCHANGED <<canvas, strokes, handler, started>>
        BY <1>8 DEF EditPicture, memory
    <2>2. ContainerInv' /\ saving' = NoSave /\ opened' = opened
        <3>1. ASSUME NEW n \in Pictures, NEW c \in Contents, FileWrite(n, c)
              PROVE  ContainerInv' /\ saving' = NoSave /\ opened' = opened
            <4>1. n \in Plain
                BY DEF Pictures
            <4>2. QED
                BY <1>2, <3>1, <4>1, FileWriteStep
        <3>2. ASSUME NEW n \in Pictures, FileRemove(n)
              PROVE  ContainerInv' /\ saving' = NoSave /\ opened' = opened
            <4>1. n \in Plain
                BY DEF Pictures
            <4>2. QED
                BY <1>2, <3>2, <4>1, FileRemoveStep
        <3>3. ASSUME NEW d \in Dirs, DirectoryCreate(d)
              PROVE  ContainerInv' /\ saving' = NoSave /\ opened' = opened
            BY <1>2, <3>3, DirectoryCreateStep
        <3>4. QED
            BY <2>1, <3>1, <3>2, <3>3
    <2>3. HandlerInv'
        BY <1>2, <2>1, <2>2, HandlerIdle
    <2>4. CleanInv'
        BY <2>1, CleanVacuous
    <2>5. QED
        BY <2>2, <2>3, <2>4 DEF DocumentInv
<1>9. ASSUME NEW n \in Pictures, Paint(n) \/ UndoPaint(n) PROVE DocumentInv'
    <2>1. /\ unsaved' = TRUE
          /\ UNCHANGED <<disk, tmps, index, based, opened, cname, zip, overlay, saving, result>>
          /\ UNCHANGED <<canvas, handler, started>>
        BY <1>9 DEF Paint, UndoPaint, storage, session, vars
    <2>2. strokes' \in [Pictures -> Seq(Contents)]
        <3>1. strokes[n] \in Seq(Contents)
            BY <1>2
        <3>2. CASE Paint(n)
            <4>1. PICK c \in Contents : strokes' = [strokes EXCEPT ![n] = Append(@, c)]
                BY <1>3, <3>2 DEF Paint
            <4>2. Append(strokes[n], c) \in Seq(Contents)
                BY <3>1
            <4>3. QED
                BY <1>2, <4>1, <4>2
        <3>3. CASE UndoPaint(n)
            <4>1. /\ strokes' = [strokes EXCEPT ![n] = SubSeq(@, 1, Len(@) - 1)]
                  /\ strokes[n] # <<>>
                BY <3>3 DEF UndoPaint, Registered
            <4>2. SubSeq(strokes[n], 1, Len(strokes[n]) - 1) \in Seq(Contents)
                BY <3>1, <4>1
            <4>3. QED
                BY <1>2, <4>1, <4>2
        <3>4. QED
            BY <1>9, <3>2, <3>3
    <2>3. ContainerInv'
        BY <1>2, <2>1, ContainerUntouched
    <2>4. HandlerInv'
        BY <1>2, <2>1, <2>2, HandlerIdle
    <2>5. CleanInv'
        BY <2>1, CleanVacuous
    <2>6. QED
        BY <2>3, <2>4, <2>5 DEF DocumentInv
<1>10. CASE AutoBackup
    <2>1. /\ handler' = IF opened /\ unsaved THEN [name |-> "auto_backup", step |-> "canvas"] ELSE None
          /\ UNCHANGED <<vars, memory, unsaved, started>>
        BY <1>10 DEF AutoBackup
    <2>2. /\ UNCHANGED <<disk, tmps, index, based, opened, cname, zip, overlay, saving, result>>
          /\ UNCHANGED <<canvas, strokes, unwritten>>
        BY <2>1 DEF vars, memory
    <2>3. ContainerInv'
        BY <1>2, <2>1, ContainerStep
    <2>4. CASE opened /\ unsaved
        <3>1. handler' = [name |-> "auto_backup", step |-> "canvas"]
            BY <2>1, <2>4
        <3>2. HandlerInv'
            BY <1>2, <2>1, <2>2, <2>4, <3>1 DEF HandlerInv, Preparing, Storing, NoSave, Copy, Writes
        <3>3. CleanInv'
            BY <2>1, <2>4, <3>1, CleanVacuous
        <3>4. QED
            BY <2>3, <3>2, <3>3 DEF DocumentInv
    <2>5. CASE ~(opened /\ unsaved)
        <3>1. handler' = None
            BY <2>1, <2>5
        <3>2. HandlerInv'
            BY <1>2, <2>1, <2>2, <3>1, HandlerIdle
        <3>3. CleanInv'
            BY <1>2, <2>1, <2>2, <3>1, CleanStays
        <3>4. QED
            BY <2>3, <3>2, <3>3 DEF DocumentInv
    <2>6. QED
        BY <2>4, <2>5
<1>11. CASE CloseDocument
    <2>1. Close /\ Loaded /\ unsaved' = FALSE /\ UNCHANGED <<canvas, handler, started>>
        BY <1>11 DEF CloseDocument
    <2>2. ContainerInv' /\ ~opened' /\ saving' = NoSave
        BY <1>2, <2>1, CloseStep
    <2>3. HandlerInv'
        BY <1>2, <2>1, <2>2, HandlerIdle, LoadedUnpainted
    <2>4. CleanInv'
        BY <2>2, CleanVacuous
    <2>5. QED
        BY <2>2, <2>3, <2>4 DEF DocumentInv
<1>12. CASE Quit
    <2>1. ~opened /\ started' = TRUE /\ UNCHANGED <<vars, canvas, strokes, unsaved, handler>>
        BY <1>12 DEF Quit, memory
    <2>2. opened' = opened /\ saving' = saving
        BY <2>1 DEF vars
    <2>3. ContainerInv'
        BY <1>2, <2>1, ContainerStep
    <2>4. HandlerInv'
        BY <1>2, <2>1, <2>2, HandlerIdle
    <2>5. CleanInv'
        BY <2>1, <2>2, CleanVacuous
    <2>6. QED
        BY <2>3, <2>4, <2>5 DEF DocumentInv
<1>13. QED
    BY <1>5, <1>6, <1>7, <1>8, <1>9, <1>10, <1>11, <1>12

\* The registered pictures and the canvas are written for a save.
LEMMA WriteStep ==
    ASSUME DocumentInv,
           (\E f \in Files : SaveAs(f)) \/ (\E n \in Pictures : SavePicture(n)) \/ SaveCanvas
    PROVE  DocumentInv'
<1>1. /\ ContainerInv /\ HandlerInv /\ CleanInv
      /\ canvas \in Contents /\ strokes \in [Pictures -> Seq(Contents)]
      /\ unsaved \in BOOLEAN /\ started \in BOOLEAN
      /\ opened => ~started
    BY HandlerKinds DEF DocumentInv
<1>2. Torn \in Contents
    BY DEF Contents
<1>3. /\ UNCHANGED <<canvas, strokes, unwritten, unsaved, started>>
      /\ Registered' = Registered /\ Held' = Held
    BY MemoryStays DEF SaveAs, SavePicture, SaveCanvas, memory
<1>4. ASSUME NEW f \in Files, SaveAs(f) PROVE DocumentInv'
    <2>1. /\ handler = None /\ saving = NoSave /\ opened
          /\ handler' = Saving(f, "pictures", Registered, {})
          /\ UNCHANGED vars
        BY <1>4, HandlerKinds DEF SaveAs, MainLoop
    <2>2. UNCHANGED <<disk, tmps, index, based, opened, cname, zip, overlay, saving, result>>
        BY <2>1 DEF vars
    <2>3. ContainerInv'
        BY <1>1, <2>2, ContainerUntouched
    <2>4. /\ handler' \in SaveHandlers' /\ handler'.todo = Registered'
          /\ handler'.name = "save_as" /\ handler'.step = "pictures"
        BY <1>3, <2>1 DEF Saving, SaveHandlers
    <2>5. HandlerInv'
        BY <1>1, <1>3, <2>1, <2>2, <2>4 DEF HandlerInv, Preparing, Storing, NoSave, Copy, Writes
    <2>6. CleanInv'
        BY <1>1, <1>3, <2>1, <2>2, CleanStays
    <2>7. QED
        BY <2>3, <2>5, <2>6 DEF DocumentInv
<1>5. ASSUME Preparing
      PROVE  /\ handler \in SaveHandlers /\ opened /\ ~started /\ saving = NoSave
             /\ \A n \in Registered \ (handler.todo \cup handler.failed) : Written(n)
    BY <1>1, <1>5, HandlerKinds DEF HandlerInv, Preparing
<1>6. ASSUME NEW n \in Pictures, SavePicture(n) PROVE DocumentInv'
    <2>1. Preparing /\ n \in handler.todo
        BY <1>6 DEF SavePicture, Preparing
    <2>2. /\ handler \in SaveHandlers /\ opened /\ ~started /\ saving = NoSave
          /\ \A m \in Registered \ (handler.todo \cup handler.failed) : Written(m)
        BY <1>5, <2>1
    <2>3. n \in Registered /\ n \in Held /\ n \in Plain /\ Meant(n) = Painted(n) /\ Meant(n) \in Contents
        <3>1. n \in Registered /\ n \in Held /\ n # project
            BY <2>1, <2>2 DEF SaveHandlers, Held, Pictures
        <3>2. QED
            BY <3>1, MeantTyped DEF Meant
    <2>4. \/ /\ FileWrite(n, Painted(n))
             /\ handler' = [handler EXCEPT !.todo = @ \ {n}]
          \/ /\ FileWrite(n, Torn) \/ UNCHANGED vars
             /\ handler' = [handler EXCEPT !.todo = @ \ {n}, !.failed = @ \cup {n}]
        BY <1>6 DEF SavePicture
    <2>5. /\ ContainerInv'
          /\ DOMAIN overlay' \subseteq DOMAIN overlay \cup Held
          /\ \A m \in Plain \ {n} : Written(m) => Written(m)'
          /\ UNCHANGED <<disk, opened, saving, cname, zip, result>>
        <3>1. ASSUME NEW c \in Contents, FileWrite(n, c)
              PROVE  /\ ContainerInv'
                     /\ DOMAIN overlay' \subseteq DOMAIN overlay \cup Held
                     /\ \A m \in Plain \ {n} : Written(m) => Written(m)'
                     /\ UNCHANGED <<disk, opened, saving, cname, zip, result>>
            BY <1>1, <1>3, <2>3, <3>1, FileWriteStep, WriteKeeps
        <3>2. ASSUME UNCHANGED vars
              PROVE  /\ ContainerInv'
                     /\ DOMAIN overlay' \subseteq DOMAIN overlay \cup Held
                     /\ \A m \in Plain \ {n} : Written(m) => Written(m)'
                     /\ UNCHANGED <<disk, opened, saving, cname, zip, result>>
            <4>1. UNCHANGED <<disk, tmps, index, based, opened, cname, zip, overlay, saving, result>>
                BY <3>2 DEF vars
            <4>2. View' = View
                BY <4>1 DEF View
            <4>3. QED
                BY <1>1, <1>3, <4>1, <4>2, ContainerUntouched, WrittenStays
        <3>3. QED
            BY <1>2, <2>3, <2>4, <3>1, <3>2
    <2>6. /\ handler' \in SaveHandlers' /\ Preparing'
          /\ handler'.todo = handler.todo \ {n}
          /\ handler.failed \subseteq handler'.failed
          /\ n \in handler'.failed \/ FileWrite(n, Painted(n))
        BY <1>3, <2>1, <2>2, <2>3, <2>4 DEF SaveHandlers, Preparing
    <2>7. \A m \in Registered' \ (handler'.todo \cup handler'.failed) : Written(m)'
        <3>1. SUFFICES ASSUME NEW m \in Registered, m \notin handler'.todo, m \notin handler'.failed
                       PROVE  Written(m)'
            BY <1>3
        <3>2. CASE m = n
            <4>1. FileWrite(n, Painted(n))
                BY <2>6, <3>1, <3>2
            <4>2. QED
                BY <1>1, <1>3, <2>3, <3>2, <4>1, WriteKeeps
        <3>3. CASE m # n
            <4>1. Written(m) /\ m \in Plain
                BY <2>2, <2>6, <3>1, <3>3 DEF Registered, Pictures
            <4>2. QED
                BY <2>5, <3>3, <4>1
        <3>4. QED
            BY <3>2, <3>3
    <2>8. HandlerInv'
        BY <1>1, <1>3, <2>2, <2>5, <2>6, <2>7 DEF HandlerInv, Preparing, Storing, NoSave, Copy, Writes
    <2>9. CleanInv'
        BY <1>1, <1>3, <2>1, <2>5, CleanStays
    <2>10. QED
        BY <2>5, <2>8, <2>9 DEF DocumentInv
<1>7. ASSUME SaveCanvas PROVE DocumentInv'
    <2>1. Preparing /\ handler.todo = {}
        BY <1>7 DEF SaveCanvas, Preparing
    <2>2. /\ handler \in SaveHandlers /\ opened /\ ~started /\ saving = NoSave
          /\ \A m \in Registered \ handler.failed : Written(m)
        BY <1>5, <2>1
    <2>3. project \in Held /\ project \in Plain /\ Meant(project) = canvas
        BY ProjectAssumption DEF Held, Meant
    <2>4. CASE FileWrite(project, canvas) /\ handler' = [handler EXCEPT !.step = "container"]
        <3>1. ContainerInv' /\ UNCHANGED <<opened, saving>>
            BY <1>1, <2>3, <2>4, FileWriteStep
        <3>2. /\ handler' \in SaveHandlers' /\ handler'.name = "save_as" /\ handler'.step = "container"
              /\ handler'.failed = handler.failed
            BY <1>3, <2>2, <2>4 DEF SaveHandlers
        <3>3. AllWritten'
            <4>1. SUFFICES ASSUME NEW m \in Held, m \notin handler.failed PROVE Written(m)'
                BY <1>3, <3>2 DEF AllWritten, Claimed
            <4>2. CASE m = project
                BY <1>1, <1>3, <2>3, <2>4, <4>2, WriteKeeps
            <4>3. CASE m # project
                <5>1. Written(m) /\ m \in Plain
                    BY <2>2, <4>1, <4>3 DEF Held, Registered, Pictures
                <5>2. QED
                    BY <1>1, <1>3, <2>3, <2>4, <4>3, <5>1, WriteKeeps
            <4>4. QED
                BY <4>2, <4>3
        <3>4. HandlerInv'
            BY <1>1, <1>3, <2>2, <3>1, <3>2, <3>3 DEF HandlerInv, Preparing, Storing, NoSave, Copy, Writes
        <3>5. CleanInv'
            BY <3>2, CleanVacuous DEF Preparing, None
        <3>6. QED
            BY <3>1, <3>4, <3>5 DEF DocumentInv
    <2>5. CASE FileWrite(project, Torn) /\ handler' = None
        <3>1. ContainerInv' /\ UNCHANGED <<disk, opened, saving, cname, zip, result>>
            BY <1>1, <1>2, <2>3, <2>5, FileWriteStep
        <3>2. DOMAIN overlay' \subseteq DOMAIN overlay \cup Held
            BY <1>1, <1>2, <1>3, <2>3, <2>5, WriteKeeps
        <3>3. HandlerInv' /\ CleanInv'
            BY <1>1, <1>3, <2>1, <2>2, <2>5, <3>1, <3>2, HandlerIdle, CleanStays
        <3>4. QED
            BY <3>1, <3>3 DEF DocumentInv
    <2>6. CASE UNCHANGED vars /\ handler' = None
        <3>1. UNCHANGED <<disk, tmps, index, based, opened, cname, zip, overlay, saving, result>>
            BY <2>6 DEF vars
        <3>2. ContainerInv'
            BY <1>1, <3>1, ContainerUntouched
        <3>3. HandlerInv' /\ CleanInv'
            BY <1>1, <1>3, <2>1, <2>2, <2>6, <3>1, HandlerIdle, CleanStays
        <3>4. QED
            BY <3>2, <3>3 DEF DocumentInv
    <2>7. QED
        BY <1>7, <2>4, <2>5, <2>6 DEF SaveCanvas
<1>8. QED
    BY <1>4, <1>6, <1>7

\* The canvas is written for a backup, and the backup is made.
LEMMA BackupStep ==
    ASSUME DocumentInv, BackupCanvas \/ BackupContainer
    PROVE  DocumentInv'
<1>1. /\ ContainerInv /\ HandlerInv
      /\ canvas \in Contents /\ strokes \in [Pictures -> Seq(Contents)]
      /\ unsaved \in BOOLEAN /\ started \in BOOLEAN
      /\ opened => ~started
    BY HandlerKinds DEF DocumentInv
<1>2. Torn \in Contents
    BY DEF Contents
<1>3. ASSUME BackupCanvas PROVE DocumentInv'
    <2>1. handler = [name |-> "auto_backup", step |-> "canvas"]
        BY <1>3 DEF BackupCanvas
    <2>2. opened /\ unsaved /\ saving = NoSave /\ ~started
        BY <1>1, <2>1, HandlerKinds
    <2>3. UNCHANGED <<canvas, strokes, unsaved, started>>
        BY <1>3 DEF BackupCanvas, memory
    <2>4. CleanInv'
        BY <2>2, <2>3, CleanVacuous
    <2>5. CASE FileWrite(project, canvas) /\ handler' = [name |-> "auto_backup", step |-> "container"]
        <3>1. ContainerInv' /\ UNCHANGED <<opened, saving>>
            BY <1>1, <2>5, FileWriteStep, ProjectAssumption
        <3>2. HandlerInv'
            BY <1>1, <2>2, <2>3, <2>5, <3>1 DEF HandlerInv, Preparing, Storing, NoSave, Copy, Writes
        <3>3. QED
            BY <2>4, <3>1, <3>2 DEF DocumentInv
    <2>6. CASE FileWrite(project, Torn) /\ handler' = None
        <3>1. ContainerInv' /\ UNCHANGED <<opened, saving>>
            BY <1>1, <1>2, <2>6, FileWriteStep, ProjectAssumption
        <3>2. HandlerInv'
            BY <1>1, <2>2, <2>3, <2>6, <3>1, HandlerIdle
        <3>3. QED
            BY <2>4, <3>1, <3>2 DEF DocumentInv
    <2>7. QED
        BY <1>3, <2>5, <2>6 DEF BackupCanvas
<1>4. ASSUME BackupContainer PROVE DocumentInv'
    <2>1. /\ handler = [name |-> "auto_backup", step |-> "container"]
          /\ SaveTemporary \/ SaveTemporaryFails
          /\ handler' = None
          /\ UNCHANGED <<canvas, strokes, unsaved, started>>
        BY <1>4 DEF BackupContainer, memory
    <2>2. opened /\ unsaved /\ saving = NoSave /\ ~started
        BY <1>1, <2>1, HandlerKinds
    <2>3. ContainerInv' /\ UNCHANGED <<opened, saving>>
        BY <1>1, <2>1, WriteIndexStep DEF SaveTemporary, SaveTemporaryFails
    <2>4. HandlerInv'
        BY <1>1, <2>1, <2>2, <2>3, HandlerIdle
    <2>5. CleanInv'
        BY <2>1, <2>2, CleanVacuous
    <2>6. QED
        BY <2>3, <2>4, <2>5 DEF DocumentInv
<1>5. QED
    BY <1>3, <1>4

\* A file that is to be saved is among those that are.
LEMMA WrittenIsLeft ==
    ASSUME ContainerInv, NEW n, Written(n)
    PROVE  n \in DOMAIN overlay /\ n \in DOMAIN Restrict(overlay, Files_)
BY FilesAreLive, RestrictFacts DEF Written, ContainerInv, SessionInv

\* The handler and what is in memory stay while the container is saved.
LEMMA ClaimedStays ==
    ASSUME UNCHANGED <<canvas, strokes, handler>>
    PROVE  /\ Claimed' = Claimed
           /\ \A n : Meant(n)' = Meant(n)
           /\ SaveHandlers' = SaveHandlers
           /\ Storing' = Storing /\ Preparing' = Preparing
BY MemoryStays DEF Claimed, SaveHandlers, Storing, Preparing

\* The container is about to be saved with the files as they were written.
LEMMA SaveContainerStep ==
    ASSUME DocumentInv, SaveContainer
    PROVE  DocumentInv'
<1>1. /\ Storing /\ saving = NoSave
      /\ IF handler.file = cname THEN SaveAtPlace ELSE SaveCopy(handler.file) \/ SaveNew(handler.file)
      /\ UNCHANGED <<canvas, strokes, unsaved, handler, started>>
    BY DEF SaveContainer, Storing, document, memory
<1>2. /\ handler \in SaveHandlers /\ opened /\ ~started
      /\ canvas \in Contents /\ strokes \in [Pictures -> Seq(Contents)]
      /\ unsaved \in BOOLEAN /\ started \in BOOLEAN
      /\ ContainerInv
    BY <1>1, HandlerKinds DEF DocumentInv, Storing
<1>3. AllWritten /\ handler.file \in Files
    BY <1>1, <1>2 DEF DocumentInv, HandlerInv, SaveHandlers
<1>4. \A n \in Claimed : n \in DOMAIN overlay /\ n \in DOMAIN Restrict(overlay, Files_) /\ View[n] = Meant(n)
    BY <1>2, <1>3, WrittenIsLeft DEF AllWritten, Written
<1>5. handler' # None /\ ~Preparing'
    BY <1>1 DEF Storing, Preparing, None
<1>6. CleanInv'
    BY <1>5, CleanVacuous
<1>7. ASSUME saving' \in Writes, saving'.left = Restrict(overlay, Files_), saving'.view = View,
             saving' \notin Copy, saving'.step = "files", UNCHANGED <<overlay, opened>>
      PROVE  HandlerInv'
    <2>1. saving' # NoSave
        BY <1>7 DEF NoSave
    <2>2. \A n \in Claimed' : n \in DOMAIN overlay' /\ n \in DOMAIN saving'.left /\ saving'.view[n] = Meant(n)'
        BY <1>1, <1>4, <1>7, ClaimedStays
    <2>3. Storing' /\ ~Preparing' /\ handler' \in SaveHandlers'
        BY <1>1, <1>2, <1>5, ClaimedStays
    <2>4. QED
        BY <1>1, <1>2, <1>7, <2>1, <2>2, <2>3 DEF HandlerInv
<1>8. CASE SaveAtPlace
    BY <1>2, <1>6, <1>7, <1>8, SaveAtPlaceStep DEF DocumentInv
<1>9. CASE SaveNew(handler.file)
    BY <1>2, <1>3, <1>6, <1>7, <1>9, SaveNewStep DEF DocumentInv
<1>10. CASE SaveCopy(handler.file)
    <2>1. /\ ContainerInv'
          /\ \A n \in Plain : View'[n] = View[n]
          /\ saving' \in Copy /\ saving' \notin Writes
          /\ saving'.view = View /\ saving'.step = "container"
          /\ UNCHANGED <<overlay, opened>>
        BY <1>2, <1>3, <1>10, SaveCopyStep
    <2>2. AllWritten'
        <3>1. \A n \in Claimed : n \in Plain
            BY ProjectAssumption DEF Claimed, Held, Registered, Pictures
        <3>2. QED
            BY <1>1, <1>3, <2>1, <3>1, ClaimedStays, WrittenStays DEF AllWritten
    <2>3. (\A n \in Claimed' : saving'.view[n] = Meant(n)') /\ saving' # NoSave
        BY <1>1, <1>4, <2>1, ClaimedStays DEF NoSave
    <2>4. HandlerInv'
        <3>1. Storing' /\ ~Preparing' /\ handler' \in SaveHandlers'
            BY <1>1, <1>2, <1>5, ClaimedStays
        <3>2. QED
            BY <1>1, <1>2, <2>1, <2>2, <2>3, <3>1 DEF HandlerInv
    <2>5. QED
        BY <1>6, <2>1, <2>4 DEF DocumentInv
<1>11. QED
    BY <1>1, <1>8, <1>9, <1>10

\* What a save writes has been in the overlay, and is in the container once it is not left.
LEMMA ClaimedIsWritten ==
    ASSUME DocumentInv, saving \in Writes
    PROVE  /\ project \in Claimed
           /\ \A n \in Claimed :
                /\ n \in DOMAIN overlay
                /\ n \in DOMAIN saving.left \/ saving.zip.changed
                /\ saving.view[n] = Meant(n)
<1>1. saving # NoSave
    BY DEF Writes, NoSave
<1>2. handler \in SaveHandlers
    BY <1>1, HandlerKinds DEF Storing
<1>3. project \in Claimed
    BY <1>2 DEF SaveHandlers, Claimed, Held, Registered, Pictures
<1>4. \A n \in Claimed : n \in DOMAIN overlay /\ (n \in DOMAIN saving.left \/ saving.zip.changed)
    BY DEF DocumentInv, HandlerInv
<1>5. QED
    BY <1>1, <1>3, <1>4, HandlerKinds

\* The end of a save that reports success: the version written has what was claimed.
LEMMA SavedIsClean ==
    ASSUME DocumentInv, SaveDirectory, UNCHANGED <<canvas, strokes>>,
           result' => unwritten' = handler.failed
    PROVE  CleanInv'
<1> DEFINE z == saving.zip
           f == z.file
           b == disk[f]
           c == ZipSaved(z, b)
           y == ZipAfterSave(z, b)
<1> SUFFICES ASSUME result' PROVE CleanInv'
    BY CleanVacuous
<1>1. ContainerInv /\ saving.step = "files"
    BY DEF DocumentInv, SaveDirectory, AllTried
<1>2. /\ ContainerInv'
      /\ saving \in Writes
      /\ saving.left = <<>>
      /\ disk'[f] = c
      /\ zip' = y /\ overlay' = <<>> /\ cname' = f
      /\ \A n \in Plain : View'[n] = IF n \in DOMAIN saving.left THEN View[n] ELSE ZipRead(b, z, n)
    BY <1>1, SaveDirectoryStep DEF Settled
<1>3. \A n \in Claimed : n \in Plain /\ n \notin DOMAIN saving.left
    BY <1>2, ProjectAssumption DEF Claimed, Held, Registered, Pictures
<1>4. \A n \in Claimed : n \in DOMAIN overlay /\ z.changed /\ saving.view[n] = Meant(n)
    BY <1>2, <1>3, ClaimedIsWritten
<1>5. (\A n \in Plain : Tracked(n)) /\ Fits(z, b) /\ Sound(b)
    BY <1>1, WritesKnown
<1>6. \A n \in Claimed : ZipRead(b, z, n) = Meant(n)
    BY <1>3, <1>4, <1>5 DEF Tracked
<1>7. z.changed
    BY <1>2, <1>4, ClaimedIsWritten
<1>8. c = Append(b, EndBlock(z.files, z.prev)) /\ y.files = z.files /\ y.file = f
    BY <1>5, <1>7, SavedFits DEF ZipSaved
<1>9. /\ Len(c) = Len(b) + 1 /\ Len(b) \in Nat
      /\ c[Len(b) + 1] = EndBlock(z.files, z.prev)
    BY <1>5, <1>8, Appended DEF Sound
<1> HIDE DEF c, y
<1>10. Ends(c, Len(c)) /\ Len(c) \in 1..Len(c) /\ c[Len(c)].files = y.files
    BY <1>8, <1>9 DEF Ends, EndBlock
<1>11. ASSUME NEW n \in Claimed PROVE ZipRead(c, y, n) = Meant(n)
    <2>1. View'[n] = Meant(n)
        BY <1>2, <1>3, <1>6
    <2>2. y # NoZip
        BY <1>1, <1>8, WritesKnown, ContainerAssumption DEF NoZip
    <2>3. View'[n] = Seen(n)'
        BY <1>3, ViewSeen
    <2>4. n \notin DOMAIN overlay' /\ zip' = y /\ disk'[zip'.file] = c
        BY <1>2, <1>8
    <2>5. QED
        BY <2>1, <2>2, <2>3, <2>4 DEF Seen
<1>12. Held' \ unwritten' = Claimed /\ \A n : Meant(n)' = Meant(n)
    BY MemoryStays DEF Claimed
<1>13. DOMAIN overlay' \subseteq Held'
    BY <1>2
<1>14. QED
    BY <1>2, <1>10, <1>11, <1>12, <1>13 DEF CleanInv

\* A save goes on, or returns.
LEMMA ContinueSaveStep ==
    ASSUME DocumentInv, ContinueSave
    PROVE  DocumentInv'
<1>1. /\ \/ CopyContainer
         \/ CopyContainerFails
         \/ \E n \in Plain : SaveFile(n) \/ SaveFileBreaksOff(n) \/ SaveFileFails(n)
         \/ SaveDirectory
         \/ SaveDirectoryFails
      /\ IF saving'.step # "none"
           THEN UNCHANGED <<unsaved, handler>>
           ELSE /\ unsaved' = (unsaved /\ ~result')
                /\ result' => unwritten' = handler.failed
                /\ handler' = None
      /\ UNCHANGED <<canvas, strokes, started>>
    BY DEF ContinueSave
<1>2. saving.step \in {"container", "files"}
    BY <1>1 DEF CopyContainer, CopyContainerFails, SaveFile, SaveFileBreaksOff, SaveFileFails, CanCopy, ToWrite,
                SaveDirectory, SaveDirectoryFails, AllTried
<1>3. saving # NoSave /\ ContainerInv
    BY <1>2 DEF NoSave, DocumentInv
<1>4. /\ Storing /\ handler \in SaveHandlers /\ opened /\ ~started
      /\ \A n \in Claimed : saving.view[n] = Meant(n)
      /\ canvas \in Contents /\ strokes \in [Pictures -> Seq(Contents)]
      /\ unsaved \in BOOLEAN /\ started \in BOOLEAN
    BY <1>3, HandlerKinds DEF Storing
<1>5. ASSUME saving' \in Writes, saving' \notin Copy, saving'.view = saving.view,
             \A n \in Claimed : n \in DOMAIN overlay' /\ (n \in DOMAIN saving'.left \/ saving'.zip.changed),
             saving'.step = "files", opened' = opened
      PROVE  HandlerInv' /\ CleanInv'
    <2>1. UNCHANGED <<unsaved, handler>>
        BY <1>1, <1>5
    <2>2. saving' # NoSave
        BY <1>5 DEF NoSave
    <2>3. handler' # None /\ ~Preparing' /\ Storing' /\ handler' \in SaveHandlers'
        BY <1>1, <1>4, <2>1, ClaimedStays DEF None, Storing, Preparing
    <2>4. \A n \in Claimed' :
            /\ saving'.view[n] = Meant(n)'
            /\ n \in DOMAIN overlay' /\ (n \in DOMAIN saving'.left \/ saving'.zip.changed)
        BY <1>1, <1>4, <1>5, <2>1, ClaimedStays
    <2>5. HandlerInv'
        BY <1>1, <1>4, <1>5, <2>1, <2>2, <2>3, <2>4 DEF HandlerInv
    <2>6. QED
        BY <2>3, <2>5, CleanVacuous
<1>6. ASSUME saving' = NoSave
      PROVE  handler' = None /\ HandlerInv'
    <2>1. unsaved' = (unsaved /\ ~result') /\ handler' = None
        BY <1>1, <1>6 DEF NoSave
    <2>2. unsaved' \in BOOLEAN
        BY <2>1
    <2>3. started' \in BOOLEAN /\ ~started' /\ canvas' \in Contents /\ strokes' \in [Pictures -> Seq(Contents)]
        BY <1>1, <1>4
    <2>4. QED
        BY <1>6, <2>1, <2>2, <2>3, HandlerIdle
<1>7. CASE CopyContainer
    <2>1. /\ ContainerInv'
          /\ saving \in Copy
          /\ saving'.view = saving.view /\ saving'.step = "files"
          /\ saving'.left = Restrict(overlay, Files_) /\ saving' \in Writes /\ saving' \notin Copy
          /\ UNCHANGED <<overlay, opened>>
        BY <1>3, <1>7, CopyContainerStep
    <2>2. AllWritten
        BY <2>1 DEF DocumentInv, HandlerInv
    <2>3. \A n \in Claimed : n \in DOMAIN saving'.left /\ n \in DOMAIN overlay'
        BY <1>3, <2>1, <2>2, WrittenIsLeft DEF AllWritten
    <2>4. HandlerInv' /\ CleanInv'
        BY <1>5, <2>1, <2>3
    <2>5. QED
        BY <2>1, <2>4 DEF DocumentInv
<1>8. CASE CopyContainerFails
    <2>1. ContainerInv' /\ saving' = NoSave /\ ~result'
        BY <1>3, <1>8, CopyContainerFailsStep
    <2>2. QED
        BY <1>6, <2>1, CleanVacuous DEF DocumentInv
<1>9. ASSUME NEW n \in Plain, SaveFile(n) \/ SaveFileBreaksOff(n)
      PROVE  DocumentInv'
    <2>1. /\ ContainerInv'
          /\ saving \in Writes /\ saving' \in Writes /\ saving' \notin Copy
          /\ saving'.view = saving.view /\ saving'.step = "files"
          /\ saving'.zip.changed
          /\ UNCHANGED <<overlay, opened>>
        BY <1>3, <1>9, SaveFileStep, SaveFileBreaksOffStep
    <2>2. \A m \in Claimed : m \in DOMAIN overlay
        BY <2>1, ClaimedIsWritten
    <2>3. HandlerInv' /\ CleanInv'
        BY <1>5, <2>1, <2>2
    <2>4. QED
        BY <2>1, <2>3 DEF DocumentInv
<1>10. ASSUME NEW n \in Plain, SaveFileFails(n)
       PROVE  DocumentInv'
    <2>1. /\ ContainerInv'
          /\ saving \in Writes /\ saving' \in Writes /\ saving' \notin Copy
          /\ saving'.view = saving.view /\ saving'.step = "files"
          /\ saving'.zip = saving.zip /\ saving'.left = saving.left
          /\ UNCHANGED <<overlay, opened>>
        BY <1>3, <1>10, SaveFileFailsStep
    <2>2. \A m \in Claimed : m \in DOMAIN overlay /\ (m \in DOMAIN saving.left \/ saving.zip.changed)
        BY <2>1, ClaimedIsWritten
    <2>3. HandlerInv' /\ CleanInv'
        BY <1>5, <2>1, <2>2
    <2>4. QED
        BY <2>1, <2>3 DEF DocumentInv
<1>11. CASE SaveDirectory
    <2>1. ContainerInv' /\ saving' = NoSave
        BY <1>3, <1>11, SaveDirectoryStep
    <2>2. result' => unwritten' = handler.failed
        BY <1>1, <2>1 DEF NoSave
    <2>3. CleanInv'
        BY <1>1, <1>11, <2>2, SavedIsClean
    <2>4. QED
        BY <1>6, <2>1, <2>3 DEF DocumentInv
<1>12. CASE SaveDirectoryFails
    <2>1. ContainerInv' /\ saving' = NoSave /\ ~result'
        BY <1>3, <1>12, SaveDirectoryFailsStep
    <2>2. QED
        BY <1>6, <2>1, CleanVacuous DEF DocumentInv
<1>13. QED
    BY <1>1, <1>7, <1>8, <1>9, <1>10, <1>11, <1>12

\* The temporary file of the project that was written down is the project's.
LEMMA ProjectRecovers ==
    ASSUME ContainerInv, ProjectIndexed, OpenTemporary
    PROVE  View'[project] \in Contents
<1>1. PICK t : t \in Indexed /\ t \in {project} \X Nat /\ t \in DOMAIN tmps
    BY DEF ProjectIndexed
<1>2. /\ index.kind = "index"
      /\ UNCHANGED tmps
      /\ overlay' = index.files
    BY OpenTemporaryStep
<1>3. OverlayOK(index.files)
    BY <1>2, IndexKnown DEF ContainerInv
<1>4. PICK n \in DOMAIN index.files : t = index.files[n].tmp
    BY <1>1, <1>2 DEF Indexed, Named
<1>5. t[1] = project /\ t # NoTmp
    BY <1>1 DEF NoTmp
<1>6. n = project /\ Live(index.files[n])
    BY <1>3, <1>4, <1>5, OverlayFacts
<1>7. tmps[t] \in Contents
    BY <1>1, TmpsTyped DEF ContainerInv, StorageInv
<1>8. Seen(project)' = tmps[t]
    BY <1>1, <1>2, <1>4, <1>6 DEF Seen
<1>9. QED
    BY <1>7, <1>8, ViewSeen, ProjectAssumption

\* The program dies, and recovers or throws away what it finds when it is started again.
LEMMA RestartStep ==
    ASSUME DocumentInv, CrashProgram \/ Recover \/ RecoverFails
    PROVE  DocumentInv'
<1>1. /\ ContainerInv
      /\ canvas \in Contents /\ strokes \in [Pictures -> Seq(Contents)]
      /\ unsaved \in BOOLEAN /\ started \in BOOLEAN
      /\ started => handler = None /\ saving = NoSave /\ ~opened
    BY HandlerKinds DEF DocumentInv
<1>2. CASE CrashProgram
    <2>1. Crash /\ handler' = None /\ started' = TRUE /\ Loaded /\ UNCHANGED <<canvas, unsaved>>
        BY <1>2 DEF CrashProgram
    <2>2. ContainerInv' /\ ~opened' /\ saving' = NoSave
        BY <1>1, <2>1, CrashStep
    <2>3. QED
        BY <1>1, <2>1, <2>2, HandlerIdle, LoadedUnpainted, CleanVacuous DEF DocumentInv
<1>3. CASE Recover
    <2>1. /\ started /\ ProjectIndexed /\ OpenTemporary
          /\ canvas' = View'[project] /\ Loaded /\ unsaved' = TRUE /\ started' = FALSE /\ handler' = handler
        BY <1>3 DEF Recover
    <2>2. ContainerInv' /\ saving' = NoSave
        BY <1>1, <2>1, OpenTemporaryStep
    <2>3. canvas' \in Contents
        BY <1>1, <2>1, ProjectRecovers
    <2>4. QED
        BY <1>1, <2>1, <2>2, <2>3, HandlerIdle, LoadedUnpainted, CleanVacuous DEF DocumentInv
<1>4. CASE RecoverFails
    <2>1. /\ started
          /\ tmps' = Restrict(tmps, DOMAIN tmps \ Indexed) /\ index' = NoIndex
          /\ started' = FALSE
          /\ UNCHANGED <<disk, session, saving, result, canvas, strokes, unsaved, handler>>
        BY <1>4 DEF RecoverFails, memory
    <2>2. ContainerInv'
        BY <1>1, <2>1, DiscardStep
    <2>3. ~opened' /\ saving' = NoSave /\ handler' = None
        BY <1>1, <2>1 DEF session
    <2>4. QED
        BY <1>1, <2>1, <2>2, <2>3, HandlerIdle, CleanVacuous DEF DocumentInv
<1>5. QED
    BY <1>2, <1>3, <1>4

\* The invariant holds at first, and every step keeps it.
LEMMA DocumentStarts == DocumentInit => DocumentInv
<1> SUFFICES ASSUME DocumentInit PROVE DocumentInv
    OBVIOUS
<1>1. /\ Init /\ canvas \in Data /\ strokes = Unpainted /\ unsaved = FALSE /\ handler = None /\ started = TRUE
    BY DEF DocumentInit
<1>2. opened = FALSE /\ saving = NoSave
    BY <1>1 DEF Init
<1>3. HandlerInv
    <2>1. strokes \in [Pictures -> Seq(Contents)]
        BY <1>1 DEF Unpainted
    <2>2. QED
        BY <1>1, <1>2, <2>1 DEF HandlerInv, Preparing, Storing, None, NoSave, Copy, Writes, Contents
<1>4. CleanInv
    BY <1>2 DEF CleanInv
<1>5. QED
    BY <1>1, <1>3, <1>4, ContainerInit DEF DocumentInv

\* Every step of the document preserves the invariant.
LEMMA DocumentStep == DocumentInv /\ [DocumentNext]_documentVars => DocumentInv'
<1> SUFFICES ASSUME DocumentInv, [DocumentNext]_documentVars PROVE DocumentInv'
    OBVIOUS
<1>1. CASE DocumentNext
    BY <1>1, MainLoopStep, WriteStep, BackupStep, SaveContainerStep, ContinueSaveStep, RestartStep DEF DocumentNext
<1>2. CASE UNCHANGED documentVars
    <2>1. UNCHANGED vars /\ UNCHANGED <<canvas, strokes, unwritten, unsaved, handler, started>>
        BY <1>2 DEF documentVars, document, memory
    <2>2. UNCHANGED <<disk, tmps, index, opened, cname, zip, overlay, saving, result>>
        BY <2>1 DEF vars
    <2>3. ContainerInv'
        BY <2>1, ContainerStep DEF DocumentInv
    <2>4. \A n : Written(n) => Written(n)'
        <3>1. View' = View
            BY <2>2 DEF View
        <3>2. QED
            BY <2>1, <2>2, <3>1, MemoryStays DEF Written, Live
    <2>5. HandlerInv'
        <3>1. Claimed' = Claimed /\ Registered' = Registered /\ SaveHandlers' = SaveHandlers
              /\ Preparing' = Preparing /\ Storing' = Storing /\ \A n : Meant(n)' = Meant(n)
            BY <2>1, ClaimedStays, MemoryStays
        <3>2. AllWritten => AllWritten'
            BY <2>4, <3>1 DEF AllWritten
        <3>3. QED
            BY <2>1, <2>2, <2>4, <3>1, <3>2 DEF HandlerInv, DocumentInv
    <2>6. CleanInv'
        <3>1. Held' = Held /\ Preparing' = Preparing /\ \A n : Meant(n)' = Meant(n)
            BY <2>1, ClaimedStays, MemoryStays
        <3>2. QED
            BY <2>1, <2>2, <3>1 DEF CleanInv, DocumentInv
    <2>7. QED
        BY <2>3, <2>5, <2>6 DEF DocumentInv
<1>3. QED
    BY <1>1, <1>2

-----------------------------------------------------------------------------
(***************************************************************************)
(* What follows.                                                           *)
(***************************************************************************)

\* A handle that fits its container is one.
LEMMA FitsTyped ==
    ASSUME NEW z, z.file \in Files, Fits(z, disk[z.file]), Sound(disk[z.file])
    PROVE  ZipType(z)
<1>1. z.files \in Tables /\ z.changed \in BOOLEAN
    BY Zenon DEF Fits, Handle
<1>2. DOMAIN z.files \subseteq Names
    BY <1>1, DomainOfTable
<1>3. \A n \in DOMAIN z.files :
         IF n \in Dirs THEN z.files[n] = 0
         ELSE z.files[n] \in 1..Len(disk[z.file]) /\ disk[z.file][z.files[n]].kind = "file"
    BY DEF Fits, Table
<1>4. z.prev \in 0..Len(disk[z.file])
    BY DEF Fits, Latest
<1>5. QED
    BY <1>1, <1>2, <1>3, <1>4, Zenon DEF ZipType

\* The types, and that the offsets of a handle are those of files.
LEMMA ContainerTyped == ContainerInv => TypeOK
<1> SUFFICES ASSUME ContainerInv PROVE TypeOK
    OBVIOUS
<1>1. /\ opened \in BOOLEAN /\ based \in BOOLEAN /\ result \in BOOLEAN
      /\ cname = zip.file
      /\ OverlayType(overlay)
      /\ tmps \in Functions_(Tmps, Contents)
    BY DEF ContainerInv, SessionInv, OverlayOK, StorageInv
<1>2. cname \in Files \cup {NoFile}
    BY <1>1 DEF ContainerInv, ZipInv, NoZip
<1>3. zip # NoZip => ZipType(zip) /\ zip.prev > 0
    BY FitsTyped DEF ContainerInv, ZipInv, StorageInv
<1>4. index.kind = "index" => OverlayType(index.files)
    BY IndexKnown DEF ContainerInv, OverlayOK
<1>5. saving.step = "files" => ZipType(saving.zip) /\ saving.todo \subseteq DOMAIN saving.left
    BY WritesKnown, FitsTyped
<1>6. DOMAIN tmps \subseteq Tmps /\ tmps \in [DOMAIN tmps -> Contents]
    BY <1>1 DEF Functions_
<1>7. QED
    BY <1>1, <1>2, <1>3, <1>4, <1>5, <1>6 DEF TypeOK

\* No version is cut off: the chain of the versions leads to each of them.
LEMMA ContainerHistory == ContainerInv => HistoryOffered
<1> SUFFICES ASSUME ContainerInv, NEW f \in Files, Exists(f), Opens(disk[f], Len(disk[f])),
                    NEW k \in 1..Len(disk[f]), Ends(disk[f], k)
             PROVE  k \in HistorySizes(disk[f])
    BY DEF HistoryOffered
<1>1. Sound(disk[f])
    BY DEF ContainerInv, StorageInv
<1>2. HistorySizes(disk[f]) = {j \in 1..Len(disk[f]) : Ends(disk[f], j)}
    BY <1>1, HistoryIs DEF Opens
<1>3. QED
    BY <1>2

\* A document that shows no changes is one of the versions of its container, as far as the
\* save could write it.
LEMMA CleanIsStored == DocumentInv => SavedMeansStored
<1> SUFFICES ASSUME DocumentInv, opened, MainLoop, result, ~unsaved, cname # NoFile
             PROVE  \E k \in HistorySizes(disk[cname]) :
                        \A n \in Plain \ unwritten : Version(cname, k)[n] = InMemory[n]
    BY DEF SavedMeansStored
<1> DEFINE b == disk[cname]
<1>1. handler = None /\ ContainerInv
    BY HandlerKinds DEF MainLoop, DocumentInv
<1>2. /\ DOMAIN overlay \subseteq Held
      /\ Ends(b, Len(b))
      /\ \A n \in Held \ unwritten : ZipRead(b, zip, n) = Meant(n)
    BY <1>1 DEF DocumentInv, CleanInv
<1>3. PICK k \in 1..Len(b) : Ends(b, k) /\ b[k].files = zip.files
    BY <1>1 DEF DocumentInv, CleanInv
<1>4. cname = zip.file /\ zip # NoZip
    BY <1>1 DEF ContainerInv, SessionInv, NoZip
<1>5. Sound(b)
    BY <1>1, <1>4 DEF ContainerInv, ZipInv, StorageInv
<1>6. k \in HistorySizes(b)
    BY <1>2, <1>3, <1>5, HistoryIs
<1>7. ASSUME NEW n \in Plain, n \notin unwritten PROVE Version(cname, k)[n] = InMemory[n]
    <2>1. Version(cname, k)[n] = ZipRead(b, zip, n)
        BY <1>3 DEF Version, ZipRead, ZipIsFile, ZipOpened
    <2>2. CASE n \in Held
        <3>1. InMemory[n] = Meant(n)
            BY <2>2 DEF InMemory, Meant, Held
        <3>2. QED
            BY <1>2, <1>7, <2>1, <2>2, <3>1
    <2>3. CASE n \notin Held
        <3>1. InMemory[n] = View[n]
            BY <2>3 DEF InMemory, Held
        <3>2. View[n] = ZipRead(b, zip, n)
            BY <1>2, <1>4, <2>3, ViewSeen DEF Seen
        <3>3. QED
            BY <2>1, <3>1, <3>2
    <2>4. QED
        BY <2>2, <2>3
<1>8. QED
    BY <1>6, <1>7

\* Whatever is called, in any order, and wherever writing fails or the process dies, the
\* offsets a handle holds are those of files and no version of a container is cut off.
THEOREM ContainerKeepsHistory == Spec => [](TypeOK /\ HistoryOffered)
<1>1. Init => ContainerInv
    BY ContainerInit
<1>2. ContainerInv /\ [Next]_vars => ContainerInv'
    BY ContainerStep
<1>3. ContainerInv => TypeOK /\ HistoryOffered
    BY ContainerTyped, ContainerHistory
<1>4. QED
    BY <1>1, <1>2, <1>3, PTL DEF Spec

\* The inductive invariant of a document: sound containers, what can be seen of them and
\* of the temporary files, and where the handlers of the main loop are.
THEOREM DocumentInvariant == DocumentSpec => []DocumentInv
<1>1. DocumentInit => DocumentInv
    BY DocumentStarts
<1>2. DocumentInv /\ [DocumentNext]_documentVars => DocumentInv'
    BY DocumentStep
<1>3. QED
    BY <1>1, <1>2, PTL DEF DocumentSpec

\* The types of a document's files, and that every offset a handle holds is that of a file.
THEOREM DocumentTyped == DocumentSpec => []TypeOK
<1>1. DocumentInv => TypeOK
    BY ContainerTyped DEF DocumentInv
<1>2. QED
    BY <1>1, DocumentInvariant, PTL

\* Every version ever saved to a container that opens is among those the user can choose from.
THEOREM DocumentHistory == DocumentSpec => []HistoryOffered
<1>1. DocumentInv => HistoryOffered
    BY ContainerHistory DEF DocumentInv
<1>2. QED
    BY <1>1, DocumentInvariant, PTL

\* A document that shows no unsaved changes, and is closed without asking, can be had back.
THEOREM DocumentStored == DocumentSpec => []SavedMeansStored
<1>1. DocumentInv => SavedMeansStored
    BY CleanIsStored
<1>2. QED
    BY <1>1, DocumentInvariant, PTL

-----------------------------------------------------------------------------
(***************************************************************************)
(* The files of a document keep the promises of FileStore.                 *)
(***************************************************************************)

\* What is stored in a file that is not written stays the same.
LEMMA StoredStays ==
    ASSUME NEW f \in Files, disk'[f] = disk[f]
    PROVE  Saved'[f] = Saved[f]
<1>1. Stored(f)' = Stored(f)
    BY DEF Stored, Exists
<1>2. QED
    BY <1>1 DEF Saved

\* What cannot be opened is damaged.
LEMMA StoredDamaged ==
    ASSUME NEW f \in Files, Exists(f), ~Ends(disk[f], Len(disk[f]))
    PROVE  Saved[f] = Damaged
BY DEF Saved, Stored, Opens

\* What can be opened is what is read of the version saved last.
LEMMA StoredRead ==
    ASSUME StorageInv, NEW f \in Files, Exists(f), Ends(disk[f], Len(disk[f]))
    PROVE  /\ Saved[f] = [n \in Plain |-> ZipRead(disk[f], ZipOpened(f, disk[f], Len(disk[f])), n)]
           /\ Saved[f] \in Views
           /\ Saved[f] \notin {NoFile, Damaged}
<1> DEFINE z == ZipOpened(f, disk[f], Len(disk[f]))
<1>1. Saved[f] = [n \in Plain |-> ZipRead(disk[f], z, n)]
    BY DEF Saved, Stored, Opens
<1>2. Sound(disk[f])
    BY DEF StorageInv
<1>3. Fits(z, disk[f])
    BY <1>2, OpenedFits
<1> HIDE DEF z
<1>4. \A n \in Plain : ZipRead(disk[f], z, n) \in Contents \cup {Absent}
    BY <1>2, <1>3, ReadTyped
<1>5. Saved[f] \in Views
    BY <1>1, <1>4 DEF Views
<1>6. QED
    BY <1>1, <1>5, ContainerAssumption DEF Views, z

\* What is shown, and which container is written.
ShownFacts ==
    /\ ~opened => Shown = Closed
    /\ opened => Shown \in Views /\ Shown # Closed
    /\ opened /\ saving = NoSave => Shown = View
    /\ saving \in Copy \cup Writes => Shown = saving.view /\ opened
    /\ saving = NoSave => Target = NoFile
    /\ saving \in Copy => Target = saving.file /\ Target \in Files
    /\ saving \in Writes => Target = saving.zip.file /\ Target \in Files
    /\ View \in Views

\* A document that is open shows its files, or during a save what they were.
LEMMA ShownIs == ContainerInv => ShownFacts
<1> SUFFICES ASSUME ContainerInv PROVE ShownFacts
    OBVIOUS
<1>1. View \in Views
    BY ViewTyped DEF ContainerInv, SessionInv
<1>2. saving # NoSave => saving.view \in Views
    BY DEF ContainerInv, SavingInv, Copy, Writes
<1>3. Closed \notin Views
    BY ContainerAssumption DEF Views
<1>4. saving \in Copy \cup Writes => saving # NoSave /\ opened
    BY DEF Copy, Writes, NoSave, ContainerInv, SessionInv
<1>5. saving = NoSave => Target = NoFile
    BY DEF NoSave, Target
<1>6. saving \in Copy => Target = saving.file /\ Target \in Files
    BY DEF Copy, Target
<1>7. saving \in Writes => Target = saving.zip.file /\ Target \in Files
    BY DEF Writes, Handle, Target
<1>8. QED
    BY <1>1, <1>2, <1>3, <1>4, <1>5, <1>6, <1>7 DEF ShownFacts, Shown

\* What is shown after a step.
LEMMA ShownNext == ContainerInv' => ShownFacts'
BY ShownIs, PTL

\* The view is a function of the names.
LEMMA ViewIs ==
    ASSUME NEW v \in Views, NEW w \in Views, \A n \in Plain : v[n] = w[n]
    PROVE  v = w
BY DEF Views

\* What is seen of the container is out of date as before, or not any more.
LEMMA OutdatedStays ==
    ASSUME UNCHANGED zip, zip # NoZip => \A n \in Plain : Dated(n)' <=> Dated(n),
           \A n \in Plain : n \in DOMAIN overlay' <=> n \in DOMAIN overlay
    PROVE  Outdated' = Outdated
BY DEF Outdated

\* What hides names of the container does not make it out of date.
LEMMA OutdatedLess ==
    ASSUME UNCHANGED zip, zip # NoZip => \A n \in Plain : Dated(n)' <=> Dated(n),
           \A n \in Plain : n \in DOMAIN overlay => n \in DOMAIN overlay'
    PROVE  Outdated' \in {Outdated, FALSE}
BY DEF Outdated

\* A container that is not written is out of date as before.
LEMMA DatedKept ==
    ASSUME UNCHANGED zip, zip # NoZip, disk'[zip.file] = disk[zip.file], NEW n
    PROVE  Dated(n)' <=> Dated(n)
BY DEF Dated

\* A step that leaves the files of a document alone.
LEMMA Stutters ==
    ASSUME UNCHANGED <<disk, tmps, index, based, opened, cname, zip, overlay, saving, result>>
    PROVE  UNCHANGED Store!vars
<1>1. Shown' = Shown
    BY DEF Shown, View
<1>2. Saved' = Saved
    BY DEF Saved, Stored, Exists
<1>3. BackedUp' = BackedUp /\ Target' = Target
    BY DEF BackedUp, Target
<1>4. Outdated' = Outdated
    BY DEF Outdated, Dated
<1>5. QED
    BY <1>1, <1>2, <1>3, <1>4 DEF Store!vars

\* What a step leaves alone, and what it may harm.
LEMMA KeptIs ==
    ASSUME UNCHANGED disk
    PROVE  Store!Kept
BY StoredStays DEF Store!Kept

\* A step that changes the containers it writes, and others only if they are cut off already, harms no other.
LEMMA HarmsIs ==
    ASSUME NEW T, \A f \in Files \ T : disk'[f] = disk[f] \/ (Exists(f) /\ ~Ends(disk[f], Len(disk[f])))
    PROVE  Store!OnlyHarms(T)
BY StoredStays, StoredDamaged DEF Store!OnlyHarms

\* What is backed up is a function of the index.
LEMMA BackedUpStays ==
    ASSUME UNCHANGED index
    PROVE  BackedUp' = BackedUp
BY DEF BackedUp

\* The container is opened as the version saved last.
LEMMA StoredAs ==
    ASSUME NEW f \in Files, NEW b \in Seq(Block), disk'[f] = b, Ends(b, Len(b))
    PROVE  Saved'[f] = [n \in Plain |-> ZipRead(b, ZipOpened(f, b, Len(b)), n)]
<1>1. Exists(f)'
    BY ContainerAssumption DEF Exists
<1>2. Stored(f)' = [n \in Plain |-> ZipRead(b, ZipOpened(f, b, Len(b)), n)]
    BY <1>1 DEF Stored, Opens
<1>3. QED
    BY <1>2 DEF Saved

\* A new document has no files.
LEMMA NewRefines ==
    ASSUME ContainerInv, Create
    PROVE  Store!Next
<1>1. /\ ContainerInv'
      /\ \A n \in Plain : View'[n] = Absent
      /\ UNCHANGED <<disk, index>>
      /\ saving' = NoSave /\ opened' /\ ~opened
    BY CreateStep
<1>2. ShownFacts /\ ShownFacts'
    BY <1>1, ShownIs, ShownNext
<1>3. Shown = Closed /\ Shown' = View' /\ Target' = NoFile
    BY <1>1, <1>2 DEF ShownFacts
<1>4. View' = [n \in Plain |-> Absent]
    <2>1. View' = [n \in Plain |-> View'[n]]
        BY DEF View
    <2>2. QED
        BY <1>1, <2>1
<1>5. Store!Kept /\ BackedUp' = BackedUp
    BY <1>1, KeptIs, BackedUpStays
<1>6. Store!OpenNew
    BY <1>3, <1>4, <1>5 DEF Store!OpenNew, Store!Open, Store!Nothing
<1>7. QED
    BY <1>6 DEF Store!Next

\* A container that is opened shows what is stored, or an earlier version of it.
LEMMA OpenRefines ==
    ASSUME ContainerInv, NEW f \in Files, Open(f) \/ OpenEarlier(f)
    PROVE  Store!Next
<1>1. PICK k : OpenFromHistory(f, k) /\ Ends(disk[f], Len(disk[f]))
    <2>1. CASE Open(f)
        BY <2>1 DEF Open, OpenFromHistory, Opens
    <2>2. CASE OpenEarlier(f)
        BY <2>2, EarlierOpens
    <2>3. QED
        BY <2>1, <2>2
<1> DEFINE b == disk[f]
<1>2. /\ ContainerInv'
      /\ zip' = ZipOpened(f, b, k)
      /\ \A n \in Plain : View'[n] = ZipRead(b, ZipOpened(f, b, k), n)
      /\ UNCHANGED <<disk, index>>
      /\ Exists(f) /\ saving' = NoSave /\ opened' /\ ~opened
      /\ overlay' = <<>> /\ zip' # NoZip
    BY <1>1, OpenStep
<1>3. ShownFacts /\ ShownFacts'
    BY <1>2, ShownIs, ShownNext
<1>4. Shown = Closed /\ Shown' = View' /\ Shown' \in Views /\ Shown' # Closed /\ Target' = NoFile
    BY <1>2, <1>3 DEF ShownFacts
<1>5. Store!Kept /\ BackedUp' = BackedUp
    BY <1>2, KeptIs, BackedUpStays
<1>6. /\ Saved[f] = [n \in Plain |-> ZipRead(b, ZipOpened(f, b, Len(b)), n)]
      /\ Saved[f] \in Views
      /\ Saved[f] \notin {NoFile, Damaged}
    BY <1>1, <1>2, StoredRead DEF ContainerInv
<1>7. ~Outdated' => Shown' = Saved[f]
    <2> SUFFICES ASSUME ~Outdated', NEW n \in Plain PROVE View'[n] = Saved[f][n]
        BY <1>4, <1>6, ViewIs
    <2>1. ~Dated(n)'
        BY <1>2 DEF Outdated
    <2>2. zip'.file = f /\ zip'.prev = Len(b)
        BY <1>2 DEF ZipOpened
    <2>3. ZipRead(b, zip', n) = ZipRead(b, ZipOpened(f, b, Len(b)), n)
        BY <1>2, <2>1, <2>2 DEF Dated
    <2>4. QED
        BY <1>2, <1>6, <2>3
<1>8. Store!OpenStored
    BY <1>4, <1>5, <1>6, <1>7 DEF Store!OpenStored, Store!Open
<1>9. QED
    BY <1>8 DEF Store!Next

\* One file is changed.
LEMMA ChangeRefines ==
    ASSUME ContainerInv, ContainerInv', opened, opened', saving = NoSave, saving' = NoSave,
           UNCHANGED <<disk, index, zip, result>>,
           NEW n \in Plain, View'[n] \in Contents \cup {Absent},
           \A m \in Plain \ {n} : View'[m] = View[m],
           \A m \in Plain : m \in DOMAIN overlay => m \in DOMAIN overlay'
    PROVE  Store!Next
<1>1. ShownFacts /\ ShownFacts'
    BY ShownIs, ShownNext
<1>2. /\ Shown = View /\ Shown # Closed /\ Target = NoFile
      /\ Shown' = View' /\ Shown' # Closed /\ Target' = NoFile
    BY <1>1 DEF ShownFacts
<1>3. Store!Kept /\ BackedUp' = BackedUp
    BY KeptIs, BackedUpStays
<1>4. Outdated' \in {Outdated, FALSE}
    BY DatedKept, OutdatedLess
<1>5. Store!Change
    BY <1>2, <1>3, <1>4 DEF Store!Change, Store!Quiet, Store!Open
<1>6. QED
    BY <1>5 DEF Store!Next

\* Writing a file changes what is seen of that file.
LEMMA WriteRefines ==
    ASSUME ContainerInv, NEW n \in Plain, NEW c \in Contents, FileWrite(n, c)
    PROVE  Store!Next
<1>1. /\ ContainerInv'
      /\ View'[n] = c
      /\ \A m \in Plain \ {n} : View'[m] = View[m]
      /\ \A m \in Plain : m \in DOMAIN overlay' <=> m \in DOMAIN overlay \/ m = n
      /\ UNCHANGED <<disk, index, zip, opened, saving, result>>
      /\ opened /\ saving = NoSave
    BY FileWriteStep
<1>2. QED
    BY <1>1, ChangeRefines

\* Removing a file changes what is seen of that file.
LEMMA RemoveRefines ==
    ASSUME ContainerInv, NEW n \in Plain, FileRemove(n)
    PROVE  Store!Next
<1>1. /\ ContainerInv'
      /\ View'[n] = Absent
      /\ \A m \in Plain \ {n} : View'[m] = View[m]
      /\ \A m \in Plain : m \in DOMAIN overlay' <=> m \in DOMAIN overlay \/ m = n
      /\ UNCHANGED <<disk, index, zip, opened, saving, result>>
      /\ opened /\ saving = NoSave
    BY FileRemoveStep
<1>2. QED
    BY <1>1, ChangeRefines

\* A directory is nothing that can be read.
LEMMA DirectoryRefines ==
    ASSUME ContainerInv, NEW d \in Dirs, DirectoryCreate(d)
    PROVE  UNCHANGED Store!vars
<1>1. /\ ContainerInv'
      /\ \A n \in Plain : View'[n] = View[n]
      /\ \A n \in Plain : n \in DOMAIN overlay' <=> n \in DOMAIN overlay
      /\ UNCHANGED <<disk, tmps, index, zip, opened, saving, result>>
      /\ opened /\ saving = NoSave
    BY DirectoryCreateStep
<1>2. ShownFacts /\ ShownFacts'
    BY <1>1, ShownIs, ShownNext
<1>3. Shown' = Shown /\ Target' = Target
    <2>1. View' = View
        BY <1>1, <1>2, ViewIs DEF ShownFacts
    <2>2. QED
        BY <1>1, <1>2, <2>1 DEF ShownFacts
<1>4. Saved' = Saved
    BY <1>1 DEF Saved, Stored, Exists
<1>5. BackedUp' = BackedUp /\ Outdated' = Outdated
    BY <1>1, BackedUpStays, DatedKept, OutdatedStays
<1>6. QED
    BY <1>1, <1>3, <1>4, <1>5 DEF Store!vars

\* A backup has the view, or nothing.
LEMMA BackupRefines ==
    ASSUME ContainerInv, SaveTemporary \/ SaveTemporaryFails
    PROVE  Store!Next
<1>1. PICK i \in {BrokenIndex, IndexOf(cname, overlay, View)} : WriteIndex(i)
    BY DEF SaveTemporary, SaveTemporaryFails
<1>2. /\ ContainerInv'
      /\ \A n \in Plain : View'[n] = View[n]
      /\ index' = i
      /\ UNCHANGED <<disk, zip, overlay, opened, saving, result>>
      /\ opened /\ saving = NoSave
    BY <1>1, WriteIndexStep
<1>3. ShownFacts /\ ShownFacts'
    BY <1>2, ShownIs, ShownNext
<1>4. /\ Shown = View /\ Shown # Closed /\ Target = NoFile
      /\ Shown' = Shown /\ Target' = Target
    <2>1. View' = View
        BY <1>2, <1>3, ViewIs DEF ShownFacts
    <2>2. QED
        BY <1>2, <1>3, <2>1 DEF ShownFacts
<1>5. BackedUp' \in {Shown, Closed}
    BY <1>2, <1>4 DEF BackedUp, BrokenIndex, IndexOf
<1>6. Store!Kept /\ Outdated' = Outdated
    BY <1>2, KeptIs, DatedKept, OutdatedStays
<1>7. Store!Backup
    BY <1>2, <1>4, <1>5, <1>6 DEF Store!Backup, Store!Quiet, Store!Open
<1>8. QED
    BY <1>7 DEF Store!Next

\* A save begins: it may harm the container it is to write.
LEMMA BeginRefines ==
    ASSUME ContainerInv, SaveAtPlace \/ \E f \in Files : SaveCopy(f) \/ SaveNew(f)
    PROVE  Store!Next
<1>1. \E f \in Files :
         /\ ContainerInv'
         /\ saving'.view = View /\ saving' \in Copy \cup Writes
         /\ Target' = f
         /\ \A g \in Files \ {f} : disk'[g] = disk[g]
         /\ zip # NoZip => disk'[zip.file] = disk[zip.file]
         /\ UNCHANGED <<index, zip, overlay, opened, result>>
         /\ opened /\ saving = NoSave
    <2>1. CASE SaveAtPlace
        <3>1. /\ ContainerInv'
              /\ saving'.view = View /\ saving'.zip.file = cname /\ saving' \in Writes
              /\ UNCHANGED <<disk, index, zip, overlay, opened, result>>
              /\ opened /\ saving = NoSave /\ cname \in Files
            BY <2>1, SaveAtPlaceStep
        <3>2. Target' = cname
            BY <3>1, ShownNext DEF ShownFacts
        <3>3. QED
            BY <3>1, <3>2
    <2>2. ASSUME NEW f \in Files, SaveCopy(f)
          PROVE  \E g \in {f} :
                    /\ ContainerInv'
                    /\ saving'.view = View /\ saving' \in Copy \cup Writes
                    /\ Target' = f
                    /\ \A h \in Files \ {f} : disk'[h] = disk[h]
                    /\ zip # NoZip => disk'[zip.file] = disk[zip.file]
                    /\ UNCHANGED <<index, zip, overlay, opened, result>>
                    /\ opened /\ saving = NoSave
        <3>1. /\ ContainerInv'
              /\ saving' \in Copy
              /\ saving'.view = View /\ saving'.file = f
              /\ \A g \in Files \ {f} : disk'[g] = disk[g]
              /\ UNCHANGED <<index, zip, overlay, opened, result>>
              /\ opened /\ saving = NoSave /\ f # cname
            BY <2>2, SaveCopyStep
        <3>2. Target' = f
            BY <3>1, ShownNext DEF ShownFacts
        <3>3. zip # NoZip => disk'[zip.file] = disk[zip.file]
            BY <3>1 DEF ContainerInv, SessionInv, ZipInv
        <3>4. QED
            BY <3>1, <3>2, <3>3
    <2>3. ASSUME NEW f \in Files, SaveNew(f)
          PROVE  \E g \in {f} :
                    /\ ContainerInv'
                    /\ saving'.view = View /\ saving' \in Copy \cup Writes
                    /\ Target' = f
                    /\ \A h \in Files \ {f} : disk'[h] = disk[h]
                    /\ zip # NoZip => disk'[zip.file] = disk[zip.file]
                    /\ UNCHANGED <<index, zip, overlay, opened, result>>
                    /\ opened /\ saving = NoSave
        <3>1. /\ ContainerInv'
              /\ saving' \in Writes
              /\ saving'.view = View /\ saving'.zip.file = f
              /\ \A g \in Files \ {f} : disk'[g] = disk[g]
              /\ UNCHANGED <<index, zip, overlay, opened, result>>
              /\ opened /\ saving = NoSave /\ zip = NoZip
            BY <2>3, SaveNewStep
        <3>2. Target' = f
            BY <3>1, ShownNext DEF ShownFacts
        <3>3. QED
            BY <3>1, <3>2
    <2>4. QED
        BY <2>1, <2>2, <2>3
<1>2. PICK f \in Files :
         /\ ContainerInv'
         /\ saving'.view = View /\ saving' \in Copy \cup Writes
         /\ Target' = f
         /\ \A g \in Files \ {f} : disk'[g] = disk[g]
         /\ zip # NoZip => disk'[zip.file] = disk[zip.file]
         /\ UNCHANGED <<index, zip, overlay, opened, result>>
         /\ opened /\ saving = NoSave
    BY <1>1
<1>3. ShownFacts /\ ShownFacts'
    BY <1>2, ShownIs, ShownNext
<1>4. Shown = View /\ Shown # Closed /\ Target = NoFile /\ Shown' = Shown
    BY <1>2, <1>3 DEF ShownFacts
<1>5. Store!OnlyHarms({f})
    BY <1>2, HarmsIs
<1>6. BackedUp' = BackedUp /\ Outdated' = Outdated
    BY <1>2, BackedUpStays, DatedKept, OutdatedStays
<1>7. Store!OnlyHarms({Target'})
    BY <1>2, <1>5
<1>8. Store!BeginSave
    BY <1>2, <1>4, <1>6, <1>7 DEF Store!BeginSave, Store!Quiet, Store!Open
<1>9. QED
    BY <1>8 DEF Store!Next

\* A save goes on: it may harm the container it writes.
LEMMA GoesOnRefines ==
    ASSUME ContainerInv, CopyContainer \/ \E n \in Plain : SaveFile(n) \/ SaveFileBreaksOff(n) \/ SaveFileFails(n)
    PROVE  Store!Next
<1>1. /\ ContainerInv'
      /\ saving \in Copy \cup Writes /\ saving' \in Writes
      /\ saving'.view = saving.view
      /\ Target' = Target
      /\ \A g \in Files \ {Target} : disk'[g] = disk[g]
      /\ UNCHANGED <<index, zip, overlay, opened, result>>
      /\ zip # NoZip => \A m \in Plain : Dated(m)' <=> Dated(m)
    <2>1. CASE CopyContainer
        <3>1. /\ ContainerInv'
              /\ saving \in Copy /\ saving' \in Writes
              /\ saving'.view = saving.view /\ saving'.zip.file = saving.file
              /\ \A g \in Files \ {saving.file} : disk'[g] = disk[g]
              /\ UNCHANGED <<index, zip, overlay, opened, result>>
            BY <2>1, CopyContainerStep
        <3>2. Target = saving.file /\ Target' = saving'.zip.file
            BY <3>1, ShownIs, ShownNext DEF ShownFacts
        <3>3. zip # NoZip => disk'[zip.file] = disk[zip.file]
            <4>1. saving.file # zip.file
                BY <2>1, CopyKnown DEF CopyContainer
            <4>2. QED
                BY <3>1, <4>1 DEF ContainerInv, ZipInv
        <3>4. zip # NoZip => \A m \in Plain : Dated(m)' <=> Dated(m)
            BY <3>1, <3>3, DatedKept
        <3>5. QED
            BY <3>1, <3>2, <3>4
    <2>2. ASSUME NEW n \in Plain, SaveFile(n) \/ SaveFileBreaksOff(n) \/ SaveFileFails(n)
          PROVE  /\ ContainerInv'
                 /\ saving \in Writes /\ saving' \in Writes
                 /\ saving'.view = saving.view /\ saving'.zip.file = saving.zip.file
                 /\ \A g \in Files \ {saving.zip.file} : disk'[g] = disk[g]
                 /\ UNCHANGED <<index, zip, overlay, opened, result>>
                 /\ zip # NoZip => \A m \in Plain : Dated(m)' <=> Dated(m)
        <3>1. CASE SaveFile(n)
            BY <3>1, SaveFileStep
        <3>2. CASE SaveFileBreaksOff(n)
            BY <3>2, SaveFileBreaksOffStep
        <3>3. CASE SaveFileFails(n)
            BY <3>3, SaveFileFailsStep, DatedKept
        <3>4. QED
            BY <2>2, <3>1, <3>2, <3>3
    <2>3. ASSUME NEW n \in Plain, SaveFile(n) \/ SaveFileBreaksOff(n) \/ SaveFileFails(n)
          PROVE  Target' = Target /\ Target = saving.zip.file
        BY <2>2, <2>3, ShownIs, ShownNext DEF ShownFacts
    <2>4. QED
        BY <2>1, <2>2, <2>3
<1>2. ShownFacts /\ ShownFacts'
    BY <1>1, ShownIs, ShownNext
<1>3. Shown # Closed /\ Shown' = Shown /\ Target \in Files
    BY <1>1, <1>2 DEF ShownFacts
<1>4. Store!OnlyHarms({Target}) /\ BackedUp' = BackedUp /\ Outdated' = Outdated
    BY <1>1, HarmsIs, BackedUpStays, OutdatedStays
<1>5. Store!Write
    BY <1>1, <1>3, <1>4 DEF Store!Write, Store!Open
<1>6. QED
    BY <1>5 DEF Store!Next

\* A save that returns without success: what is seen is what was seen, or lost.
LEMMA FailRefines ==
    ASSUME ContainerInv, ContainerInv', saving \in Copy \cup Writes, saving' = NoSave, opened', ~result',
           \A n \in Plain : View'[n] \in {saving.view[n], Lost},
           \A g \in Files \ {Target} : disk'[g] = disk[g] \/ (Exists(g) /\ ~Ends(disk[g], Len(disk[g]))),
           UNCHANGED index
    PROVE  Store!Next
<1>1. ShownFacts /\ ShownFacts'
    BY ShownIs, ShownNext
<1>2. /\ Shown # Closed /\ Target \in Files /\ Shown = saving.view
      /\ Shown' = View' /\ Shown' # Closed /\ Target' = NoFile
    BY <1>1 DEF ShownFacts
<1>3. Store!OnlyHarms({Target}) /\ BackedUp' = BackedUp
    BY HarmsIs, BackedUpStays
<1>4. Store!SaveFailed
    BY <1>2, <1>3 DEF Store!SaveFailed, Store!Open
<1>5. QED
    BY <1>4 DEF Store!Next

\* A copy that fails is a save that fails.
LEMMA CopyFailsRefines ==
    ASSUME ContainerInv, CopyContainerFails
    PROVE  Store!Next
<1>1. /\ ContainerInv'
      /\ \A n \in Plain : View'[n] = View[n]
      /\ saving \in Copy /\ saving' = NoSave
      /\ \A g \in Files \ {saving.file} : disk'[g] = disk[g]
      /\ UNCHANGED <<index, opened>>
      /\ ~result'
    BY CopyContainerFailsStep
<1>2. saving.view = View /\ opened
    BY CopyKnown DEF CopyContainerFails
<1>3. Target = saving.file
    BY <1>1, ShownIs DEF ShownFacts
<1>4. QED
    BY <1>1, <1>2, <1>3, FailRefines

\* A directory that could not be written makes the save fail.
LEMMA DirectoryFailsRefines ==
    ASSUME ContainerInv, SaveDirectoryFails
    PROVE  Store!Next
<1>1. /\ ContainerInv'
      /\ saving \in Writes /\ saving' = NoSave
      /\ ~result'
      /\ \A g \in Files \ {saving.zip.file} : disk'[g] = disk[g]
      /\ \A n \in Plain : View'[n] = View[n]
      /\ UNCHANGED <<index, opened>>
      /\ opened
    BY SaveDirectoryFailsStep
<1>2. \A n \in Plain : View[n] \in {saving.view[n], Lost}
    BY <1>1 DEF ContainerInv, ViewInv, Tracked
<1>3. Target = saving.zip.file
    BY <1>1, ShownIs DEF ShownFacts
<1>4. QED
    BY <1>1, <1>2, <1>3, FailRefines

\* A save that reports success has stored the view, and left it alone unless it was an
\* earlier version of the container.
LEMMA DirectoryWriteRefines ==
    ASSUME DocumentInv, SaveDirectory
    PROVE  Store!Next
<1> DEFINE z == saving.zip
           f == z.file
           b == disk[f]
           c == ZipSaved(z, b)
<1>1. ContainerInv /\ saving.step = "files"
    BY DEF DocumentInv, SaveDirectory, AllTried
<1>2. /\ ContainerInv'
      /\ saving \in Writes /\ saving' = NoSave
      /\ result' <=> saving.left = <<>>
      /\ disk'[f] = c
      /\ \A g \in Files \ {f} : disk'[g] = disk[g] \/ (Exists(g) /\ ~Ends(disk[g], Len(disk[g])))
      /\ Settled => \A n \in Plain : View'[n] = IF n \in DOMAIN saving.left THEN View[n] ELSE ZipRead(b, z, n)
      /\ ~Settled => \A n \in Plain : View'[n] = View[n]
      /\ UNCHANGED <<index, opened>>
      /\ opened
    BY <1>1, SaveDirectoryStep
<1>3. /\ Fits(z, b) /\ Sound(b) /\ f \in Files
      /\ \A n \in Plain : Tracked(n)
    BY <1>1, WritesKnown
<1>4. ShownFacts /\ ShownFacts'
    BY <1>1, <1>2, ShownIs, ShownNext
<1>5. /\ Shown # Closed /\ Shown \in Views /\ Target = f /\ Target \in Files /\ Shown = saving.view
      /\ Shown' = View' /\ Shown' # Closed /\ Shown' \in Views /\ Target' = NoFile
    BY <1>2, <1>4 DEF ShownFacts
<1>6. Store!OnlyHarms({Target}) /\ BackedUp' = BackedUp
    BY <1>2, <1>5, HarmsIs, BackedUpStays
<1>7. CASE saving.left = <<>>
    <2>1. Settled /\ DOMAIN saving.left = {}
        BY <1>7 DEF Settled
    <2>2. z.changed
        BY <1>2, <2>1, ClaimedIsWritten
    <2>3. c = Append(b, EndBlock(z.files, z.prev)) /\ Agree(b, c, Len(b)) /\ Sound(c)
        BY <1>3, <2>2, SavedFits DEF ZipSaved
    <2>4. /\ Len(c) = Len(b) + 1 /\ Len(b) \in Nat
          /\ c[Len(b) + 1] = EndBlock(z.files, z.prev)
        BY <1>3, <2>3, Appended DEF Sound
    <2> HIDE DEF c
    <2>5. Ends(c, Len(c)) /\ c[Len(c)].files = z.files /\ c \in Seq(Block)
        BY <2>3, <2>4 DEF Ends, EndBlock, Sound
    <2>6. Saved'[f] = [n \in Plain |-> ZipRead(c, ZipOpened(f, c, Len(c)), n)]
        BY <1>2, <1>3, <2>5, StoredAs
    <2>7. ASSUME NEW n \in Plain
          PROVE  /\ ZipRead(c, ZipOpened(f, c, Len(c)), n) = ZipRead(b, z, n)
                 /\ View'[n] = ZipRead(b, z, n)
        <3>1. ZipRead(c, ZipOpened(f, c, Len(c)), n) = ZipRead(c, z, n)
            BY <2>5 DEF ZipRead, ZipIsFile, ZipOpened
        <3>2. ZipRead(c, z, n) = ZipRead(b, z, n)
            BY <1>3, <2>3, ReadStays
        <3>3. View'[n] = ZipRead(b, z, n)
            BY <1>2, <2>1
        <3>4. QED
            BY <3>1, <3>2, <3>3
    <2>8. Saved'[f] = Shown'
        <3>1. Shown' = [n \in Plain |-> View'[n]]
            BY <1>5 DEF Views
        <3>2. QED
            BY <2>6, <2>7, <3>1
    <2>9. Shown' = Shown \/ Outdated
        <3> SUFFICES ASSUME ~Outdated, NEW n \in Plain PROVE View'[n] = saving.view[n]
            BY <1>5, ViewIs
        <3>1. Tracked(n) /\ n \notin DOMAIN saving.left
            BY <1>3, <2>1
        <3>2. ZipRead(b, z, n) = saving.view[n] \/ (n \notin DOMAIN overlay /\ zip # NoZip /\ Dated(n))
            BY <3>1 DEF Tracked
        <3>3. ZipRead(b, z, n) = saving.view[n]
            BY <3>2 DEF Outdated
        <3>4. QED
            BY <2>7, <3>3
    <2>10. result'
        BY <1>2, <1>7
    <2>11. Store!SaveDone
        BY <1>5, <1>6, <2>8, <2>9, <2>10 DEF Store!SaveDone, Store!Open
    <2>12. QED
        BY <2>11 DEF Store!Next
<1>8. CASE saving.left # <<>>
    <2>1. ASSUME NEW n \in Plain PROVE View'[n] \in {saving.view[n], Lost}
        <3>1. Tracked(n)
            BY <1>3
        <3>2. CASE Settled
            <4>1. saving.at_place
                BY <1>8, <3>2 DEF Settled
            <4>2. n \notin DOMAIN saving.left => ZipRead(b, z, n) = saving.view[n]
                BY <3>1, <4>1 DEF Tracked
            <4>3. n \in DOMAIN saving.left => View[n] = saving.view[n]
                BY <3>1 DEF Tracked
            <4>4. QED
                BY <1>2, <3>2, <4>2, <4>3
        <3>3. CASE ~Settled
            BY <1>2, <3>1, <3>3 DEF Tracked
        <3>4. QED
            BY <3>2, <3>3
    <2>2. ~result' /\ opened'
        BY <1>2, <1>8
    <2>3. QED
        BY <1>1, <1>2, <1>5, <2>1, <2>2, FailRefines
<1>9. QED
    BY <1>7, <1>8

\* A session that ends, of its own accord or not, harms at most what it was writing.
LEMMA CloseRefines ==
    ASSUME ContainerInv, Close
    PROVE  Store!Next
<1>1. /\ ContainerInv'
      /\ ~opened' /\ saving' = NoSave
      /\ \A g \in Files : disk'[g] = disk[g] \/ (Exists(g) /\ ~Ends(disk[g], Len(disk[g])))
      /\ index' \in {index, NoIndex}
      /\ result' = result
      /\ opened /\ saving = NoSave
    BY CloseStep
<1>2. ShownFacts /\ ShownFacts'
    BY <1>1, ShownIs, ShownNext
<1>3. Shown # Closed /\ Shown' = Closed /\ Target' = NoFile
    BY <1>1, <1>2 DEF ShownFacts
<1>4. Store!OnlyHarms({Target})
    BY <1>1, HarmsIs
<1>5. BackedUp' \in {BackedUp, Closed}
    BY <1>1 DEF BackedUp, NoIndex
<1>6. Store!Stop
    BY <1>1, <1>3, <1>4, <1>5 DEF Store!Stop, Store!Open
<1>7. QED
    BY <1>6 DEF Store!Next

\* A death of the program harms the container being written, and no other.
LEMMA CrashRefines ==
    ASSUME ContainerInv, Crash
    PROVE  Store!Next
<1>1. /\ ContainerInv'
      /\ ~opened' /\ saving' = NoSave
      /\ \A g \in Files : \/ disk'[g] = disk[g]
                          \/ saving \in Copy /\ g = saving.file
                          \/ saving \in Writes /\ g = saving.zip.file
      /\ UNCHANGED <<index, result>>
      /\ opened
    BY CrashStep
<1>2. ShownFacts /\ ShownFacts'
    BY <1>1, ShownIs, ShownNext
<1>3. Shown # Closed /\ Shown' = Closed /\ Target' = NoFile
    BY <1>1, <1>2 DEF ShownFacts
<1>4. \A g \in Files \ {Target} : disk'[g] = disk[g]
    BY <1>1, <1>2 DEF ShownFacts
<1>5. Store!OnlyHarms({Target}) /\ BackedUp' = BackedUp
    BY <1>1, <1>4, HarmsIs, BackedUpStays
<1>6. Store!Stop
    BY <1>1, <1>3, <1>5 DEF Store!Stop, Store!Open
<1>7. QED
    BY <1>6 DEF Store!Next

\* Recovery makes nothing up.
LEMMA RecoverRefines ==
    ASSUME ContainerInv, OpenTemporary
    PROVE  Store!Next
<1> DEFINE f == index.cname
           Sources(n) == {Saved[g][n] : g \in {h \in Files : Saved[h] \notin {NoFile, Damaged}}}
<1>1. /\ ContainerInv'
      /\ UNCHANGED <<disk, index>>
      /\ opened' /\ ~opened /\ saving' = NoSave
      /\ index.kind = "index"
      /\ \A n \in Plain :
           \/ View'[n] \in {index.view[n], Lost}
           \/ /\ f \in Files /\ Exists(f)
              /\ Opens(disk[f], Len(disk[f]))
              /\ View'[n] = ZipRead(disk[f], ZipOpened(f, disk[f], Len(disk[f])), n)
    BY OpenTemporaryStep
<1>2. ShownFacts /\ ShownFacts' /\ saving = NoSave
    BY <1>1, ShownIs, ShownNext DEF ContainerInv, SessionInv
<1>3. Shown = Closed /\ Shown' = View' /\ Shown' # Closed /\ Target = NoFile /\ Target' = NoFile
    BY <1>1, <1>2 DEF ShownFacts
<1>4. BackedUp = index.view /\ BackedUp' = BackedUp /\ BackedUp # Closed
    <2>1. index.view \in Views
        BY <1>1, IndexKnown DEF ContainerInv
    <2>2. Closed \notin Views
        BY ContainerAssumption DEF Views
    <2>3. QED
        BY <1>1, <2>1, <2>2 DEF BackedUp
<1>5. ASSUME NEW n \in Plain
      PROVE  View'[n] \in {BackedUp[n], Lost} \cup Sources(n)
    <2>1. CASE View'[n] \in {index.view[n], Lost}
        BY <1>4, <2>1
    <2>2. CASE /\ f \in Files /\ Exists(f)
               /\ Opens(disk[f], Len(disk[f]))
               /\ View'[n] = ZipRead(disk[f], ZipOpened(f, disk[f], Len(disk[f])), n)
        <3>1. /\ Saved[f] = [m \in Plain |-> ZipRead(disk[f], ZipOpened(f, disk[f], Len(disk[f])), m)]
              /\ Saved[f] \notin {NoFile, Damaged}
            BY <2>2, StoredRead DEF ContainerInv, Opens
        <3>2. View'[n] = Saved[f][n]
            BY <2>2, <3>1
        <3>3. QED
            BY <2>2, <3>1, <3>2
    <2>3. QED
        BY <1>1, <2>1, <2>2
<1>6. Store!Kept
    BY <1>1, KeptIs
<1>7. Store!Recover
    BY <1>3, <1>4, <1>5, <1>6 DEF Store!Recover, Store!Open
<1>8. QED
    BY <1>7 DEF Store!Next

\* A backup that is thrown away is no longer there.
LEMMA DiscardRefines ==
    ASSUME ContainerInv, ~opened, index' = NoIndex, UNCHANGED <<disk, session, saving, result>>
    PROVE  Store!Next
<1>1. UNCHANGED <<opened, zip, overlay>> /\ zip = NoZip
    BY DEF session, ContainerInv, SessionInv
<1>2. Shown = Closed /\ Shown' = Closed /\ Target' = Target
    BY <1>1 DEF Shown, Target
<1>3. BackedUp' = Closed
    BY DEF BackedUp, NoIndex
<1>4. Outdated' = Outdated
    BY <1>1, OutdatedStays
<1>5. Store!Kept
    BY KeptIs
<1>6. Store!Discard
    BY <1>2, <1>3, <1>4, <1>5 DEF Store!Discard, Store!Open
<1>7. QED
    BY <1>6 DEF Store!Next

\* What the program does with a document is what FileStore allows.
LEMMA StepRefines == DocumentInv /\ [DocumentNext]_documentVars => [Store!Next]_(Store!vars)
<1> SUFFICES ASSUME DocumentInv, [DocumentNext]_documentVars
             PROVE  Store!Next \/ UNCHANGED Store!vars
    OBVIOUS
<1>1. ContainerInv
    BY DEF DocumentInv
<1>2. CASE NewDocument
    BY <1>1, <1>2, NewRefines DEF NewDocument
<1>3. CASE OpenDocument
    BY <1>1, <1>3, OpenRefines DEF OpenDocument
<1>4. CASE \/ EditCanvas \/ (\E n \in Pictures : Paint(n) \/ UndoPaint(n))
           \/ (\E f \in Files : SaveAs(f)) \/ AutoBackup \/ Quit
    BY <1>4, Stutters DEF EditCanvas, Paint, UndoPaint, SaveAs, AutoBackup, Quit, vars, storage, session
<1>5. CASE EditPicture
    <2>1. \A n \in Pictures : n \in Plain
        BY DEF Pictures
    <2>2. QED
        BY <1>1, <1>5, <2>1, WriteRefines, RemoveRefines, DirectoryRefines DEF EditPicture
<1>6. CASE (\E n \in Pictures : SavePicture(n)) \/ SaveCanvas \/ BackupCanvas
    <2>1. canvas \in Contents /\ Torn \in Contents
        BY HandlerKinds DEF Contents
    <2>2. ASSUME NEW n \in Pictures, SavePicture(n)
          PROVE  UNCHANGED vars \/ \E m \in Plain, c \in Contents : FileWrite(m, c)
        <3>1. n \in Registered
            BY <2>2, HandlerKinds DEF SavePicture, SaveHandlers
        <3>2. Painted(n) \in Contents /\ n \in Plain
            BY <3>1, MeantTyped DEF Held, Meant, Pictures
        <3>3. QED
            BY <2>1, <2>2, <3>2 DEF SavePicture
    <2>3. UNCHANGED vars \/ \E m \in Plain, c \in Contents : FileWrite(m, c)
        BY <1>6, <2>1, <2>2, ProjectAssumption DEF SaveCanvas, BackupCanvas
    <2>4. QED
        BY <1>1, <2>3, WriteRefines, Stutters DEF vars
<1>7. CASE SaveContainer
    <2>1. handler.file \in Files
        BY <1>7, HandlerKinds DEF SaveContainer, SaveHandlers
    <2>2. SaveAtPlace \/ \E f \in Files : SaveCopy(f) \/ SaveNew(f)
        BY <1>7, <2>1 DEF SaveContainer
    <2>3. QED
        BY <1>1, <2>2, BeginRefines
<1>8. CASE ContinueSave
    <2>1. \/ CopyContainer \/ \E n \in Plain : SaveFile(n) \/ SaveFileBreaksOff(n) \/ SaveFileFails(n)
          \/ CopyContainerFails
          \/ SaveDirectory
          \/ SaveDirectoryFails
        BY <1>8 DEF ContinueSave
    <2>2. QED
        BY <1>1, <2>1, GoesOnRefines, CopyFailsRefines, DirectoryWriteRefines, DirectoryFailsRefines
<1>9. CASE BackupContainer
    BY <1>1, <1>9, BackupRefines DEF BackupContainer
<1>10. CASE CloseDocument
    BY <1>1, <1>10, CloseRefines DEF CloseDocument
<1>11. CASE CrashProgram
    BY <1>1, <1>11, CrashRefines DEF CrashProgram
<1>12. CASE Recover
    BY <1>1, <1>12, RecoverRefines DEF Recover
<1>13. CASE RecoverFails
    <2>1. started /\ index' = NoIndex /\ UNCHANGED <<disk, session, saving, result>>
        BY <1>13 DEF RecoverFails
    <2>2. ~opened
        BY <2>1, HandlerKinds
    <2>3. QED
        BY <1>1, <2>1, <2>2, DiscardRefines
<1>14. CASE UNCHANGED documentVars
    BY <1>14, Stutters DEF documentVars, vars
<1>15. QED
    BY <1>2, <1>3, <1>4, <1>5, <1>6, <1>7, <1>8, <1>9, <1>10, <1>11, <1>12, <1>13, <1>14 DEF DocumentNext

\* A document with nothing stored, nothing open and nothing backed up is what FileStore begins with.
LEMMA StartRefines == DocumentInit => Store!Init
<1> SUFFICES ASSUME DocumentInit PROVE Store!Init
    OBVIOUS
<1>1. /\ disk = [f \in Files |-> NoFile] /\ index = NoIndex /\ opened = FALSE
      /\ zip = NoZip /\ saving = NoSave /\ result = TRUE
    BY DEF DocumentInit, Init
<1>2. Shown = Closed /\ BackedUp = Closed /\ Target = NoFile
    BY <1>1 DEF Shown, BackedUp, Target, NoIndex, NoSave
<1>3. Saved = [f \in Files |-> NoFile]
    BY <1>1 DEF Saved, Stored, Exists
<1>4. Outdated = FALSE
    BY <1>1 DEF Outdated
<1>5. QED
    BY <1>1, <1>2, <1>3, <1>4 DEF Store!Init

\* The files of a document keep the promises of FileStore, whatever fails and whenever the
\* program dies: a save that reports success has stored what was seen, no container but the
\* one that is written is harmed, and recovery makes nothing up.
THEOREM DocumentImplementsFileStore == DocumentSpec => ImplementsFileStore
<1>1. DocumentInit => Store!Init
    BY StartRefines
<1>2. DocumentInv /\ [DocumentNext]_documentVars => [Store!Next]_(Store!vars)
    BY StepRefines
<1>3. QED
    BY <1>1, <1>2, DocumentInvariant, PTL DEF DocumentSpec, ImplementsFileStore, Store!Spec

===============================================================================
