------------------------------ MODULE FilesProofs ------------------------------
(***************************************************************************)
(* The theorems about the files of a vault.  TrashBin: whatever fails or   *)
(* is cut off, nothing that was stored is lost, and what is not cut off    *)
(* leaves every note with its images where it was or where it was to go.   *)
(* LinkedMove: a move that was answered as done took every link along; one *)
(* answered with an error is undone, or, where the code rolls nothing      *)
(* back, the note is moved and no other is touched.  For any places,       *)
(* entries, folders, notes and images and any number of operations and     *)
(* faults.                                                                 *)
(***************************************************************************)
EXTENDS TrashBin, LinkedMove, TLAPS

-----------------------------------------------------------------------------
(* What NothingIsLost rests on. *)
\* The values of the variables.
TrashTypes ==
  /\ doc \in [Spot -> Doc \cup {NoDoc}] /\ dirs \subseteq Spot /\ pics \in [Spot -> SUBSET Picture]
  /\ bin \in [Entry -> [name : {"none", "pending", "final"}, meta : Place \cup {NoPlace}, room : BOOLEAN]]
  /\ owner \in [Picture -> Doc \cup {NoDoc}] /\ made \subseteq Doc
  /\ \/ upload = NoUploading
     \/ upload \in [at : {"resolved", "made"}, place : Place, doc : Doc, picture : Picture]

WorkShape ==
  work \in [op : {"none", "trash", "restore", "delete", "move"},
            at : {"no", "note", "images", "name", "remove", "undo images", "undo note"},
            from : Spot \cup {NoPlace}, to : Spot \cup {NoPlace}, images : BOOLEAN, failed : BOOLEAN]
\* What each operation is about, and the calls it can be at.
UnderWay ==
  \/ /\ work.op = "trash" /\ work.from \in Place /\ work.to \in Entry
     /\ work.at \in {"note", "images", "name", "undo images", "undo note"}
  \/ /\ work.op = "restore" /\ work.from \in Entry /\ work.to \in Place
     /\ work.at \in {"note", "images", "remove", "undo images", "undo note"}
  \/ /\ work.op = "move" /\ work.from \in Place /\ work.to \in Place /\ work.from # work.to
     /\ work.at \in {"note", "images", "undo note"}
  \/ work.op = "delete" /\ work.from \in Entry /\ work.at = "remove"
WorkTypes == work = NoWork \/ UnderWay

\* Only a finished or unfinished entry, and a directory of images, hold anything.
HeldSomewhere ==
  /\ \A e \in Entry : bin[e] = NoEntry => doc[e] = NoDoc /\ pics[e] = {}
  /\ \A s \in Spot \ dirs : pics[s] = {}
  /\ work.op = "trash" => bin[work.to] # NoEntry
  /\ work.op \in {"restore", "delete"} => bin[work.from].name = "final"

\* Nothing lies where a note is renamed to.
WayIsFree ==
  /\ work.at = "note" => doc[work.to] = NoDoc
  /\ work.at \in {"images", "name", "undo images", "undo note"} => doc[work.from] = NoDoc

\* A note is moved or put in the trash with its images only if it has some.
OnlyWithImages == work.at \in {"images", "undo images"} => work.op = "restore" \/ work.images

\* An entry that is removed holds nothing, or what was given up.
EntryIsEmpty ==
  /\ work.op = "restore" /\ work.at = "note" /\ ~work.images => pics[work.from] = {}
  /\ work.op = "restore" /\ work.at = "remove" => doc[work.from] = NoDoc /\ pics[work.from] = {}
  /\ work.op = "delete" => doc[work.from] \in given \cup {NoDoc} /\ pics[work.from] \subseteq given
  /\ work.op = "trash" =>
       /\ work.at \in {"note", "images"} \/ (work.at = "name" /\ ~work.images) => pics[work.to] = {}
       /\ work.at = "undo note" /\ ~work.failed => pics[work.to] = {}

DiskInv == TrashTypes /\ WorkShape /\ WorkTypes /\ HeldSomewhere /\ WayIsFree /\ OnlyWithImages /\ EntryIsEmpty
  /\ NothingIsLost

\* The assumption on the constants is used throughout.
USE TrashAssumption DEF TrashAssumption

\* It holds at first.
LEMMA DiskAtFirst == TrashInit => DiskInv
<1> SUFFICES ASSUME TrashInit PROVE DiskInv
  OBVIOUS
<1> USE DEF TrashInit, Spot
<1>1. TrashTypes
  BY DEF TrashTypes, NoEntry, NoWork
<1>2. WorkShape /\ WorkTypes
  BY DEF WorkShape, WorkTypes, NoWork
<1>3. HeldSomewhere /\ WayIsFree /\ OnlyWithImages /\ EntryIsEmpty
  BY <1>2 DEF HeldSomewhere, WayIsFree, OnlyWithImages, EntryIsEmpty, NoWork
<1>4. NothingIsLost
  BY DEF NothingIsLost
<1> QED
  BY <1>1, <1>2, <1>3, <1>4 DEF DiskInv

\* Each note that was there is there still, or has been given up.
LEMMA NotesAreKept ==
  ASSUME TrashTypes, NothingIsLost, made' = made, given \subseteq given',
         \A s \in Spot : doc[s] = NoDoc \/ doc[s] \in given' \/ \E t \in Spot : doc'[t] = doc[s]
  PROVE  \A n \in made' \ given' : \E s \in Spot : doc'[s] = n
<1> TAKE n \in made' \ given'
<1>1. PICK s \in Spot : doc[s] = n
  BY DEF NothingIsLost
<1>2. n # NoDoc
  BY DEF TrashTypes
<1> QED
  BY <1>1, <1>2

\* And each image.
LEMMA ImagesAreKept ==
  ASSUME TrashTypes, NothingIsLost, owner' = owner, given \subseteq given',
         \A s \in Spot : \A i \in pics[s] : i \in given' \/ \E t \in Spot : i \in pics'[t]
  PROVE  \A i \in Picture : owner'[i] # NoDoc /\ i \notin given' => \E s \in Spot : i \in pics'[s]
<1> TAKE i \in Picture
<1> SUFFICES ASSUME owner'[i] # NoDoc, i \notin given' PROVE \E s \in Spot : i \in pics'[s]
  OBVIOUS
<1>1. PICK s \in Spot : i \in pics[s]
  BY DEF NothingIsLost
<1> QED
  BY <1>1

\* A rename to where nothing is moves what was there and drops nothing.
LEMMA RenameKeeps ==
  ASSUME NEW S, NEW f, DOMAIN f = S, NEW from \in S, NEW to \in S, from # to,
         NEW g, g = [f EXCEPT ![to] = f[from], ![from] = f[to]]
  PROVE  /\ DOMAIN g = S /\ g[to] = f[from] /\ g[from] = f[to]
         /\ \A s \in S : s # from /\ s # to => g[s] = f[s]
         /\ \A s \in S : \E t \in S : g[t] = f[s]
<1>1. DOMAIN g = S /\ g[to] = f[from] /\ g[from] = f[to] /\ \A s \in S : s # from /\ s # to => g[s] = f[s]
  OBVIOUS
<1>2. ASSUME NEW s \in S PROVE \E t \in S : g[t] = f[s]
  <2>1. CASE s = from
    BY <2>1, <1>1
  <2>2. CASE s = to
    BY <2>2, <1>1
  <2>3. CASE s # from /\ s # to
    BY <2>3, <1>1
  <2> QED
    BY <2>1, <2>2, <2>3
<1> QED
  BY <1>1, <1>2

\* The record of an operation that begins.
LEMMA TakesShape ==
  ASSUME NEW op \in {"trash", "restore", "delete", "move"}, NEW from \in Spot, NEW to \in Spot,
         Takes(op, from, to)
  PROVE  /\ WorkShape'
         /\ work'.op = op /\ work'.at = (IF op = "delete" THEN "remove" ELSE "note")
         /\ work'.from = from /\ work'.to = to
         /\ (~work'.images => from \notin dirs)
<1> DEFINE b == from \in dirs
           at == IF op = "delete" THEN "remove" ELSE "note"
<1>1. b \in BOOLEAN /\ at \in {"remove", "note"}
  OBVIOUS
<1>2. work' = [op |-> op, at |-> at, from |-> from, to |-> to, images |-> b, failed |-> FALSE]
  BY Zenon DEF Takes
<1>3. ~b => from \notin dirs
  OBVIOUS
<1> HIDE DEF b
<1>4. ~work'.images => from \notin dirs
  BY <1>1, <1>2, <1>3
<1>5. at = IF op = "delete" THEN "remove" ELSE "note"
  OBVIOUS
<1> HIDE DEF at
<1>6. WorkShape'
  BY <1>1, <1>2 DEF WorkShape, Spot
<1>7. work'.op = op /\ work'.at = at /\ work'.from = from /\ work'.to = to
  BY <1>2
<1> QED
  BY <1>4, <1>5, <1>6, <1>7

\* The operation goes on.
LEMMA GoesShape ==
  ASSUME WorkShape, NEW at \in {"no", "note", "images", "name", "remove", "undo images", "undo note"},
         Goes(at)
  PROVE  /\ WorkShape' /\ work'.at = at
         /\ work'.op = work.op /\ work'.from = work.from /\ work'.to = work.to
         /\ work'.images = work.images /\ work'.failed = work.failed
BY DEF WorkShape, Goes

\* Or is over.
LEMMA Rests ==
  ASSUME work' = NoWork
  PROVE  /\ WorkShape' /\ WorkTypes' /\ WayIsFree' /\ OnlyWithImages' /\ EntryIsEmpty'
         /\ work'.op = "none" /\ work'.at = "no"
BY DEF NoWork, WorkShape, WorkTypes, WayIsFree, OnlyWithImages, EntryIsEmpty

\* An operation that is at one of its calls.
LEMMA AtWork == ASSUME WorkTypes, work.at # "no" PROVE UnderWay
<1>1. work # NoWork
  BY DEF NoWork
<1> QED
  BY <1>1 DEF WorkTypes

\* The entry of an operation is there.
LEMMA ApartFromWork ==
  ASSUME HeldSomewhere, UnderWay
  PROVE  \A b \in Entry : bin[b] = NoEntry => work.op = "delete" \/ (b # work.from /\ b # work.to)
<1> TAKE b \in Entry
<1> SUFFICES ASSUME bin[b] = NoEntry, work.op # "delete" PROVE b # work.from /\ b # work.to
  OBVIOUS
<1>1. bin[b].name = "none"
  BY DEF NoEntry
<1>2. CASE work.op = "trash"
  BY <1>2 DEF HeldSomewhere, UnderWay
<1>3. CASE work.op = "restore"
  BY <1>1, <1>3 DEF HeldSomewhere, UnderWay
<1>4. CASE work.op = "move"
  BY <1>4 DEF UnderWay
<1> QED
  BY <1>2, <1>3, <1>4 DEF UnderWay

-----------------------------------------------------------------------------
(* One lemma for each kind of step. *)
\* An operation begins: the disk is as it was, but for an entry of its own.
LEMMA Begins ==
  ASSUME DiskInv, MoveToTrash \/ RestoreTrashItem \/ DeleteTrashItem \/ MoveFile
  PROVE  DiskInv'
<1> USE DEF DiskInv, Takes, TaskOnly, SameDisk, Spot, Vacant, Loads
<1>1. CASE MoveToTrash
  <2> PICK p \in Place, e \in Entry : MoveToTrash!(p, e)
    BY <1>1 DEF MoveToTrash
  <2>1. TrashTypes'
    BY DEF TrashTypes
  <2>2. WorkShape' /\ WorkTypes'
    <3>1. Takes("trash", p, e)
      OBVIOUS
    <3> HIDE DEF Takes
    <3>2. /\ WorkShape' /\ work'.op = "trash" /\ work'.at = "note"
          /\ work'.from = p /\ work'.to = e
      BY <3>1, TakesShape DEF TrashTypes
    <3> QED
      BY <3>2 DEF TrashTypes, WorkTypes, UnderWay
  <2>3. HeldSomewhere' /\ WayIsFree' /\ OnlyWithImages' /\ EntryIsEmpty'
    BY DEF HeldSomewhere, WayIsFree, OnlyWithImages, EntryIsEmpty, TrashTypes, NoEntry
  <2>4. NothingIsLost'
    BY DEF NothingIsLost
  <2> QED
    BY <2>1, <2>2, <2>3, <2>4
<1>2. CASE RestoreTrashItem
  <2> PICK e \in Entry : RestoreTrashItem!(e)
    BY <1>2 DEF RestoreTrashItem
  <2>1. TrashTypes'
    BY DEF TrashTypes
  <2>2. WorkShape' /\ WorkTypes'
    <3>1. Takes("restore", e, bin[e].meta)
      OBVIOUS
    <3> HIDE DEF Takes
    <3>2. /\ WorkShape' /\ work'.op = "restore" /\ work'.at = "note"
          /\ work'.from = e /\ work'.to = bin[e].meta
      BY <3>1, TakesShape DEF TrashTypes
    <3> QED
      BY <3>2 DEF TrashTypes, WorkTypes, UnderWay
  <2>3. HeldSomewhere' /\ WayIsFree' /\ OnlyWithImages' /\ EntryIsEmpty'
    BY DEF HeldSomewhere, WayIsFree, OnlyWithImages, EntryIsEmpty, TrashTypes
  <2>4. NothingIsLost'
    BY DEF NothingIsLost
  <2> QED
    BY <2>1, <2>2, <2>3, <2>4
<1>3. CASE DeleteTrashItem
  <2> PICK e \in Entry : DeleteTrashItem!(e)
    BY <1>3 DEF DeleteTrashItem
  <2>1. TrashTypes'
    BY DEF TrashTypes
  <2>2. WorkShape' /\ WorkTypes'
    <3>1. Takes("delete", e, e)
      OBVIOUS
    <3> HIDE DEF Takes
    <3>2. /\ WorkShape' /\ work'.op = "delete" /\ work'.at = "remove"
          /\ work'.from = e /\ work'.to = e
      BY <3>1, TakesShape DEF TrashTypes
    <3> QED
      BY <3>2 DEF TrashTypes, WorkTypes, UnderWay
  <2>3. HeldSomewhere' /\ WayIsFree' /\ OnlyWithImages' /\ EntryIsEmpty'
    BY DEF HeldSomewhere, WayIsFree, OnlyWithImages, EntryIsEmpty, TrashTypes
  <2>4. NothingIsLost'
    BY DEF NothingIsLost
  <2> QED
    BY <2>1, <2>2, <2>3, <2>4
<1>4. CASE MoveFile
  <2> PICK p \in Place, q \in Place : MoveFile!(p, q)
    BY <1>4 DEF MoveFile
  <2>1. TrashTypes'
    BY DEF TrashTypes
  <2>2. WorkShape' /\ WorkTypes'
    <3>1. Takes("move", p, q)
      OBVIOUS
    <3> HIDE DEF Takes
    <3>2. /\ WorkShape' /\ work'.op = "move" /\ work'.at = "note"
          /\ work'.from = p /\ work'.to = q
      BY <3>1, TakesShape DEF TrashTypes
    <3> QED
      BY <3>2 DEF TrashTypes, WorkTypes, UnderWay
  <2>3. HeldSomewhere' /\ WayIsFree' /\ OnlyWithImages' /\ EntryIsEmpty'
    BY DEF HeldSomewhere, WayIsFree, OnlyWithImages, EntryIsEmpty, TrashTypes
  <2>4. NothingIsLost'
    BY DEF NothingIsLost
  <2> QED
    BY <2>1, <2>2, <2>3, <2>4
<1> QED
  BY <1>1, <1>2, <1>3, <1>4

\* A new note is put where nothing lies.
LEMMA Creates == ASSUME DiskInv, CreateFile PROVE DiskInv'
<1> USE DEF DiskInv, Spot
<1> PICK p \in Place, n \in Doc \ made : CreateFile!(p, n)
  BY DEF CreateFile
<1>1. TrashTypes'
  BY DEF TrashTypes
<1>2. WorkShape' /\ WorkTypes'
  BY DEF WorkShape, WorkTypes, UnderWay
<1>3. HeldSomewhere' /\ WayIsFree' /\ OnlyWithImages' /\ EntryIsEmpty'
  BY DEF HeldSomewhere, WayIsFree, OnlyWithImages, EntryIsEmpty, TrashTypes, NoWork
<1>4. NothingIsLost'
  <2>1. ASSUME NEW m \in made' \ given' PROVE \E s \in Spot : doc'[s] = m
    <3>1. CASE m = n
      BY <3>1 DEF TrashTypes
    <3>2. CASE m # n
      <4>1. PICK s \in Spot : doc[s] = m
        BY <3>2, <2>1 DEF NothingIsLost
      <4>2. s # p
        BY <4>1, <2>1, <3>2 DEF TrashTypes
      <4> QED
        BY <4>1, <4>2 DEF TrashTypes
    <3> QED
      BY <3>1, <3>2
  <2> QED
    BY <2>1 DEF NothingIsLost
<1> QED
  BY <1>1, <1>2, <1>3, <1>4

\* Note and images are renamed, one to where nothing lies.
LEMMA RenamesNote == ASSUME DiskInv, RenameNote PROVE DiskInv'
<1> USE DEF DiskInv, Spot, RenameNote, TaskOnly
<1>1. /\ work.from \in Spot /\ work.to \in Spot /\ work.from # work.to
      /\ work.at = "note" /\ work.op \in {"trash", "restore", "move"}
      /\ doc[work.to] = NoDoc
  BY AtWork DEF WayIsFree, UnderWay
<1>2. doc' = [doc EXCEPT ![work.to] = doc[work.from], ![work.from] = doc[work.to]]
  BY <1>1 DEF TrashTypes
<1>3. /\ doc'[work.from] = NoDoc
      /\ \A s \in Spot : s # work.to /\ s # work.from => doc'[s] = doc[s]
      /\ \A s \in Spot : \E t \in Spot : doc'[t] = doc[s]
  <2> HIDE DEF Spot
  <2>1. DOMAIN doc = Spot
    BY DEF TrashTypes
  <2> QED
    BY <1>1, <1>2, <2>1, RenameKeeps
<1>4. TrashTypes'
  BY <1>1 DEF TrashTypes
<1>5. \A e \in Entry : bin'[e] = NoEntry => doc'[e] = NoDoc /\ pics'[e] = {}
  BY <1>1, <1>3, AtWork DEF HeldSomewhere, TrashTypes, NoEntry, UnderWay
<1>6. WorkShape' /\ WorkTypes' /\ HeldSomewhere' /\ WayIsFree' /\ OnlyWithImages' /\ EntryIsEmpty'
  <2>1. CASE work.images /\ Goes("images")
    <3>1. /\ WorkShape' /\ work'.at = "images"
          /\ work'.op = work.op /\ work'.from = work.from /\ work'.to = work.to
          /\ work'.images = work.images /\ work'.failed = work.failed
      BY <2>1, GoesShape
    <3>2. WorkTypes'
      BY <1>1, <2>1, <3>1, AtWork DEF WorkTypes, UnderWay
    <3> QED
      BY <1>1, <1>3, <1>5, <2>1, <3>1, <3>2 DEF HeldSomewhere, WayIsFree, OnlyWithImages, EntryIsEmpty
  <2>2. CASE ~work.images /\ work.op = "trash" /\ Goes("name")
    <3>1. /\ WorkShape' /\ work'.at = "name"
          /\ work'.op = work.op /\ work'.from = work.from /\ work'.to = work.to
          /\ work'.images = work.images /\ work'.failed = work.failed
      BY <2>2, GoesShape
    <3>2. WorkTypes'
      BY <1>1, <2>2, <3>1, AtWork DEF WorkTypes, UnderWay
    <3> QED
      BY <1>1, <1>3, <1>5, <2>2, <3>1, <3>2 DEF HeldSomewhere, WayIsFree, OnlyWithImages, EntryIsEmpty
  <2>3. CASE ~work.images /\ work.op = "restore" /\ Goes("remove")
    <3>1. /\ WorkShape' /\ work'.at = "remove"
          /\ work'.op = work.op /\ work'.from = work.from /\ work'.to = work.to
          /\ work'.images = work.images /\ work'.failed = work.failed
      BY <2>3, GoesShape
    <3>2. WorkTypes'
      BY <1>1, <2>3, <3>1, AtWork DEF WorkTypes, UnderWay
    <3> QED
      BY <1>1, <1>3, <1>5, <2>3, <3>1, <3>2 DEF HeldSomewhere, WayIsFree, OnlyWithImages, EntryIsEmpty
  <2>4. CASE work' = NoWork
    BY <2>4, <1>5, Rests DEF HeldSomewhere
  <2> QED
    BY <1>1, <2>1, <2>2, <2>3, <2>4 DEF ThenAt, AfterImages, WorkShape
<1>9. NothingIsLost'
  BY <1>3, NotesAreKept, ImagesAreKept DEF NothingIsLost
<1> QED
  BY <1>4, <1>6, <1>9

\* A directory of images is renamed to where no images are.
LEMMA SweepKeeps ==
  ASSUME TrashTypes, \A s \in Spot \ dirs : pics[s] = {}, NEW from \in Spot, NEW to \in Spot, from # to,
         pics[to] = {}, Swept(from, to)
  PROVE  /\ dirs' \subseteq Spot /\ pics' \in [Spot -> SUBSET Picture]
         /\ pics'[from] = {}
         /\ \A s \in Spot : s # from /\ s # to => pics'[s] = pics[s]
         /\ \A s \in Spot \ dirs' : pics'[s] = {}
         /\ \A s \in Spot : \E t \in Spot : pics'[t] = pics[s]
<1>1. pics' = [pics EXCEPT ![to] = pics[from], ![from] = pics[to]]
  BY DEF Swept
<1>2. DOMAIN pics = Spot
  BY DEF TrashTypes
<1>3. /\ pics'[to] = pics[from] /\ pics'[from] = {}
      /\ \A s \in Spot : s # from /\ s # to => pics'[s] = pics[s]
      /\ \A s \in Spot : \E t \in Spot : pics'[t] = pics[s]
  BY <1>1, <1>2, RenameKeeps
<1>4. dirs' \subseteq Spot /\ pics' \in [Spot -> SUBSET Picture]
  BY DEF TrashTypes, Swept
<1>5. \A s \in Spot \ dirs' : pics'[s] = {}
  BY <1>3 DEF Swept
<1> QED
  BY <1>3, <1>4, <1>5

\* The directory of images follows the note.
LEMMA RenamesImages == ASSUME DiskInv, RenameImages PROVE DiskInv'
<1> USE DEF DiskInv, RenameImages, TaskOnly
<1>1. /\ work.from \in Spot /\ work.to \in Spot /\ work.from # work.to
      /\ work.at = "images" /\ work.op \in {"trash", "restore", "move"}
      /\ doc[work.from] = NoDoc /\ pics[work.to] = {}
  BY AtWork DEF WayIsFree, Replaceable, Spot, UnderWay
<1>2. /\ dirs' \subseteq Spot /\ pics' \in [Spot -> SUBSET Picture]
      /\ pics'[work.from] = {}
      /\ \A s \in Spot : s # work.from /\ s # work.to => pics'[s] = pics[s]
      /\ \A s \in Spot \ dirs' : pics'[s] = {}
      /\ \A s \in Spot : \E t \in Spot : pics'[t] = pics[s]
  BY <1>1, SweepKeeps DEF HeldSomewhere
<1>3. TrashTypes'
  BY <1>2 DEF TrashTypes, Spot
<1>4. \A e \in Entry : bin'[e] = NoEntry => doc'[e] = NoDoc /\ pics'[e] = {}
  BY <1>1, <1>2, AtWork DEF HeldSomewhere, TrashTypes, NoEntry, Spot, UnderWay
<1>5. WorkShape' /\ WorkTypes' /\ HeldSomewhere' /\ WayIsFree' /\ OnlyWithImages' /\ EntryIsEmpty'
  <2>1. CASE work.op = "trash" /\ Goes("name")
    <3>1. /\ WorkShape' /\ work'.at = "name"
          /\ work'.op = work.op /\ work'.from = work.from /\ work'.to = work.to
          /\ work'.images = work.images /\ work'.failed = work.failed
      BY <2>1, GoesShape
    <3>2. WorkTypes' /\ work.images
      BY <1>1, <2>1, <3>1, AtWork DEF WorkTypes, OnlyWithImages, UnderWay
    <3> QED
      BY <1>1, <1>2, <1>4, <2>1, <3>1, <3>2 DEF HeldSomewhere, WayIsFree, OnlyWithImages, EntryIsEmpty
  <2>2. CASE work.op = "restore" /\ Goes("remove")
    <3>1. /\ WorkShape' /\ work'.at = "remove"
          /\ work'.op = work.op /\ work'.from = work.from /\ work'.to = work.to
          /\ work'.images = work.images /\ work'.failed = work.failed
      BY <2>2, GoesShape
    <3>2. WorkTypes'
      BY <1>1, <2>2, <3>1, AtWork DEF WorkTypes, UnderWay
    <3> QED
      BY <1>1, <1>2, <1>4, <2>2, <3>1, <3>2 DEF HeldSomewhere, WayIsFree, OnlyWithImages, EntryIsEmpty
  <2>3. CASE work' = NoWork
    BY <2>3, <1>2, <1>4, Rests DEF HeldSomewhere
  <2> QED
    BY <1>1, <2>1, <2>2, <2>3 DEF ThenAt, AfterImages, WorkShape
<1>9. NothingIsLost'
  BY <1>2, NotesAreKept, ImagesAreKept DEF NothingIsLost, Spot
<1> QED
  BY <1>3, <1>5, <1>9

\* Steps that give nothing up, and leave the image being stored or drop it.
Keeps == UNCHANGED <<owner, made, given>> /\ (upload' = upload \/ upload' = NoUploading)

LEMMA TaskKeeps == ASSUME TaskOnly, given' = given PROVE Keeps
BY DEF TaskOnly, Keeps

\* Nothing happens to the disk.
LEMMA DiskRests ==
  ASSUME DiskInv, SameDisk, Keeps
  PROVE  /\ TrashTypes' /\ NothingIsLost'
         /\ \A e \in Entry : bin'[e] = NoEntry => doc'[e] = NoDoc /\ pics'[e] = {}
         /\ \A s \in Spot \ dirs' : pics'[s] = {}
BY DEF DiskInv, SameDisk, Keeps, TrashTypes, NothingIsLost, HeldSomewhere

\* An entry that holds nothing, or what was given up, is removed or stays.
LEMMA CleaningKeeps ==
  ASSUME DiskInv, TaskOnly, given' = given, work' = NoWork,
         NEW e \in Entry, NEW docs \in [Spot -> Doc \cup {NoDoc}], Cleaned(e, docs),
         docs[e] \in given \cup {NoDoc}, pics[e] \subseteq given,
         \A b \in Entry : bin[b] = NoEntry => docs[b] = NoDoc,
         \A s \in Spot : \E t \in Spot : docs[t] = doc[s]
  PROVE  DiskInv'
<1> USE DEF DiskInv, TaskOnly
<1>1. CASE Removed(e, docs)
  <2> USE <1>1 DEF Removed
  <2>1. TrashTypes'
    BY DEF TrashTypes, NoEntry, Spot
  <2>2. HeldSomewhere'
    BY Rests DEF HeldSomewhere, TrashTypes, Spot
  <2>3. \A s \in Spot : doc[s] = NoDoc \/ doc[s] \in given' \/ \E t \in Spot : doc'[t] = doc[s]
    <3> TAKE s \in Spot
    <3>1. PICK t \in Spot : docs[t] = doc[s]
      OBVIOUS
    <3>2. CASE t = e
      BY <3>1, <3>2
    <3>3. CASE t # e
      BY <3>1, <3>3
    <3> QED
      BY <3>2, <3>3
  <2>4. \A s \in Spot : \A i \in pics[s] : i \in given' \/ \E t \in Spot : i \in pics'[t]
    <3> TAKE s \in Spot
    <3> TAKE i \in pics[s]
    <3>1. CASE s = e
      BY <3>1
    <3>2. CASE s # e
      BY <3>2 DEF TrashTypes
    <3> QED
      BY <3>1, <3>2
  <2>5. NothingIsLost'
    BY <2>3, <2>4, NotesAreKept, ImagesAreKept DEF NothingIsLost
  <2> QED
    BY <2>1, <2>2, <2>5, Rests
<1>2. CASE doc' = docs /\ UNCHANGED <<dirs, pics, bin>>
  <2>1. TrashTypes' /\ HeldSomewhere'
    BY <1>2, Rests DEF TrashTypes, HeldSomewhere
  <2>2. NothingIsLost'
    BY <1>2, NotesAreKept, ImagesAreKept DEF NothingIsLost
  <2> QED
    BY <2>1, <2>2, Rests
<1> QED
  BY <1>1, <1>2 DEF Cleaned

\* The note could not be renamed; an entry prepared for it is cleaned up.
LEMMA NoteStays == ASSUME DiskInv, RenameNoteFails PROVE DiskInv'
<1> USE DEF DiskInv, RenameNoteFails
<1>1. CASE work.op = "trash"
  <2>1. work.to \in Entry /\ doc[work.to] = NoDoc /\ pics[work.to] = {}
    BY <1>1, AtWork DEF WayIsFree, OnlyWithImages, EntryIsEmpty, UnderWay
  <2>2. /\ doc \in [Spot -> Doc \cup {NoDoc}]
        /\ \A b \in Entry : bin[b] = NoEntry => doc[b] = NoDoc
        /\ \A s \in Spot : \E t \in Spot : doc[t] = doc[s]
    BY DEF TrashTypes, HeldSomewhere
  <2> QED
    BY <1>1, <2>1, <2>2, CleaningKeeps
<1>2. CASE work.op # "trash"
  BY <1>2, DiskRests, TaskKeeps, Rests DEF HeldSomewhere
<1> QED
  BY <1>1, <1>2

\* A call failed, and what was done is to be undone.
LEMMA TurnsBack == ASSUME DiskInv, RenameImagesFails \/ NameEntryFails PROVE DiskInv'
<1> USE DEF DiskInv
<1>1. PICK at \in {"undo images", "undo note"} :
        /\ Goes(at) /\ SameDisk /\ TaskOnly /\ given' = given
        /\ \/ work.at = "images" /\ at = "undo note"
           \/ work.at = "name" /\ work.images /\ at = "undo images"
           \/ work.at = "name" /\ ~work.images /\ at = "undo note"
  BY DEF RenameImagesFails, NameEntryFails
<1>2. /\ WorkShape' /\ work'.at = at
      /\ work'.op = work.op /\ work'.from = work.from /\ work'.to = work.to
      /\ work'.images = work.images /\ work'.failed = work.failed
  BY <1>1, GoesShape
<1>3. WorkTypes'
  BY <1>1, <1>2, AtWork DEF WorkTypes, UnderWay
<1>4. HeldSomewhere'
  BY <1>1, <1>2, DiskRests, TaskKeeps DEF HeldSomewhere, SameDisk
<1>5. WayIsFree' /\ OnlyWithImages' /\ EntryIsEmpty'
  BY <1>1, <1>2, AtWork DEF WayIsFree, OnlyWithImages, EntryIsEmpty, SameDisk, UnderWay
<1> QED
  BY <1>1, <1>2, <1>3, <1>4, <1>5, DiskRests, TaskKeeps

\* The entry gets its final name.
LEMMA Names == ASSUME DiskInv, NameEntry PROVE DiskInv'
<1> USE DEF DiskInv, NameEntry, TaskOnly
<1>1. work.to \in Entry
  BY AtWork DEF UnderWay
<1>2. TrashTypes'
  BY <1>1 DEF TrashTypes
<1>3. HeldSomewhere'
  BY <1>1, Rests DEF HeldSomewhere, TrashTypes, NoEntry
<1>4. NothingIsLost'
  BY DEF NothingIsLost
<1> QED
  BY <1>2, <1>3, <1>4, Rests

\* The entry is removed, emptied by a restore or given up.
LEMMA RemovesEntry == ASSUME DiskInv, RemoveEntry PROVE DiskInv'
<1> USE DEF DiskInv, RemoveEntry
<1>1. /\ work.from \in Entry /\ doc[work.from] \in given \cup {NoDoc} /\ pics[work.from] \subseteq given
  BY AtWork DEF EntryIsEmpty, UnderWay
<1>2. /\ doc \in [Spot -> Doc \cup {NoDoc}]
      /\ \A b \in Entry : bin[b] = NoEntry => doc[b] = NoDoc
      /\ \A s \in Spot : \E t \in Spot : doc[t] = doc[s]
  BY DEF TrashTypes, HeldSomewhere
<1>3. Cleaned(work.from, doc)
  BY DEF Cleaned
<1> QED
  BY <1>1, <1>2, <1>3, CleaningKeeps

\* An entry is removed in part.
LEMMA RemovalInPartKeeps ==
  ASSUME DiskInv, Keeps, work.at = "remove", RemovedInPart(work.from)
  PROVE  /\ TrashTypes' /\ NothingIsLost'
         /\ \A e \in Entry : bin'[e] = NoEntry => doc'[e] = NoDoc /\ pics'[e] = {}
         /\ \A s \in Spot \ dirs' : pics'[s] = {}
         /\ bin'[work.from].name = "final"
         /\ work.op = "restore" => doc'[work.from] = NoDoc
<1> USE DEF DiskInv, Keeps
<1>1. /\ work.from \in Entry /\ bin[work.from].name = "final"
      /\ doc[work.from] \in given \cup {NoDoc} /\ pics[work.from] \subseteq given
      /\ work.op = "restore" => doc[work.from] = NoDoc
  BY AtWork DEF EntryIsEmpty, HeldSomewhere, UnderWay
<1> DEFINE e == work.from
<1>2. PICK meta \in {bin[e].meta, NoPlace}, room \in BOOLEAN, note \in {doc[e], NoDoc}, all \in BOOLEAN :
        /\ bin' = [bin EXCEPT ![e].meta = meta, ![e].room = room]
        /\ doc' = [doc EXCEPT ![e] = note]
        /\ dirs' = IF all THEN dirs \ {e} ELSE dirs
        /\ pics' = IF all THEN [pics EXCEPT ![e] = {}] ELSE pics
  BY DEF RemovedInPart
<1>3. e \in Entry /\ e \in Spot
  BY <1>1 DEF Spot
<1>4. /\ bin'[e].name = "final" /\ \A b \in Entry : b # e => bin'[b] = bin[b]
      /\ bin' \in [Entry -> [name : {"none", "pending", "final"}, meta : Place \cup {NoPlace}, room : BOOLEAN]]
  BY <1>1, <1>2, <1>3 DEF TrashTypes
<1>5. /\ doc'[e] = note /\ \A s \in Spot : s # e => doc'[s] = doc[s]
      /\ doc' \in [Spot -> Doc \cup {NoDoc}]
  BY <1>2, <1>3 DEF TrashTypes
<1>6. /\ pics' \in [Spot -> SUBSET Picture] /\ dirs' \subseteq Spot
      /\ pics'[e] \in {pics[e], {}} /\ \A s \in Spot : s # e => pics'[s] = pics[s]
      /\ \A s \in Spot \ dirs' : pics'[s] = {}
  <2>1. CASE all
    BY <2>1, <1>2, <1>3 DEF TrashTypes, HeldSomewhere
  <2>2. CASE ~all
    BY <2>2, <1>2, <1>3 DEF TrashTypes, HeldSomewhere
  <2> QED
    BY <2>1, <2>2
<1> HIDE DEF e
<1>7. TrashTypes'
  BY <1>4, <1>5, <1>6 DEF TrashTypes
<1>8. \A b \in Entry : bin'[b] = NoEntry => doc'[b] = NoDoc /\ pics'[b] = {}
  <2>1. bin'[e] # NoEntry
    BY <1>4 DEF NoEntry
  <2>2. ASSUME NEW b \in Entry, b # e, bin'[b] = NoEntry PROVE doc'[b] = NoDoc /\ pics'[b] = {}
    BY <2>2, <1>4, <1>5, <1>6 DEF HeldSomewhere, Spot
  <2> QED
    BY <2>1, <2>2
<1>9. doc[e] \in given \cup {NoDoc} /\ pics[e] \subseteq given
  BY <1>1 DEF e
<1>10. NothingIsLost'
  BY <1>5, <1>6, <1>9, NotesAreKept, ImagesAreKept DEF NothingIsLost
<1>11. bin'[work.from].name = "final" /\ (work.op = "restore" => doc'[work.from] = NoDoc)
  BY <1>1, <1>2, <1>4, <1>5 DEF e
<1> QED
  BY <1>6, <1>7, <1>8, <1>10, <1>11

\* A removal that failed is undone when it was for a restore.
LEMMA RemovalFails == ASSUME DiskInv, RemoveEntryFails PROVE DiskInv'
<1> USE DEF DiskInv, RemoveEntryFails
<1>1. /\ TrashTypes' /\ NothingIsLost'
      /\ \A e \in Entry : bin'[e] = NoEntry => doc'[e] = NoDoc /\ pics'[e] = {}
      /\ \A s \in Spot \ dirs' : pics'[s] = {}
      /\ bin'[work.from].name = "final"
      /\ work.op = "restore" => doc'[work.from] = NoDoc
  BY RemovalInPartKeeps, TaskKeeps
<1>2. CASE work' = NoWork
  BY <1>1, <1>2, Rests DEF HeldSomewhere
<1>3. ASSUME NEW at \in {"undo images", "undo note"}, work.op # "delete", Goes(at) PROVE DiskInv'
  <2>1. work.op = "restore" /\ work.from \in Entry /\ work.to \in Place
    BY <1>3, AtWork DEF UnderWay
  <2>2. /\ WorkShape' /\ work'.at = at
        /\ work'.op = work.op /\ work'.from = work.from /\ work'.to = work.to
        /\ work'.images = work.images /\ work'.failed = work.failed
    BY <1>3, GoesShape
  <2>3. WorkTypes'
    BY <2>1, <2>2, AtWork DEF WorkTypes, UnderWay
  <2>4. HeldSomewhere' /\ WayIsFree' /\ OnlyWithImages' /\ EntryIsEmpty'
    BY <1>1, <2>1, <2>2 DEF HeldSomewhere, WayIsFree, OnlyWithImages, EntryIsEmpty
  <2> QED
    BY <1>1, <2>2, <2>3, <2>4
<1> QED
  BY <1>2, <1>3

\* Images and note go back to where they were, or stay.
LEMMA ImagesBack == ASSUME DiskInv, UndoImages PROVE DiskInv'
<1> USE DEF DiskInv, UndoImages, TaskOnly
<1>1. /\ work.from \in Spot /\ work.to \in Spot /\ work.from # work.to
      /\ work.op \in {"trash", "restore"} /\ doc[work.from] = NoDoc
  BY AtWork DEF WayIsFree, Spot, UnderWay
<1>2. CASE Replaceable(work.from) /\ Swept(work.to, work.from) /\ Goes("undo note")
  <2>1. pics[work.from] = {}
    BY <1>2 DEF Replaceable
  <2>2. /\ dirs' \subseteq Spot /\ pics' \in [Spot -> SUBSET Picture]
        /\ pics'[work.to] = {}
        /\ \A s \in Spot : s # work.from /\ s # work.to => pics'[s] = pics[s]
        /\ \A s \in Spot \ dirs' : pics'[s] = {}
        /\ \A s \in Spot : \E t \in Spot : pics'[t] = pics[s]
    <3>1. /\ TrashTypes /\ \A s \in Spot \ dirs : pics[s] = {}
          /\ Swept(work.to, work.from)
      BY <1>2 DEF HeldSomewhere
    <3> HIDE DEF UndoImages, TaskOnly, DiskInv
    <3> QED
      BY <1>1, <2>1, <3>1, SweepKeeps
  <2>3. TrashTypes'
    BY <2>2 DEF TrashTypes, Spot
  <2>4. /\ WorkShape' /\ work'.at = "undo note"
        /\ work'.op = work.op /\ work'.from = work.from /\ work'.to = work.to
        /\ work'.images = work.images /\ work'.failed = work.failed
    BY <1>2, GoesShape
  <2>5. WorkTypes'
    BY <1>1, <2>4, AtWork DEF WorkTypes, UnderWay
  <2>6. HeldSomewhere'
    <3>1. \A b \in Entry : bin[b] = NoEntry => b # work.from /\ b # work.to
      BY <1>1, AtWork, ApartFromWork
    <3>2. \A b \in Entry : bin'[b] = NoEntry => doc'[b] = NoDoc /\ pics'[b] = {}
      BY <2>2, <3>1 DEF HeldSomewhere, Spot
    <3> QED
      BY <2>2, <2>4, <3>2 DEF HeldSomewhere
  <2>7. WayIsFree' /\ OnlyWithImages' /\ EntryIsEmpty'
    BY <1>1, <2>2, <2>4 DEF WayIsFree, OnlyWithImages, EntryIsEmpty
  <2>8. NothingIsLost'
    BY <2>2, NotesAreKept, ImagesAreKept DEF NothingIsLost, Spot
  <2> QED
    BY <2>3, <2>4, <2>5, <2>6, <2>7, <2>8
<1>3. CASE work' = [work EXCEPT !.at = "undo note", !.failed = TRUE] /\ UNCHANGED <<dirs, pics>>
  <2>1. /\ TrashTypes' /\ NothingIsLost'
        /\ \A e \in Entry : bin'[e] = NoEntry => doc'[e] = NoDoc /\ pics'[e] = {}
        /\ \A s \in Spot \ dirs' : pics'[s] = {}
    BY <1>3, DiskRests, TaskKeeps DEF SameDisk
  <2>2. /\ WorkShape' /\ work'.at = "undo note" /\ work'.failed
        /\ work'.op = work.op /\ work'.from = work.from /\ work'.to = work.to
    BY <1>3 DEF WorkShape
  <2>3. WorkTypes'
    BY <1>1, <2>2, AtWork DEF WorkTypes, UnderWay
  <2>4. HeldSomewhere' /\ WayIsFree' /\ OnlyWithImages' /\ EntryIsEmpty'
    BY <1>1, <2>1, <2>2 DEF HeldSomewhere, WayIsFree, OnlyWithImages, EntryIsEmpty
  <2> QED
    BY <2>1, <2>2, <2>3, <2>4
<1> QED
  BY <1>2, <1>3

LEMMA NoteBack == ASSUME DiskInv, UndoNote PROVE DiskInv'
<1> USE DEF DiskInv, UndoNote
<1>1. /\ work.from \in Spot /\ work.to \in Spot /\ work.from # work.to
      /\ doc[work.from] = NoDoc /\ work.op \in {"trash", "restore", "move"}
  BY AtWork DEF WayIsFree, Spot, UnderWay
<1>2. TakenBack = [doc EXCEPT ![work.from] = doc[work.to], ![work.to] = doc[work.from]]
  BY <1>1 DEF TakenBack
<1>3. /\ TakenBack \in [Spot -> Doc \cup {NoDoc}] /\ TakenBack[work.to] = NoDoc
      /\ \A s \in Spot : s # work.from /\ s # work.to => TakenBack[s] = doc[s]
      /\ \A s \in Spot : \E t \in Spot : TakenBack[t] = doc[s]
  <2>1. DOMAIN doc = Spot
    BY DEF TrashTypes
  <2>2. /\ TakenBack[work.to] = NoDoc
        /\ \A s \in Spot : s # work.from /\ s # work.to => TakenBack[s] = doc[s]
        /\ \A s \in Spot : \E t \in Spot : TakenBack[t] = doc[s]
    BY <1>1, <1>2, <2>1, RenameKeeps
  <2>3. TakenBack \in [Spot -> Doc \cup {NoDoc}]
    BY <1>1, <1>2 DEF TrashTypes
  <2> QED
    BY <2>2, <2>3
<1>4. \A b \in Entry : bin[b] = NoEntry => TakenBack[b] = NoDoc
  <2>1. \A b \in Entry : bin[b] = NoEntry => b # work.from /\ b # work.to
    BY <1>1, AtWork, ApartFromWork
  <2> QED
    BY <1>3, <2>1 DEF HeldSomewhere, Spot
<1>5. CASE work.op = "trash" /\ ~work.failed /\ Cleaned(work.to, TakenBack)
  <2>1. work.to \in Entry /\ pics[work.to] = {}
    BY <1>5, AtWork DEF EntryIsEmpty, UnderWay
  <2> QED
    BY <1>3, <1>4, <1>5, <2>1, CleaningKeeps
<1>6. CASE doc' = TakenBack /\ UNCHANGED <<dirs, pics, bin>>
  <2> USE DEF TaskOnly
  <2>1. TrashTypes' /\ HeldSomewhere'
    BY <1>3, <1>4, <1>6, Rests DEF TrashTypes, HeldSomewhere
  <2>2. NothingIsLost'
    BY <1>3, <1>6, NotesAreKept, ImagesAreKept DEF NothingIsLost
  <2> QED
    BY <2>1, <2>2, Rests
<1>7. CASE SameDisk
  BY <1>7, DiskRests, TaskKeeps, Rests DEF HeldSomewhere
<1> QED
  BY <1>5, <1>6, <1>7

\* The server stops between two calls or within the removal of an entry.
LEMMA Stops == ASSUME DiskInv, ServerStops PROVE DiskInv'
<1> USE DEF DiskInv, ServerStops
<1>1. Keeps
  BY DEF Keeps
<1>2. CASE work.at = "remove" /\ RemovedInPart(work.from)
  <2>1. /\ TrashTypes' /\ NothingIsLost'
        /\ \A e \in Entry : bin'[e] = NoEntry => doc'[e] = NoDoc /\ pics'[e] = {}
        /\ \A s \in Spot \ dirs' : pics'[s] = {}
    BY <1>1, <1>2, RemovalInPartKeeps
  <2> QED
    BY <2>1, Rests DEF HeldSomewhere
<1>3. CASE SameDisk
  BY <1>1, <1>3, DiskRests, Rests DEF HeldSomewhere
<1> QED
  BY <1>2, <1>3

\* No note, image or entry changes.
LEMMA NothingMoves ==
  ASSUME DiskInv, UNCHANGED <<doc, pics, bin, work, given, owner, made>>, dirs \subseteq dirs', TrashTypes'
  PROVE  DiskInv'
<1> USE DEF DiskInv
<1>1. WorkShape' /\ WorkTypes'
  BY DEF WorkShape, WorkTypes, UnderWay
<1>2. HeldSomewhere'
  BY DEF HeldSomewhere
<1>3. WayIsFree' /\ OnlyWithImages'
  BY DEF WayIsFree, OnlyWithImages
<1>4. EntryIsEmpty'
  BY DEF EntryIsEmpty
<1>5. NothingIsLost'
  BY DEF NothingIsLost
<1> QED
  BY <1>1, <1>2, <1>3, <1>4, <1>5

\* Storing an image adds to a place and takes nothing away.
LEMMA Stores ==
  ASSUME DiskInv, SaveAsset \/ MakeAssetsDirectory \/ WriteAsset \/ WriteAssetFails
  PROVE  DiskInv'
<1> USE DEF DiskInv, UploadOnly
<1>1. CASE SaveAsset
  <2> PICK p \in Place, i \in Picture : SaveAsset!(p, i)
    BY <1>1 DEF SaveAsset
  <2>1. doc[p] \in Doc
    BY DEF TrashTypes, Spot
  <2>2. TrashTypes'
    BY <2>1 DEF TrashTypes
  <2> QED
    BY <2>2, NothingMoves
<1>2. CASE MakeAssetsDirectory
  <2> USE <1>2 DEF MakeAssetsDirectory
  <2>1. upload \in [at : {"resolved", "made"}, place : Place, doc : Doc, picture : Picture]
    BY DEF TrashTypes, NoUploading
  <2>2. TrashTypes'
    BY <2>1 DEF TrashTypes, Spot
  <2> QED
    BY <2>2, NothingMoves
<1>3. CASE WriteAsset
  <2> USE <1>3 DEF WriteAsset
  <2>1. upload \in [at : {"resolved", "made"}, place : Place, doc : Doc, picture : Picture]
    BY DEF TrashTypes, NoUploading
  <2> DEFINE p == upload.place
             i == upload.picture
  <2>2. p \in Place /\ p \in Spot /\ p \notin Entry /\ p \in dirs /\ i \in Picture /\ upload.doc \in Doc
    BY <2>1 DEF Spot
  <2>3. /\ pics'[p] = pics[p] \cup {i} /\ \A s \in Spot : s # p => pics'[s] = pics[s]
        /\ \A j \in Picture : j # i => owner'[j] = owner[j]
    BY <2>2 DEF TrashTypes
  <2>4. TrashTypes'
    BY <2>2 DEF TrashTypes
  <2>5. \A e \in Entry : pics'[e] = pics[e]
    BY <2>2, <2>3 DEF Spot
  <2>6. WorkShape' /\ WorkTypes' /\ WayIsFree' /\ OnlyWithImages'
    BY DEF WorkShape, WorkTypes, UnderWay, WayIsFree, OnlyWithImages
  <2>7. HeldSomewhere'
    BY <2>2, <2>3, <2>5 DEF HeldSomewhere
  <2>8. EntryIsEmpty'
    <3>1. work.op \in {"restore", "delete"} /\ work.at # "no" => pics'[work.from] = pics[work.from]
      BY <2>5, AtWork DEF UnderWay
    <3>2. work.op = "trash" /\ work.at # "no" => pics'[work.to] = pics[work.to]
      BY <2>5, AtWork DEF UnderWay
    <3>3. work.op = "delete" => work.at # "no"
      BY DEF WorkTypes, UnderWay, NoWork
    <3> QED
      BY <3>1, <3>2, <3>3 DEF EntryIsEmpty
  <2>9. NothingIsLost'
    <3>1. \A j \in Picture : owner'[j] # NoDoc /\ j \notin given => \E s \in Spot : j \in pics'[s]
      <4> TAKE j \in Picture
      <4>1. CASE j = i
        BY <4>1, <2>2, <2>3
      <4>2. CASE j # i
        BY <4>2, <2>2, <2>3 DEF NothingIsLost
      <4> QED
        BY <4>1, <4>2
    <3> QED
      BY <3>1 DEF NothingIsLost
  <2> QED
    BY <2>4, <2>6, <2>7, <2>8, <2>9
<1>4. CASE WriteAssetFails
  <2> USE <1>4 DEF WriteAssetFails
  <2>1. TrashTypes'
    BY DEF TrashTypes
  <2> QED
    BY <2>1, NothingMoves
<1> QED
  BY <1>1, <1>2, <1>3, <1>4

\* Every step, one lemma for each kind.
LEMMA DiskRemains == ASSUME DiskInv, [TrashNext]_trashVars PROVE DiskInv'
<1>1. CASE UNCHANGED trashVars
  <2>1. TrashTypes'
    BY <1>1 DEF trashVars, DiskInv, TrashTypes
  <2> QED
    BY <1>1, <2>1, NothingMoves DEF trashVars
<1> QED
  BY <1>1, Begins, Creates, RenamesNote, NoteStays, RenamesImages, TurnsBack, Names, RemovesEntry,
     RemovalFails, ImagesBack, NoteBack, Stops, Stores DEF TrashNext

\* A note and an image that were stored are somewhere on the disk until they are
\* given up, for every number of places, entries, notes, images, operations and
\* faults.
THEOREM NothingGetsLost == TrashSpec => []NothingIsLost
<1>1. TrashInit => DiskInv
  BY DiskAtFirst
<1>2. DiskInv /\ [TrashNext]_trashVars => DiskInv'
  BY DiskRemains
<1>3. DiskInv => NothingIsLost
  BY DEF DiskInv
<1> QED
  BY <1>1, <1>2, <1>3, PTL DEF TrashSpec

-----------------------------------------------------------------------------
(* What NotesComeBackWhole rests on. *)

\* A note lies at one spot only, and notes and owners are those there have been.
Unique ==
  /\ \A s, t \in Spot : doc[s] = doc[t] /\ doc[s] # NoDoc => s = t
  /\ \A s \in Spot : doc[s] \in made \cup {NoDoc}
  /\ \A i \in Picture : owner[i] \in made \cup {NoDoc}
  /\ upload # NoUploading => upload.doc \in made

\* The entry an operation is about.
InHand(e) == (work.op \in {"restore", "delete"} /\ e = work.from) \/ (work.op = "trash" /\ e = work.to)

\* The other entries can be restored, or hold no note and are passed over.
Listing == \A e \in Entry : ~InHand(e) => (Listed(e) => Loads(e)) /\ (doc[e] # NoDoc => Listed(e))

Restorable(e, name) == bin[e].name = name /\ bin[e].meta # NoPlace /\ bin[e].room

\* What is on its way is at one end of it.
OnItsWay ==
  /\ work.op \in {"restore", "delete"} => Restorable(work.from, "final")
  /\ work.op = "trash" => Restorable(work.to, "pending")
  /\ work.at = "note" => doc[work.from] # NoDoc
  /\ work.at \in {"images", "name", "undo images", "undo note"} => doc[work.to] # NoDoc

\* ImagesAt the images of a note are: they follow it, and go back before it.
ImagesAt(s) == IF s = work.to /\ work.at \in {"images", "undo note"} THEN work.from ELSE s

ImagesBeside ==
  /\ \A s \in Spot, i \in Picture : doc[s] # NoDoc /\ owner[i] = doc[s] => i \in pics[ImagesAt(s)]
  /\ work.at = "note" /\ ~work.images => pics[work.from] = {}

Whole ==
  /\ torn \in BOOLEAN /\ apart \in BOOLEAN /\ Unique
  /\ ~torn => Listing /\ OnItsWay
  /\ ~torn /\ ~apart => ImagesBeside

-----------------------------------------------------------------------------
(* A note lies at one spot. *)
OneSpotEach(f) ==
  /\ \A s, t \in Spot : f[s] = f[t] /\ f[s] # NoDoc => s = t
  /\ \A s \in Spot : f[s] \in made \cup {NoDoc}

\* Notes are left, or removed.
LEMMA UniqueLeft ==
  ASSUME Unique, NEW f, OneSpotEach(f), \A s \in Spot : doc'[s] \in {f[s], NoDoc},
         UNCHANGED <<made, owner>>, upload' = upload \/ upload' = NoUploading
  PROVE  Unique'
<1>1. \A s, t \in Spot : doc'[s] = doc'[t] /\ doc'[s] # NoDoc => s = t
  BY DEF OneSpotEach
<1> QED BY <1>1 DEF Unique, OneSpotEach

\* A rename to where nothing is.
LEMMA UniqueRenamed ==
  ASSUME Unique, DOMAIN doc = Spot, NEW from \in Spot, NEW to \in Spot, from # to, doc[to] = NoDoc
  PROVE  OneSpotEach([doc EXCEPT ![to] = doc[from], ![from] = NoDoc])
<1> DEFINE g == [doc EXCEPT ![to] = doc[from], ![from] = NoDoc]
<1>1. /\ g[to] = doc[from] /\ g[from] = NoDoc
      /\ \A s \in Spot : s # from /\ s # to => g[s] = doc[s]
  OBVIOUS
<1> HIDE DEF g
<1>2. ASSUME NEW s \in Spot, NEW t \in Spot, g[s] = g[t], g[s] # NoDoc
      PROVE  s = t
  <2>1. CASE s = to
    BY <1>1, <1>2, <2>1 DEF Unique
  <2>2. CASE t = to
    BY <1>1, <1>2, <2>2 DEF Unique
  <2>3. CASE s # to /\ t # to
    BY <1>1, <1>2, <2>3 DEF Unique
  <2> QED BY <2>1, <2>2, <2>3
<1>3. ASSUME NEW s \in Spot PROVE g[s] \in made \cup {NoDoc}
  BY <1>1 DEF Unique
<1> QED BY <1>2, <1>3 DEF OneSpotEach, g

\* The ends of a rename.
LEMMA Ends ==
  ASSUME DiskInv, work.at \notin {"no", "remove"}
  PROVE  /\ work.from \in Spot /\ work.to \in Spot /\ work.from # work.to /\ DOMAIN doc = Spot
         /\ work.op \in {"trash", "restore", "move"}
         /\ work.op = "trash" => work.from \in Place /\ work.to \in Entry
         /\ work.op = "restore" => work.from \in Entry /\ work.to \in Place
         /\ work.op = "move" => work.from \in Place /\ work.to \in Place
         /\ work.at = "note" => doc[work.to] = NoDoc
         /\ work.at # "note" => doc[work.from] = NoDoc
<1>1. UnderWay /\ WorkShape
  BY AtWork DEF DiskInv
<1>2. \A p \in Place, e \in Entry : p # e
  OBVIOUS
<1>3. /\ work.from \in Spot /\ work.to \in Spot /\ work.from # work.to
      /\ work.op \in {"trash", "restore", "move"}
      /\ work.op = "trash" => work.from \in Place /\ work.to \in Entry
      /\ work.op = "restore" => work.from \in Entry /\ work.to \in Place
      /\ work.op = "move" => work.from \in Place /\ work.to \in Place
  BY <1>1, <1>2 DEF UnderWay, Spot
<1>4. work.at \in {"note", "images", "name", "undo images", "undo note"}
  BY <1>1 DEF WorkShape
<1> QED BY <1>3, <1>4 DEF DiskInv, TrashTypes, WayIsFree

LEMMA UniqueStays == ASSUME DiskInv, Unique, [TrashNext]_trashVars PROVE Unique'
<1>0. OneSpotEach(doc) /\ DOMAIN doc = Spot
  BY DEF Unique, OneSpotEach, DiskInv, TrashTypes
<1>1. CASE UNCHANGED <<doc, made, owner>> /\ (upload' = upload \/ upload' = NoUploading)
  BY <1>0, <1>1, UniqueLeft
<1>2. CASE MoveToTrash \/ RestoreTrashItem \/ DeleteTrashItem \/ MoveFile
  BY <1>1, <1>2 DEF MoveToTrash, RestoreTrashItem, DeleteTrashItem, MoveFile, TaskOnly, SameDisk
<1>3. CASE CreateFile
  <2>1. PICK p \in Place, n \in Doc \ made :
          doc' = [doc EXCEPT ![p] = n] /\ made' = made \cup {n} /\ UNCHANGED <<owner, upload>>
    BY <1>3 DEF CreateFile
  <2>2. doc'[p] = n /\ \A s \in Spot : s # p => doc'[s] = doc[s]
    BY <1>0, <2>1 DEF Spot
  <2>3. \A s, t \in Spot : doc'[s] = doc'[t] /\ doc'[s] # NoDoc => s = t
    BY <2>2 DEF Unique
  <2> QED BY <2>1, <2>2, <2>3 DEF Unique
<1>4. CASE RenameNote
  <2>1. work.at = "note" /\ doc' = [doc EXCEPT ![work.to] = doc[work.from], ![work.from] = NoDoc] /\ TaskOnly
    BY <1>4 DEF RenameNote
  <2>2. OneSpotEach(doc')
    BY <2>1, Ends, UniqueRenamed
  <2> QED BY <2>1, <2>2, UniqueLeft DEF TaskOnly
<1>5. CASE RenameNoteFails
  <2>1. TaskOnly /\ \A s \in Spot : doc'[s] \in {doc[s], NoDoc}
    BY <1>0, <1>5 DEF RenameNoteFails, Cleaned, Removed, SameDisk
  <2> QED BY <1>0, <2>1, UniqueLeft DEF TaskOnly
<1>6. CASE RenameImages \/ RenameImagesFails \/ NameEntry \/ NameEntryFails \/ UndoImages
  BY <1>1, <1>6 DEF RenameImages, RenameImagesFails, NameEntry, NameEntryFails, UndoImages, TaskOnly, SameDisk
<1>7. CASE RemoveEntry
  <2>1. TaskOnly /\ \A s \in Spot : doc'[s] \in {doc[s], NoDoc}
    BY <1>0, <1>7 DEF RemoveEntry, Removed
  <2> QED BY <1>0, <2>1, UniqueLeft DEF TaskOnly
<1>8. ASSUME NEW e, RemovedInPart(e) PROVE \A s \in Spot : doc'[s] \in {doc[s], NoDoc}
  BY <1>0, <1>8 DEF RemovedInPart
<1>9. CASE RemoveEntryFails
  <2>1. TaskOnly /\ RemovedInPart(work.from)
    BY <1>9 DEF RemoveEntryFails
  <2> QED BY <1>0, <1>8, <2>1, UniqueLeft DEF TaskOnly
<1>10. CASE UndoNote
  <2>1. OneSpotEach(TakenBack)
    BY <1>10, Ends, UniqueRenamed DEF UndoNote, TakenBack
  <2>2. DOMAIN TakenBack = Spot
    BY <1>0 DEF TakenBack
  <2>3. TaskOnly /\ ((\A s \in Spot : doc'[s] \in {TakenBack[s], NoDoc}) \/ doc' = doc)
    BY <1>10, <2>2 DEF UndoNote, Cleaned, Removed, SameDisk
  <2> QED BY <1>0, <2>1, <2>3, UniqueLeft DEF TaskOnly
<1>11. CASE ServerStops
  <2>1. UNCHANGED <<made, owner>> /\ upload' = NoUploading /\ (RemovedInPart(work.from) \/ doc' = doc)
    BY <1>11 DEF ServerStops, SameDisk
  <2>2. \A s \in Spot : doc'[s] \in {doc[s], NoDoc}
    BY <1>8, <2>1
  <2> QED BY <1>0, <2>1, <2>2, UniqueLeft
<1>12. CASE SaveAsset
  <2>1. PICK p \in Place, i \in Picture :
          /\ doc[p] # NoDoc /\ upload' = [at |-> "resolved", place |-> p, doc |-> doc[p], picture |-> i]
          /\ UNCHANGED <<doc, made, owner>>
    BY <1>12 DEF SaveAsset, UploadOnly
  <2>2. upload'.doc \in made
    BY <2>1 DEF Unique, Spot
  <2> QED BY <2>1, <2>2 DEF Unique
<1>13. CASE MakeAssetsDirectory
  <2>1. UNCHANGED <<doc, made, owner>> /\ upload' = [upload EXCEPT !.at = "made"] /\ upload.at = "resolved"
    BY <1>13 DEF MakeAssetsDirectory, UploadOnly
  <2>2. upload # NoUploading
    BY <2>1 DEF NoUploading
  <2>3. upload'.doc = upload.doc
    BY <2>1, <2>2 DEF DiskInv, TrashTypes
  <2> QED BY <2>1, <2>2, <2>3 DEF Unique
<1>14. CASE WriteAsset
  <2>1. /\ UNCHANGED <<doc, made>> /\ upload' = NoUploading /\ upload.at = "made"
        /\ owner' = [owner EXCEPT ![upload.picture] = upload.doc]
    BY <1>14 DEF WriteAsset, UploadOnly
  <2>2. upload # NoUploading
    BY <2>1 DEF NoUploading
  <2>3. \A i \in Picture : owner'[i] \in made \cup {NoDoc}
    BY <2>1, <2>2 DEF Unique, DiskInv, TrashTypes
  <2> QED BY <2>1, <2>3 DEF Unique
<1>15. CASE WriteAssetFails
  BY <1>1, <1>15 DEF WriteAssetFails, UploadOnly
<1>16. CASE UNCHANGED trashVars
  BY <1>1, <1>16 DEF trashVars
<1> QED BY <1>2, <1>3, <1>4, <1>5, <1>6, <1>7, <1>9, <1>10, <1>11, <1>12, <1>13, <1>14, <1>15, <1>16 DEF TrashNext

-----------------------------------------------------------------------------
(* The entries are listed, and what is on its way is at one end of it. *)
Sound(e) == (Listed(e) => Loads(e)) /\ (doc[e] # NoDoc => Listed(e))

Orderly == Listing /\ OnItsWay

\* Between operations only the entries count.
LEMMA OrderlyAtRest == ASSUME work' = NoWork, \A e \in Entry : Sound(e)' PROVE Orderly'
BY DEF Orderly, Listing, OnItsWay, Sound, InHand, NoWork

\* Nothing is in hand then.
LEMMA NoneInHand == ASSUME Listing, work = NoWork \/ work.op = "move" PROVE \A e \in Entry : Sound(e)
BY DEF Listing, InHand, Sound, NoWork

\* The entry of an operation, and the others.
LEMMA InHandIsAnEnd ==
  ASSUME DiskInv, Listing, work.at \notin {"no", "remove"}
  PROVE  /\ \A e \in Entry : e # work.from /\ e # work.to => Sound(e)
         /\ work.op = "move" => \A e \in Entry : e # work.from /\ e # work.to
<1>1. \A p \in Place, e \in Entry : p # e
  OBVIOUS
<1> QED
  BY <1>1, Ends DEF Listing, InHand, Sound

LEMMA OrderlyBegins ==
  ASSUME DiskInv, Orderly, MoveToTrash \/ RestoreTrashItem \/ DeleteTrashItem \/ MoveFile
  PROVE  Orderly'
<1>1. work = NoWork
  BY DEF MoveToTrash, RestoreTrashItem, DeleteTrashItem, MoveFile, Takes
<1>2. \A e \in Entry : Sound(e)
  BY <1>1, NoneInHand DEF Orderly
<1>3. CASE MoveToTrash
  <2> PICK p \in Place, e \in Entry : MoveToTrash!(p, e)
    BY <1>3 DEF MoveToTrash
  <2>1. work'.op = "trash" /\ work'.at = "note" /\ work'.from = p /\ work'.to = e
    BY TakesShape DEF Spot
  <2>2. bin'[e] = [name |-> "pending", meta |-> p, room |-> TRUE] /\ \A b \in Entry : b # e => bin'[b] = bin[b]
    BY DEF DiskInv, TrashTypes
  <2>3. Listing'
    BY <1>2, <2>1, <2>2 DEF Listing, Sound, InHand, Listed, Loads
  <2>4. OnItsWay'
    BY <2>1, <2>2 DEF OnItsWay, Restorable
  <2> QED BY <2>3, <2>4 DEF Orderly
<1>4. CASE RestoreTrashItem
  <2> PICK e \in Entry : RestoreTrashItem!(e)
    BY <1>4 DEF RestoreTrashItem
  <2>1. bin[e].meta \in Place
    BY DEF DiskInv, TrashTypes, Loads
  <2>2. work'.op = "restore" /\ work'.at = "note" /\ work'.from = e /\ work'.to = bin[e].meta
    BY <2>1, TakesShape DEF Spot
  <2>3. Listing'
    BY <1>2, <2>2 DEF Listing, Sound, InHand, Listed, Loads, SameDisk
  <2>4. OnItsWay'
    BY <2>2 DEF OnItsWay, Restorable, Loads, SameDisk
  <2> QED BY <2>3, <2>4 DEF Orderly
<1>5. CASE DeleteTrashItem
  <2> PICK e \in Entry : DeleteTrashItem!(e)
    BY <1>5 DEF DeleteTrashItem
  <2>2. work'.op = "delete" /\ work'.at = "remove" /\ work'.from = e /\ work'.to = e
    BY TakesShape DEF Spot
  <2>3. Listing'
    BY <1>2, <2>2 DEF Listing, Sound, InHand, Listed, Loads, SameDisk
  <2>4. OnItsWay'
    BY <2>2 DEF OnItsWay, Restorable, Loads, SameDisk
  <2> QED BY <2>3, <2>4 DEF Orderly
<1>6. CASE MoveFile
  <2> PICK p \in Place, q \in Place : MoveFile!(p, q)
    BY <1>6 DEF MoveFile
  <2>2. work'.op = "move" /\ work'.at = "note" /\ work'.from = p /\ work'.to = q
    BY TakesShape DEF Spot
  <2>3. Listing'
    BY <1>2, <2>2 DEF Listing, Sound, InHand, Listed, Loads, SameDisk
  <2>4. OnItsWay'
    BY <2>2 DEF OnItsWay, SameDisk
  <2> QED BY <2>3, <2>4 DEF Orderly
<1> QED BY <1>3, <1>4, <1>5, <1>6

\* The operation goes on with the same entry.
LEMMA OrderlyGoes ==
  ASSUME DiskInv, Orderly, work.at \notin {"no", "remove"}, bin' = bin,
         NEW at \in {"images", "name", "remove", "undo images", "undo note"}, Goes(at),
         \A e \in Entry : e # work.from /\ e # work.to => doc'[e] = doc[e],
         doc'[work.to] # NoDoc
  PROVE  Orderly'
<1>1. /\ work'.at = at /\ work'.op = work.op /\ work'.from = work.from /\ work'.to = work.to
  BY GoesShape DEF DiskInv
<1>2. \A e \in Entry : InHand(e)' <=> InHand(e)
  BY <1>1 DEF InHand
<1>3. \A e \in Entry : e # work.from /\ e # work.to => Sound(e)'
  BY InHandIsAnEnd DEF Orderly, Sound, Listed, Loads
<1>4. \A e \in Entry : e = work.from \/ e = work.to => InHand(e)
  <2>1. \A p \in Place, e \in Entry : p # e
    OBVIOUS
  <2> QED BY <2>1, Ends DEF InHand
<1>5. Listing'
  BY <1>2, <1>3, <1>4 DEF Listing, Sound
<1>6. OnItsWay'
  BY <1>1 DEF Orderly, OnItsWay, Restorable
<1> QED BY <1>5, <1>6 DEF Orderly

LEMMA OrderlyRenames ==
  ASSUME DiskInv, Orderly, RenameNote \/ RenameImages \/ RenameImagesFails \/ NameEntryFails
  PROVE  Orderly'
<1>1. work.at \in {"note", "images", "name"}
  BY DEF RenameNote, RenameImages, RenameImagesFails, NameEntryFails
<1>2. bin' = bin
  BY DEF RenameNote, RenameImages, RenameImagesFails, NameEntryFails, SameDisk
<1>3. /\ \A e \in Entry : e # work.from /\ e # work.to => doc'[e] = doc[e]
      /\ doc'[work.to] # NoDoc
  <2>1. CASE RenameNote
    <3>1. /\ work.at = "note" /\ doc[work.from] # NoDoc
          /\ doc' = [doc EXCEPT ![work.to] = doc[work.from], ![work.from] = NoDoc]
      BY <2>1 DEF RenameNote, Orderly, OnItsWay
    <3>2. \A s \in Spot : s # work.from /\ s # work.to => doc'[s] = doc[s]
      BY <3>1, Ends
    <3> QED BY <3>1, <3>2, Ends DEF Spot
  <2>2. CASE doc' = doc /\ work.at # "note"
    BY <1>1, <2>2 DEF Orderly, OnItsWay
  <2> QED BY <2>1, <2>2 DEF RenameImages, RenameImagesFails, NameEntryFails, SameDisk
<1>4. (work.op = "move" /\ work' = NoWork)
      \/ \E at \in {"images", "name", "remove", "undo images", "undo note"} : Goes(at)
  <2>1. work.op \in {"trash", "restore", "move"}
    BY <1>1, Ends
  <2> QED
    BY <2>1 DEF RenameNote, RenameImages, RenameImagesFails, NameEntryFails, ThenAt, AfterImages
<1>5. CASE \E at \in {"images", "name", "remove", "undo images", "undo note"} : Goes(at)
  BY <1>1, <1>2, <1>3, <1>5, OrderlyGoes
<1>6. CASE work.op = "move" /\ work' = NoWork
  <2>1. \A e \in Entry : e # work.from /\ e # work.to /\ Sound(e)
    BY <1>1, <1>6, InHandIsAnEnd DEF Orderly
  <2>2. \A e \in Entry : Sound(e)'
    BY <1>2, <1>3, <2>1 DEF Sound, Listed, Loads
  <2> QED BY <1>6, <2>2, OrderlyAtRest
<1> QED BY <1>4, <1>5, <1>6

\* The note is at its place again, or still: what is left of the entry prepared
\* for it is passed over.
LEMMA OrderlyBack ==
  ASSUME DiskInv, Orderly, work.at \notin {"no", "remove"}, work' = NoWork,
         NEW docs, \A e \in Entry : e # work.from /\ e # work.to => docs[e] = doc[e],
         docs[work.to] = NoDoc, docs[work.from] # NoDoc,
         (work.op = "trash" /\ Cleaned(work.to, docs)) \/ (doc' = docs /\ bin' = bin),
         DOMAIN docs = Spot
  PROVE  Orderly'
<1>1. \A e \in Entry : e # work.from /\ e # work.to => Sound(e)
  BY InHandIsAnEnd DEF Orderly
<1>2. ASSUME NEW e \in Entry PROVE Sound(e)'
  <2>1. CASE bin' = bin /\ doc' = docs
    <3>1. CASE e # work.from /\ e # work.to
      BY <1>1, <2>1, <3>1 DEF Sound, Listed, Loads
    <3>2. CASE work.op = "trash" /\ e = work.to
      BY <2>1, <3>2 DEF Sound, Listed, Orderly, OnItsWay, Restorable
    <3>3. CASE work.op = "restore" /\ e = work.from
      BY <2>1, <3>3 DEF Sound, Listed, Loads, Orderly, OnItsWay, Restorable
    <3>4. \A p \in Place : p # e
      OBVIOUS
    <3> QED BY <3>1, <3>2, <3>3, <3>4, Ends
  <2>2. CASE work.op = "trash" /\ Removed(work.to, docs)
    <3>1. /\ bin'[work.to] = NoEntry /\ doc'[work.to] = NoDoc
          /\ e # work.to => bin'[e] = bin[e] /\ doc'[e] = docs[e]
      BY <2>2, Ends DEF Removed, DiskInv, TrashTypes, Spot
    <3>2. CASE e = work.to
      BY <3>1, <3>2 DEF Sound, Listed, NoEntry
    <3>3. CASE e # work.to
      <4>1. e # work.from
        BY <2>2, Ends
      <4> QED BY <1>1, <3>1, <3>3, <4>1 DEF Sound, Listed, Loads
    <3> QED BY <3>2, <3>3
  <2> QED BY <2>1, <2>2 DEF Cleaned
<1> QED BY <1>2, OrderlyAtRest

LEMMA OrderlyUndone ==
  ASSUME DiskInv, Orderly, ~torn', RenameNoteFails \/ UndoNote
  PROVE  Orderly'
<1>1. CASE RenameNoteFails
  <2>1. work.at = "note" /\ work' = NoWork
    BY <1>1 DEF RenameNoteFails
  <2>2. (work.op = "trash" /\ Cleaned(work.to, doc)) \/ (doc' = doc /\ bin' = bin)
    BY <1>1 DEF RenameNoteFails, SameDisk
  <2>3. doc[work.to] = NoDoc /\ doc[work.from] # NoDoc /\ DOMAIN doc = Spot
    BY <2>1, Ends DEF Orderly, OnItsWay
  <2> QED BY <2>1, <2>2, <2>3, OrderlyBack
<1>2. CASE UndoNote
  <2>1. work.at = "undo note" /\ work' = NoWork
    BY <1>2 DEF UndoNote
  <2>2. (work.op = "trash" /\ Cleaned(work.to, TakenBack)) \/ (doc' = TakenBack /\ bin' = bin)
    BY <1>2 DEF UndoNote
  <2>3. /\ TakenBack[work.to] = NoDoc /\ TakenBack[work.from] # NoDoc /\ DOMAIN TakenBack = Spot
        /\ \A e \in Entry : e # work.from /\ e # work.to => TakenBack[e] = doc[e]
    BY <2>1, Ends DEF Orderly, OnItsWay, TakenBack, Spot
  <2> QED BY <2>1, <2>2, <2>3, OrderlyBack
<1> QED BY <1>1, <1>2

\* The entry is there, or is gone.
LEMMA OrderlyEnds ==
  ASSUME DiskInv, Orderly, NameEntry \/ RemoveEntry
  PROVE  Orderly'
<1>1. CASE NameEntry
  <2>1. /\ work.at = "name" /\ work.op = "trash" /\ work.to \in Entry /\ work.from \in Place
    BY <1>1, AtWork DEF NameEntry, DiskInv, UnderWay
  <2>2. bin'[work.to] = [bin[work.to] EXCEPT !.name = "final"] /\ \A b \in Entry : b # work.to => bin'[b] = bin[b]
    BY <1>1, <2>1 DEF NameEntry, DiskInv, TrashTypes
  <2>3. bin[work.to] \in [name : {"none", "pending", "final"}, meta : Place \cup {NoPlace}, room : BOOLEAN]
    BY <2>1 DEF DiskInv, TrashTypes
  <2>4. bin'[work.to].name = "final" /\ bin'[work.to].meta = bin[work.to].meta /\ bin'[work.to].room = bin[work.to].room
    BY <2>2, <2>3
  <2>5. ASSUME NEW e \in Entry PROVE Sound(e)'
    <3>1. CASE e = work.to
      BY <1>1, <2>1, <2>4, <3>1 DEF NameEntry, Sound, Listed, Loads, Orderly, OnItsWay, Restorable
    <3>2. CASE e # work.to
      BY <1>1, <2>1, <2>2, <3>2 DEF NameEntry, Sound, Listed, Loads, Orderly, Listing, InHand
    <3> QED BY <3>1, <3>2
  <2> QED BY <1>1, <2>5, OrderlyAtRest DEF NameEntry
<1>2. CASE RemoveEntry
  <2>1. work.at = "remove" /\ work.op \in {"restore", "delete"} /\ work.from \in Entry
    BY <1>2, AtWork DEF RemoveEntry, DiskInv, UnderWay
  <2>2. /\ bin'[work.from] = NoEntry /\ doc'[work.from] = NoDoc
        /\ \A b \in Entry : b # work.from => bin'[b] = bin[b] /\ doc'[b] = doc[b]
    BY <1>2, <2>1 DEF RemoveEntry, Removed, DiskInv, TrashTypes, Spot
  <2>3. \A e \in Entry : Sound(e)'
    BY <2>1, <2>2 DEF Sound, Listed, Loads, Orderly, Listing, InHand, NoEntry
  <2> QED BY <1>2, <2>3, OrderlyAtRest DEF RemoveEntry
<1> QED BY <1>1, <1>2

\* Note, entries and operation as they were.
LEMMA OrderlyLeft == ASSUME Orderly, UNCHANGED <<doc, bin, work>> PROVE Orderly'
BY DEF Orderly, Listing, OnItsWay, InHand, Listed, Loads, Restorable

LEMMA OrderlyStops == ASSUME DiskInv, Orderly, ~torn', ServerStops PROVE Orderly'
<1>1. work.at \in {"no", "note"} /\ SameDisk /\ work' = NoWork
  BY DEF ServerStops
<1>2. CASE work.at = "note"
  <2>1. doc[work.to] = NoDoc /\ doc[work.from] # NoDoc /\ DOMAIN doc = Spot
    BY <1>2, Ends DEF Orderly, OnItsWay
  <2> QED BY <1>1, <1>2, <2>1, OrderlyBack DEF SameDisk
<1>3. CASE work.at = "no"
  <2>1. work = NoWork
    BY <1>3 DEF DiskInv, WorkTypes, UnderWay
  <2> QED BY <1>1, <2>1, OrderlyLeft DEF SameDisk
<1> QED BY <1>1, <1>2, <1>3

LEMMA OrderlyStays == ASSUME DiskInv, Orderly, ~torn', [TrashNext]_trashVars PROVE Orderly'
<1>1. CASE CreateFile
  <2>1. PICK p \in Place, n \in Doc \ made : work = NoWork /\ doc' = [doc EXCEPT ![p] = n] /\ UNCHANGED <<bin, work>>
    BY <1>1 DEF CreateFile
  <2>2. \A e \in Entry : p # e
    OBVIOUS
  <2>3. \A e \in Entry : Sound(e)'
    BY <2>1, <2>2, NoneInHand DEF Orderly, Sound, Listed, Loads, DiskInv, TrashTypes, Spot
  <2> QED BY <2>1, <2>3, OrderlyAtRest
<1>2. CASE UndoImages
  <2>1. work.at = "undo images" /\ Goes("undo note") /\ UNCHANGED <<doc, bin>>
    BY <1>2 DEF UndoImages
  <2> QED BY <2>1, OrderlyGoes DEF Orderly, OnItsWay
<1>3. CASE SaveAsset \/ MakeAssetsDirectory \/ WriteAsset \/ WriteAssetFails \/ UNCHANGED trashVars
  BY <1>3, OrderlyLeft DEF SaveAsset, MakeAssetsDirectory, WriteAsset, WriteAssetFails, UploadOnly, trashVars
<1>4. ~RemoveEntryFails
  BY DEF RemoveEntryFails
<1> QED
  BY <1>1, <1>2, <1>3, <1>4, OrderlyBegins, OrderlyRenames, OrderlyUndone, OrderlyEnds, OrderlyStops DEF TrashNext

-----------------------------------------------------------------------------
(* The images are where their note is, or where it is coming back to. *)
AtRest == work.at \notin {"images", "undo note"}

LEMMA ImagesAtRest == ASSUME AtRest, NEW s PROVE ImagesAt(s) = s
BY DEF AtRest, ImagesAt

\* Notes are left with their images, and others are removed.
LEMMA BesideLeft ==
  ASSUME ImagesBeside, AtRest, AtRest', owner' = owner,
         \A s \in Spot : doc'[s] = NoDoc \/ (doc'[s] = doc[s] /\ pics'[s] = pics[s]),
         work'.at = "note" /\ ~work'.images => pics'[work'.from] = {}
  PROVE  ImagesBeside'
<1>1. \A s \in Spot : ImagesAt(s) = s /\ ImagesAt(s)' = s
  BY ImagesAtRest DEF AtRest, ImagesAt
<1>2. ASSUME NEW s \in Spot, NEW i \in Picture, doc'[s] # NoDoc, owner'[i] = doc'[s] PROVE i \in pics'[s]
  <2>1. doc'[s] = doc[s] /\ pics'[s] = pics[s]
    BY <1>2
  <2>2. i \in pics[ImagesAt(s)]
    BY <1>2, <2>1 DEF ImagesBeside
  <2> QED BY <1>1, <2>1, <2>2
<1> QED BY <1>1, <1>2 DEF ImagesBeside

\* The note that was at spot a, between from and to, is at spot b, and so are its images.
CarriedAlong(from, to, a, b) ==
  /\ \A s \in Spot : s # from /\ s # to => doc'[s] = doc[s] /\ pics'[s] = pics[s]
  /\ \A s \in {from, to} : doc'[s] # NoDoc => s = b /\ doc'[b] = doc[a]
  /\ pics[ImagesAt(a)] \subseteq pics'[ImagesAt(b)'] \/ pics[ImagesAt(a)] = {}
  /\ owner' = owner

LEMMA BesideAtEnds ==
  ASSUME DiskInv, ImagesBeside, NEW from \in Spot, NEW to \in Spot, from = work.from, to = work.to,
         work.at \notin {"no", "remove"}, work'.at # "note",
         work'.at \notin {"no", "remove"} => work'.to = to,
         NEW a \in {from, to}, NEW b \in {from, to}, CarriedAlong(from, to, a, b)
  PROVE  ImagesBeside'
<1> USE DEF CarriedAlong
<1>1. \A s \in Spot : s # to => ImagesAt(s) = s
  BY DEF ImagesAt
<1>2. \A s \in Spot : s # to => ImagesAt(s)' = s
  <2>1. CASE work'.at \notin {"no", "remove"}
    BY <2>1 DEF ImagesAt
  <2>2. CASE work'.at \in {"no", "remove"}
    BY <2>2 DEF ImagesAt
  <2> QED BY <2>1, <2>2
<1>3. ASSUME NEW s \in Spot, NEW i \in Picture, doc'[s] # NoDoc, owner'[i] = doc'[s] PROVE i \in pics'[ImagesAt(s)']
  <2>1. CASE s # from /\ s # to
    BY <1>1, <1>2, <1>3, <2>1 DEF ImagesBeside
  <2>2. CASE s \in {from, to}
    <3>1. s = b /\ doc'[b] = doc[a] /\ a \in Spot
      BY <1>3, <2>2, Ends
    <3>2. i \in pics[ImagesAt(a)]
      BY <1>3, <3>1 DEF ImagesBeside
    <3> QED BY <3>1, <3>2
  <2> QED BY <2>1, <2>2
<1> QED BY <1>3 DEF ImagesBeside

LEMMA BesideBegins ==
  ASSUME DiskInv, ImagesBeside, MoveToTrash \/ RestoreTrashItem \/ DeleteTrashItem \/ MoveFile
  PROVE  ImagesBeside'
<1>1. work = NoWork /\ UNCHANGED <<doc, pics, dirs, owner>>
  BY DEF MoveToTrash, RestoreTrashItem, DeleteTrashItem, MoveFile, Takes, TaskOnly, SameDisk
<1>2. PICK op \in {"trash", "restore", "delete", "move"}, from \in Spot, to \in Spot : Takes(op, from, to)
  <2>1. ASSUME NEW e \in Entry, Loads(e) PROVE bin[e].meta \in Spot
    BY <2>1 DEF DiskInv, TrashTypes, Loads, Spot
  <2> QED
    BY <2>1 DEF MoveToTrash, RestoreTrashItem, DeleteTrashItem, MoveFile, Spot
<1>3. /\ work'.at \in {"note", "remove"} /\ work'.from = from /\ (~work'.images => from \notin dirs)
  BY <1>2, TakesShape
<1>4. ~work'.images => pics'[work'.from] = {}
  BY <1>1, <1>3 DEF DiskInv, HeldSomewhere
<1>5. AtRest /\ AtRest'
  BY <1>1, <1>3 DEF AtRest, NoWork
<1> QED BY <1>1, <1>4, <1>5, BesideLeft

LEMMA BesideCreates == ASSUME DiskInv, Unique, ImagesBeside, CreateFile PROVE ImagesBeside'
<1> PICK p \in Place, n \in Doc \ made : CreateFile!(p, n)
  BY DEF CreateFile
<1>1. AtRest /\ AtRest' /\ work' = NoWork
  BY DEF AtRest, NoWork
<1>2. doc'[p] = n /\ \A s \in Spot : s # p => doc'[s] = doc[s]
  BY DEF DiskInv, TrashTypes, Spot
<1>3. \A i \in Picture : owner[i] # n
  BY DEF Unique
<1>4. \A s \in Spot, i \in Picture : doc'[s] # NoDoc /\ owner'[i] = doc'[s] => i \in pics'[s]
  BY <1>1, <1>2, <1>3, ImagesAtRest DEF ImagesBeside
<1> QED BY <1>1, <1>4 DEF ImagesBeside, AtRest, ImagesAt, NoWork

LEMMA BesideRenamed == ASSUME DiskInv, ImagesBeside, RenameNote PROVE ImagesBeside'
<1> PICK from \in Spot, to \in Spot : from = work.from /\ to = work.to
  BY Ends DEF RenameNote
<1>1. /\ work.at = "note" /\ UNCHANGED <<pics, owner>>
      /\ doc' = [doc EXCEPT ![to] = doc[from], ![from] = NoDoc]
  BY DEF RenameNote, TaskOnly
<1>2. doc'[to] = doc[from] /\ doc'[from] = NoDoc /\ \A s \in Spot : s # from /\ s # to => doc'[s] = doc[s]
  BY <1>1, Ends
<1>3. \/ work.images /\ work'.at = "images" /\ work'.from = from /\ work'.to = to
      \/ ~work.images /\ work'.at \in {"name", "remove"} /\ work'.from = from /\ work'.to = to
      \/ ~work.images /\ work' = NoWork
  <2>1. work.op \in {"trash", "restore", "move"}
    BY <1>1, Ends
  <2>2. \/ work.images /\ Goes("images")
        \/ ~work.images /\ \E at \in {"name", "remove"} : Goes(at)
        \/ ~work.images /\ work' = NoWork
    BY <2>1 DEF RenameNote, ThenAt, AfterImages, DiskInv, WorkShape
  <2>3. WorkShape
    BY DEF DiskInv
  <2> QED BY <2>2, <2>3, GoesShape
<1>4. ImagesAt(from) = from
  BY <1>1 DEF ImagesAt
<1>5. pics[ImagesAt(from)] \subseteq pics'[ImagesAt(to)'] \/ pics[ImagesAt(from)] = {}
  <2>1. CASE work.images
    <3>1. ImagesAt(to)' = from
      BY <1>3, <2>1 DEF ImagesAt
    <3> QED BY <1>1, <1>4, <3>1
  <2>2. CASE ~work.images
    BY <1>1, <1>4, <2>2 DEF ImagesBeside
  <2> QED BY <2>1, <2>2
<1>6. work'.at # "note" /\ work'.at # "undo note" /\ (work'.at \notin {"no", "remove"} => work'.to = to /\ work'.from = from)
  BY <1>3, Rests
<1>7. CarriedAlong(from, to, from, to)
  BY <1>1, <1>2, <1>5 DEF CarriedAlong
<1> QED BY <1>1, <1>6, <1>7, BesideAtEnds

LEMMA BesideSwept ==
  ASSUME DiskInv, ImagesBeside, RenameImages \/ (UndoImages /\ ~torn')
  PROVE  ImagesBeside'
<1> PICK from \in Spot, to \in Spot : from = work.from /\ to = work.to
  BY Ends DEF RenameImages, UndoImages
<1>0. from \in Spot /\ to \in Spot /\ from # to /\ work.at \in {"images", "undo images"} /\ doc[from] = NoDoc
  BY Ends DEF RenameImages, UndoImages
<1>1. CASE RenameImages
  <2>1. /\ work.at = "images" /\ UNCHANGED <<doc, owner>>
        /\ pics' = [pics EXCEPT ![to] = pics[from], ![from] = {}]
    BY <1>1 DEF RenameImages, Swept, TaskOnly
  <2>2. /\ pics'[to] = pics[from]
        /\ \A s \in Spot : s # from /\ s # to => pics'[s] = pics[s]
    BY <1>0, <2>1 DEF DiskInv, TrashTypes
  <2>3. \/ work'.at \in {"name", "remove"} /\ work'.from = from /\ work'.to = to
        \/ work' = NoWork
    BY <1>1, GoesShape, Ends DEF RenameImages, ThenAt, AfterImages, DiskInv
  <2>4. work'.at \notin {"note", "undo note", "images"} /\ (work'.at \notin {"no", "remove"} => work'.to = to /\ work'.from = from)
    BY <2>3, Rests
  <2>5. ImagesAt(to) = from /\ ImagesAt(to)' = to
    BY <2>1, <2>4 DEF ImagesAt
  <2>6. CarriedAlong(from, to, to, to)
    BY <1>0, <2>1, <2>2, <2>5 DEF CarriedAlong
  <2> QED BY <1>0, <2>1, <2>4, <2>6, BesideAtEnds
<1>2. CASE UndoImages /\ ~torn'
  <2>1. /\ work.at = "undo images" /\ UNCHANGED <<doc, owner>> /\ Goes("undo note")
        /\ pics' = [pics EXCEPT ![from] = pics[to], ![to] = {}]
    BY <1>2 DEF UndoImages, Swept, TaskOnly
  <2>2. /\ pics'[from] = pics[to]
        /\ \A s \in Spot : s # from /\ s # to => pics'[s] = pics[s]
    BY <1>0, <2>1 DEF DiskInv, TrashTypes
  <2>3. work'.at = "undo note" /\ work'.from = from /\ work'.to = to
    BY <2>1, GoesShape DEF DiskInv
  <2>5. ImagesAt(to) = to /\ ImagesAt(to)' = from
    BY <2>1, <2>3 DEF ImagesAt
  <2>6. CarriedAlong(from, to, to, to)
    BY <1>0, <2>1, <2>2, <2>5 DEF CarriedAlong
  <2> QED BY <1>0, <2>1, <2>3, <2>6, BesideAtEnds
<1> QED BY <1>1, <1>2

LEMMA BesideTurns ==
  ASSUME DiskInv, ImagesBeside, RenameImagesFails \/ NameEntryFails
  PROVE  ImagesBeside'
<1> PICK from \in Spot, to \in Spot : from = work.from /\ to = work.to
  BY Ends DEF RenameImagesFails, NameEntryFails
<1>1. UNCHANGED <<doc, pics, owner>> /\ work.at \in {"images", "name"}
  BY DEF RenameImagesFails, NameEntryFails, SameDisk, TaskOnly
<1>2. from \in Spot /\ to \in Spot /\ from # to /\ doc[from] = NoDoc
  BY <1>1, Ends
<1>3. /\ work'.from = from /\ work'.to = to
      /\ \/ work.at = "images" /\ work'.at = "undo note"
         \/ work.at = "name" /\ work.images /\ work'.at = "undo images"
         \/ work.at = "name" /\ ~work.images /\ work'.at = "undo note"
  BY GoesShape DEF RenameImagesFails, NameEntryFails, DiskInv
<1>4. pics[ImagesAt(to)] \subseteq pics'[ImagesAt(to)'] \/ pics[ImagesAt(to)] = {}
  <2>1. CASE work.at = "images" \/ work.images
    BY <1>1, <1>3, <2>1 DEF ImagesAt
  <2>2. CASE work.at = "name" /\ ~work.images
    <3>1. work.op = "trash"
      BY <2>2, AtWork DEF DiskInv, UnderWay
    <3> QED BY <2>2, <3>1 DEF ImagesAt, DiskInv, EntryIsEmpty
  <2> QED BY <1>1, <2>1, <2>2
<1>5. CarriedAlong(from, to, to, to)
  BY <1>1, <1>2, <1>4 DEF CarriedAlong
<1> QED BY <1>1, <1>3, <1>5, BesideAtEnds

LEMMA BesideUndone == ASSUME DiskInv, ImagesBeside, ~torn', UndoNote PROVE ImagesBeside'
<1> PICK from \in Spot, to \in Spot : from = work.from /\ to = work.to
  BY Ends DEF UndoNote
<1>1. /\ work.at = "undo note" /\ work' = NoWork /\ owner' = owner
      /\ Cleaned(to, TakenBack) \/ (doc' = TakenBack /\ UNCHANGED <<dirs, pics, bin>>)
  BY DEF UndoNote, TaskOnly
<1>2. /\ from \in Spot /\ to \in Spot /\ from # to
      /\ DOMAIN TakenBack = Spot /\ TakenBack[to] = NoDoc /\ TakenBack[from] = doc[to]
      /\ \A s \in Spot : s # from /\ s # to => TakenBack[s] = doc[s]
  BY <1>1, Ends DEF TakenBack
<1>3. /\ doc'[to] = NoDoc /\ doc'[from] = doc[to]
      /\ \A s \in Spot : s # from /\ s # to => doc'[s] = doc[s]
      /\ \A s \in Spot : s # to => pics'[s] = pics[s]
  BY <1>1, <1>2 DEF Cleaned, Removed, DiskInv, TrashTypes
<1>4. ImagesAt(to) = from /\ ImagesAt(from)' = from /\ work'.at = "no"
  BY <1>1, Rests DEF ImagesAt
<1>5. CarriedAlong(from, to, to, from)
  BY <1>1, <1>2, <1>3, <1>4 DEF CarriedAlong
<1> QED BY <1>1, <1>4, <1>5, BesideAtEnds

LEMMA BesideEnds ==
  ASSUME DiskInv, ImagesBeside, RenameNoteFails \/ RemoveEntry \/ NameEntry \/ (ServerStops /\ ~torn')
  PROVE  ImagesBeside'
<1>1. work' = NoWork /\ owner' = owner /\ AtRest /\ AtRest' /\ work'.at = "no"
  BY Rests DEF RenameNoteFails, RemoveEntry, NameEntry, ServerStops, TaskOnly, AtRest
<1>2. SameDisk \/ (\E s \in Spot : Removed(s, doc)) \/ UNCHANGED <<doc, pics>>
  <2>1. CASE RenameNoteFails
    BY <2>1, Ends DEF RenameNoteFails, Cleaned, SameDisk
  <2>2. CASE RemoveEntry
    BY <2>2, AtWork DEF RemoveEntry, DiskInv, UnderWay, Spot
  <2> QED BY <2>1, <2>2 DEF NameEntry, ServerStops
<1>3. \A s \in Spot : doc'[s] = NoDoc \/ (doc'[s] = doc[s] /\ pics'[s] = pics[s])
  BY <1>2 DEF SameDisk, Removed, DiskInv, TrashTypes
<1> QED BY <1>1, <1>3, BesideLeft

LEMMA BesideLater ==
  ASSUME ImagesBeside, UNCHANGED <<doc, pics, owner, work>>
  PROVE  ImagesBeside'
BY DEF ImagesBeside, ImagesAt

LEMMA BesideStored == ASSUME DiskInv, Unique, ImagesBeside, ~apart', WriteAsset PROVE ImagesBeside'
<1> DEFINE p == upload.place
           n == upload.picture
<1>1. upload \in [at : {"resolved", "made"}, place : Place, doc : Doc, picture : Picture]
  BY DEF WriteAsset, NoUploading, DiskInv, TrashTypes
<1>2. /\ p \in Spot /\ n \in Picture /\ work' = work /\ work = NoWork /\ doc' = doc /\ doc[p] = upload.doc
      /\ pics'[p] = pics[p] \cup {n} /\ \A s \in Spot : s # p => pics'[s] = pics[s]
      /\ owner'[n] = upload.doc /\ \A i \in Picture : i # n => owner'[i] = owner[i]
  BY <1>1 DEF WriteAsset, UploadOnly, DiskInv, TrashTypes, Spot
<1>3. AtRest /\ AtRest' /\ work'.at # "note"
  BY <1>2 DEF AtRest, NoWork
<1>4. ASSUME NEW s \in Spot, NEW i \in Picture, doc'[s] # NoDoc, owner'[i] = doc'[s] PROVE i \in pics'[s]
  <2>1. CASE i = n
    <3>1. s = p
      BY <1>2, <1>4, <2>1 DEF Unique
    <3> QED BY <1>2, <2>1, <3>1
  <2>2. CASE i # n
    <3>1. i \in pics[s]
      BY <1>2, <1>3, <1>4, <2>2, ImagesAtRest DEF ImagesBeside
    <3> QED BY <1>2, <3>1
  <2> QED BY <2>1, <2>2
<1>5. \A s \in Spot : ImagesAt(s)' = s
  BY <1>3 DEF AtRest, ImagesAt
<1> QED BY <1>3, <1>4, <1>5 DEF ImagesBeside

LEMMA BesideStays ==
  ASSUME DiskInv, Unique, ImagesBeside, ~torn', ~apart', [TrashNext]_trashVars
  PROVE  ImagesBeside'
<1>1. CASE SaveAsset \/ MakeAssetsDirectory \/ WriteAssetFails \/ UNCHANGED trashVars
  BY <1>1, BesideLater DEF SaveAsset, MakeAssetsDirectory, WriteAssetFails, UploadOnly, trashVars
<1>2. ~RemoveEntryFails
  BY DEF RemoveEntryFails
<1> QED
  BY <1>1, <1>2, BesideBegins, BesideCreates, BesideRenamed, BesideSwept, BesideTurns, BesideUndone, BesideEnds,
     BesideStored DEF TrashNext

-----------------------------------------------------------------------------
LEMMA WholeAtFirst == TrashInit => Whole
<1> SUFFICES ASSUME TrashInit PROVE Whole
  OBVIOUS
<1>1. \A s \in Spot : doc[s] # NoDoc => s \in Place
  BY DEF TrashInit, Spot
<1>2. Unique
  BY <1>1 DEF TrashInit, Unique, Spot
<1>3. Listing /\ OnItsWay
  BY DEF TrashInit, Listing, OnItsWay, Listed, NoEntry, NoWork
<1>4. ImagesBeside
  BY DEF TrashInit, ImagesBeside, NoWork
<1> QED BY <1>2, <1>3, <1>4 DEF Whole, TrashInit

LEMMA WholeStays == ASSUME DiskInv, Whole, [TrashNext]_trashVars PROVE Whole'
<1>1. (torn => torn') /\ (apart => apart') /\ torn' \in BOOLEAN /\ apart' \in BOOLEAN
  <2>1. (MoveToTrash \/ RestoreTrashItem \/ DeleteTrashItem \/ MoveFile) => UNCHANGED <<torn, apart>>
    BY DEF MoveToTrash, RestoreTrashItem, DeleteTrashItem, MoveFile, Takes, TaskOnly
  <2>2. (CreateFile \/ RenameNote \/ RenameNoteFails \/ RenameImages \/ RenameImagesFails) => UNCHANGED <<torn, apart>>
    BY DEF CreateFile, RenameNote, RenameNoteFails, RenameImages, RenameImagesFails, TaskOnly
  <2>3. (NameEntry \/ NameEntryFails \/ RemoveEntry) => UNCHANGED <<torn, apart>>
    BY DEF NameEntry, NameEntryFails, RemoveEntry, TaskOnly
  <2>4. (RemoveEntryFails \/ UndoImages \/ UndoNote) => (torn' = TRUE \/ torn' = torn) /\ apart' = apart
    BY DEF RemoveEntryFails, UndoImages, UndoNote, TaskOnly
  <2>5. (SaveAsset \/ MakeAssetsDirectory \/ WriteAssetFails) => UNCHANGED <<torn, apart>>
    BY DEF SaveAsset, MakeAssetsDirectory, WriteAssetFails, UploadOnly
  <2>6. ServerStops => torn' \in BOOLEAN /\ (torn => torn') /\ apart' = apart
    BY Zenon DEF ServerStops
  <2>7. WriteAsset => apart' \in BOOLEAN /\ torn' = torn /\ (apart => apart')
    BY Zenon DEF WriteAsset, UploadOnly
  <2>8. UNCHANGED trashVars => UNCHANGED <<torn, apart>>
    BY DEF trashVars
  <2>9. torn \in BOOLEAN /\ apart \in BOOLEAN
    BY DEF Whole
  <2> QED BY <2>1, <2>2, <2>3, <2>4, <2>5, <2>6, <2>7, <2>8, <2>9 DEF TrashNext
<1>2. Unique'
  BY UniqueStays DEF Whole
<1>3. ~torn' => Listing' /\ OnItsWay'
  BY <1>1, OrderlyStays DEF Whole, Orderly
<1>4. ~torn' /\ ~apart' => ImagesBeside'
  BY <1>1, BesideStays DEF Whole
<1> QED BY <1>1, <1>2, <1>3, <1>4 DEF Whole

LEMMA WholeSuffices == ASSUME DiskInv, Whole PROVE NotesComeBackWhole
<1> SUFFICES ASSUME work = NoWork, ~torn
             PROVE  /\ \A e \in Entry : Listed(e) => Loads(e)
                    /\ \A n \in made \ given : \E s \in Spot :
                         /\ doc[s] = n /\ (s \in Entry => Loads(s))
                         /\ \A i \in Picture : owner[i] = n /\ ~apart => i \in pics[s]
  BY DEF NotesComeBackWhole
<1>1. \A e \in Entry : Sound(e)
  BY NoneInHand DEF Whole
<1>2. ASSUME NEW n \in made \ given
      PROVE  \E s \in Spot : /\ doc[s] = n /\ (s \in Entry => Loads(s))
                             /\ \A i \in Picture : owner[i] = n /\ ~apart => i \in pics[s]
  <2>1. PICK s \in Spot : doc[s] = n
    BY DEF DiskInv, NothingIsLost
  <2>2. n # NoDoc
    BY DEF DiskInv, TrashTypes
  <2>3. s \in Entry => Loads(s)
    BY <1>1, <2>1, <2>2 DEF Sound
  <2>4. ImagesAt(s) = s
    BY DEF ImagesAt, NoWork
  <2>5. \A i \in Picture : owner[i] = n /\ ~apart => i \in pics[s]
    BY <2>1, <2>2, <2>4 DEF Whole, ImagesBeside
  <2> QED BY <2>1, <2>3, <2>5
<1> QED BY <1>1, <1>2 DEF Sound

\* Between operations, unless one was torn, the trash can be listed and every note
\* is at a place or in an entry it can be restored from, with its images beside it
\* unless one was stored while its note was on its way.
THEOREM NotesComeBack == TrashSpec => []NotesComeBackWhole
<1>1. TrashInit => DiskInv /\ Whole
  BY DiskAtFirst, WholeAtFirst
<1>2. DiskInv /\ Whole /\ [TrashNext]_trashVars => DiskInv' /\ Whole'
  BY DiskRemains, WholeStays
<1>3. DiskInv /\ Whole => NotesComeBackWhole
  BY WholeSuffices
<1> QED BY <1>1, <1>2, <1>3, PTL DEF TrashSpec

-----------------------------------------------------------------------------
(* What MoveIsWholeOrUndone rests on. *)
Sheet == [link : Link \cup {NoLink}, images : Title \cup {Nothing, "none"}]
Sheets == [Where -> Sheet]

MoveRecords ==
  [at : {"no", "checked", "note", "images", "names", "sync", "write"},
   source : Where \cup {NoWhere}, target : Where \cup {NoWhere}, stale : BOOLEAN, images : BOOLEAN,
   todo : SUBSET Where, done : SUBSET Where, planned : Sheets, kept : Sheets, back : BOOLEAN, lost : BOOLEAN]

HistoryShape ==
  before = [page |-> before.page, owning |-> before.owning, source |-> before.source, target |-> before.target,
            stale |-> before.stale, unsynced |-> before.unsynced]

MoveTypes ==
  /\ HistoryShape
  /\ page \in Sheets /\ before.page \in Sheets /\ before.unsynced \in Where \cup {NoWhere}
  /\ preview # NoPreview => preview.source \in Where /\ preview.target \in Where
  /\ batch \in MoveRecords
  /\ batch.at # "no" => batch.source \in Where /\ batch.target \in Where

\* The link of a note of these pages after the move, and its text.
LinkAfter(pages, p, source, target) ==
  LET goal == LeadsTo(p, pages[p].link)
      newPath == Remapped(p, source, target)
      newGoal == Remapped(goal, source, target)
  IN  IF pages[p].link = NoLink \/ ~(goal \in Where /\ pages[goal] # NoPage) \/ (newPath = p /\ newGoal = goal)
      THEN pages[p].link ELSE LinkTo(newPath, newGoal)
TextAfter(pages, p, source, target) ==
  [link |-> LinkAfter(pages, p, source, target),
   images |-> IF p = source THEN Renamed(pages[p].images, source.title, target.title) ELSE pages[p].images]

\* A plain move was checked against the notes there are, unless one was saved since.
CheckHolds == batch.at = "checked" /\ ~batch.stale => Rewrites(batch.source, batch.target) = {}

InMove == batch.at \in {"note", "images", "names", "sync", "write"}

\* The move is the one the history tells of, from a note to where none is.
AsBegun ==
  /\ batch.source = before.source /\ batch.target = before.target
  /\ before.page[before.source] # NoPage /\ before.page[before.target] = NoPage
  /\ before.source \in before.owning => before.target \notin before.owning

\* What is written and to be written is what the links ask for, and the rest needs nothing.
Plan == batch.todo \cup batch.done
PlanHolds ==
  /\ before.target \notin Plan
  /\ \A p \in Plan : batch.planned[p] = TextAfter(before.page, p, before.source, before.target)
  /\ ~batch.back /\ ~before.stale => \A p \in Where \ Plan : before.page[p] # NoPage =>
                        LinkAfter(before.page, p, before.source, before.target) = before.page[p].link

\* The text a note has after the roll-back: its own, or for the note that was
\* written with an error, the one of the plan.
Left(p) ==
  IF p = before.unsynced
  THEN [link |-> LinkAfter(before.page, p, before.source, before.target),
        images |-> IF p = before.source /\ before.source \notin before.owning
                   THEN Renamed(before.page[p].images, before.source.title, before.target.title) ELSE before.page[p].images]
  ELSE before.page[p]

\* That text once its note, and its images, have been moved, before it is rewritten.
MovedText(p) ==
  IF p = before.source /\ before.source \in before.owning
  THEN [Left(p) EXCEPT !.images = Renamed(@, before.source.title, before.target.title)]
  ELSE Left(p)
OwningMoved ==
  IF before.source \in before.owning THEN (before.owning \ {before.source}) \cup {before.target} ELSE before.owning

\* The text of a note now: rewritten, or only moved.
Written(p) == IF p \in batch.done THEN batch.planned[p] ELSE MovedText(p)

\* The note has gone to its new path, with the text it had; and then with its images.
OnlyShifted ==
  page[before.source] = NoPage /\ \A p \in Where \ {before.target} : page[NowAt(p)] = before.page[p]
AllShifted ==
  /\ owning = OwningMoved /\ page[before.source] = NoPage
  /\ \A p \in Where \ {before.target} : page[NowAt(p)] = Written(p)
  /\ \A p \in batch.done : batch.kept[p] = MovedText(p)
\* It has come back with the text it had at the new path.
ComeBack == page[before.target] = NoPage /\ \A p \in Where \ {before.target} : page[p] = MovedText(p)
\* Everything has.
AllBack == owning = before.owning /\ \A p \in Where : page[p] = Left(p)
Excused ==
  \/ before.page[before.source].images = before.target.title /\ before.source.title # before.target.title
  \/ before.target \in before.owning

Forward ==
  /\ ~batch.lost /\ batch.todo \cap batch.done = {} /\ before.unsynced = NoWhere
  /\ batch.at # "write" => batch.done = {}
  /\ batch.at = "note" => page = before.page /\ owning = before.owning /\ batch.images = (before.source \in before.owning)
  /\ batch.at \in {"images", "names"} => before.source \in before.owning /\ OnlyShifted
  /\ batch.at = "images" => owning = before.owning
  /\ batch.at = "names" => owning = OwningMoved
  /\ batch.at \in {"sync", "write"} => AllShifted
  /\ batch.at = "write" => batch.todo # {}

Backward ==
  /\ batch.images = (before.source \in before.owning)
  /\ batch.at = "write" => batch.done # {}
  /\ batch.at # "write" => batch.done = {}
  /\ batch.at \in {"write", "note"} => AllShifted
  /\ batch.at \in {"images", "names"} => before.source \in before.owning /\ ComeBack
  /\ batch.at = "images" => owning = OwningMoved
  /\ batch.at = "names" => owning = before.owning /\ before.source.title # before.target.title
  /\ batch.at = "sync" => AllBack \/ Excused

MoveInv ==
  /\ MoveTypes /\ CheckHolds /\ MoveIsWholeOrUndone
  /\ InMove => verdict = "none" /\ AsBegun /\ PlanHolds
  /\ InMove /\ ~batch.back => Forward
  /\ InMove /\ batch.back /\ ~batch.lost /\ before.target \notin before.owning => Backward

-----------------------------------------------------------------------------
(* Links and texts. *)
USE MoveAssumption DEF MoveAssumption

LEMMA LinksLead ==
  ASSUME NEW p \in Where, NEW q \in Where
  PROVE  LinkTo(p, q) \in Link /\ LeadsTo(p, LinkTo(p, q)) = q
<1>1. /\ p.shelf \in Shelf /\ q.shelf \in Shelf /\ q.title \in Title
      /\ q = [shelf |-> q.shelf, title |-> q.title]
  BY DEF Where
<1>2. q.shelf # "here"
  BY <1>1
<1>3. LinkTo(p, q) \in Link
  BY <1>1 DEF LinkTo, Link
<1>4. CASE p.shelf = q.shelf
  <2>1. LinkTo(p, q) = [way |-> "here", title |-> q.title]
    BY <1>4 DEF LinkTo
  <2> QED BY <1>1, <1>3, <1>4, <2>1 DEF LeadsTo
<1>5. CASE p.shelf # q.shelf
  <2>1. LinkTo(p, q) = [way |-> q.shelf, title |-> q.title]
    BY <1>5 DEF LinkTo
  <2> QED BY <1>1, <1>2, <1>3, <2>1 DEF LeadsTo
<1> QED BY <1>3, <1>4, <1>5

LEMMA RemappedStays == ASSUME NEW p \in Where, NEW s \in Where, NEW t \in Where PROVE Remapped(p, s, t) \in Where
BY DEF Remapped

\* What the plan asks for, seen from the notes there are.
LEMMA PlanAsksFor ==
  ASSUME NEW p \in Where, NEW s \in Where, NEW t \in Where
  PROVE  Replacement(p, s, t) = LinkAfter(page, p, s, t) /\ Updated(p, s, t) = TextAfter(page, p, s, t)
BY DEF Replacement, LinkAfter, Updated, TextAfter, There

\* A link leads where it led.
LEMMA LinkFollows ==
  ASSUME NEW pages \in Sheets, NEW p \in Where, NEW s \in Where, NEW t \in Where
  PROVE  /\ LinkAfter(pages, p, s, t) \in Link \cup {NoLink}
         /\ LET goal == LeadsTo(p, pages[p].link)
            IN  pages[p].link # NoLink /\ goal \in Where /\ pages[goal] # NoPage
                  => LeadsTo(Remapped(p, s, t), LinkAfter(pages, p, s, t)) = Remapped(goal, s, t)
<1> DEFINE goal == LeadsTo(p, pages[p].link)
<1>1. pages[p].link \in Link \cup {NoLink}
  BY DEF Sheets, Sheet
<1>2. CASE pages[p].link = NoLink \/ ~(goal \in Where /\ pages[goal] # NoPage)
  BY <1>1, <1>2 DEF LinkAfter
<1>3. CASE pages[p].link # NoLink /\ goal \in Where /\ pages[goal] # NoPage
  <2>1. Remapped(p, s, t) \in Where /\ Remapped(goal, s, t) \in Where
    BY <1>3, RemappedStays
  <2>2. CASE Remapped(p, s, t) = p /\ Remapped(goal, s, t) = goal
    BY <1>1, <1>3, <2>2 DEF LinkAfter
  <2>3. CASE ~(Remapped(p, s, t) = p /\ Remapped(goal, s, t) = goal)
    <3>1. LinkAfter(pages, p, s, t) = LinkTo(Remapped(p, s, t), Remapped(goal, s, t))
      BY <1>3, <2>3 DEF LinkAfter
    <3> QED BY <2>1, <3>1, LinksLead
  <2> QED BY <2>2, <2>3
<1> QED BY <1>2, <1>3

LEMMA SheetsHold ==
  /\ NoPage \in Sheet /\ Empty \in Sheets
  /\ \A pages \in Sheets : \A p, s, t \in Where : TextAfter(pages, p, s, t) \in Sheet
<1>1. NoPage \in Sheet
  BY DEF NoPage, Sheet
<1>2. Empty \in Sheets
  BY <1>1 DEF Empty, Sheets
<1>3. ASSUME NEW pages \in Sheets, NEW p \in Where, NEW s \in Where, NEW t \in Where PROVE TextAfter(pages, p, s, t) \in Sheet
  <2>1. LinkAfter(pages, p, s, t) \in Link \cup {NoLink}
    BY LinkFollows
  <2>2. pages[p].images \in Title \cup {Nothing, "none"}
    BY DEF Sheets, Sheet
  <2>3. t.title \in Title
    BY DEF Where
  <2>4. Renamed(pages[p].images, s.title, t.title) \in Title \cup {Nothing, "none"}
    BY <2>2, <2>3 DEF Renamed
  <2> DEFINE images == IF p = s THEN Renamed(pages[p].images, s.title, t.title) ELSE pages[p].images
  <2>5. images \in Title \cup {Nothing, "none"}
    BY <2>2, <2>4
  <2> HIDE DEF images
  <2>6. [link |-> LinkAfter(pages, p, s, t), images |-> images] \in Sheet
    BY <2>1, <2>5 DEF Sheet
  <2> QED BY <2>6 DEF TextAfter, images
<1> QED BY <1>1, <1>2, <1>3

\* A text whose images have been renamed.
LEMMA RenamedText ==
  ASSUME NEW text \in Sheet, NEW old \in Title, NEW new \in Title,
         NEW text2, text2 = [text EXCEPT !.images = Renamed(text.images, old, new)]
  PROVE  /\ text2 \in Sheet /\ text2.link = text.link /\ text2.images = Renamed(text.images, old, new)
         /\ old = new => text2 = text
BY DEF Sheet, Renamed

\* Paths before and after.
LEMMA PathsApart ==
  ASSUME before.source \in Where, before.target \in Where, before.source # before.target
  PROVE  /\ NowAt(before.source) = before.target
         /\ \A p \in Where : p # before.source => NowAt(p) = p
         /\ \A p \in Where : NowAt(p) \in Where
         /\ \A p \in Where \ {before.target} : NowAt(p) # before.source
         /\ \A p, q \in Where \ {before.target} : NowAt(p) = NowAt(q) => p = q
BY DEF NowAt, Remapped

LEMMA NoWhereApart == NoWhere \notin Where
BY DEF NoWhere, Where

LEMMA LeftTexts ==
  ASSUME before.page \in Sheets, before.source \in Where, before.target \in Where, NEW p \in Where
  PROVE  /\ Left(p) \in Sheet
         /\ p # before.unsynced \/ before.unsynced = NoWhere => Left(p) = before.page[p]
         /\ p = before.unsynced =>
              /\ Left(p).link = LinkAfter(before.page, p, before.source, before.target)
              /\ Left(p).images \in {before.page[p].images,
                                     Renamed(before.page[p].images, before.source.title, before.target.title)}
<1>1. before.page[p] \in Sheet /\ before.source.title \in Title /\ before.target.title \in Title
  BY DEF Sheets, Where
<1>2. CASE p # before.unsynced
  BY <1>1, <1>2 DEF Left
<1>3. CASE p = before.unsynced
  <2> DEFINE link == LinkAfter(before.page, p, before.source, before.target)
             renamed == Renamed(before.page[p].images, before.source.title, before.target.title)
             images == IF p = before.source /\ before.source \notin before.owning THEN renamed ELSE before.page[p].images
  <2>1. link \in Link \cup {NoLink}
    BY LinkFollows
  <2>2. images \in {before.page[p].images, renamed} /\ images \in Title \cup {Nothing, "none"}
    BY <1>1 DEF Renamed, Sheet
  <2>3. Left(p) = [link |-> link, images |-> images]
    BY <1>3 DEF Left
  <2>4. before.unsynced # NoWhere
    BY <1>3, NoWhereApart
  <2> HIDE DEF link, images, renamed
  <2>5. Left(p) \in Sheet /\ Left(p).link = link /\ Left(p).images = images
    BY <2>1, <2>2, <2>3 DEF Sheet
  <2> QED BY <1>3, <2>2, <2>4, <2>5 DEF link, renamed
<1> QED BY <1>2, <1>3

\* No note was at the target, so none was written there.
LEMMA TargetLeft ==
  ASSUME before.page \in Sheets, before.target \in Where, before.page[before.target] = NoPage,
         before.source \in Where, before.source # before.target
  PROVE  Left(before.target) = NoPage
<1> PICK t \in Where : t = before.target
  OBVIOUS
<1>1. LinkAfter(before.page, t, before.source, t) = NoLink
  BY DEF LinkAfter, NoPage
<1> QED BY <1>1 DEF Left, NoPage

LEMMA MovedTexts ==
  ASSUME before.page \in Sheets, before.source \in Where, before.target \in Where, NEW p \in Where
  PROVE  /\ MovedText(p) \in Sheet /\ MovedText(p).link = Left(p).link
         /\ before.source \notin before.owning \/ before.source.title = before.target.title \/ p # before.source
              => MovedText(p) = Left(p)
         /\ p = before.source /\ before.source \in before.owning
              => MovedText(p).images = Renamed(Left(p).images, before.source.title, before.target.title)
<1>1. Left(p) \in Sheet /\ before.source.title \in Title /\ before.target.title \in Title
  BY LeftTexts DEF Where
<1>2. CASE p = before.source /\ before.source \in before.owning
  <2>1. MovedText(p) = [Left(p) EXCEPT !.images = Renamed(@, before.source.title, before.target.title)]
    BY <1>2 DEF MovedText
  <2>2. PICK text \in Sheet, old \in Title, new \in Title :
          text = Left(p) /\ old = before.source.title /\ new = before.target.title
    BY <1>1
  <2>3. PICK text2 : text2 = MovedText(p)
    OBVIOUS
  <2>4. text2 = [text EXCEPT !.images = Renamed(text.images, old, new)]
    BY <2>1, <2>2, <2>3
  <2>5. /\ text2 \in Sheet /\ text2.link = text.link /\ text2.images = Renamed(text.images, old, new)
        /\ old = new => text2 = text
    BY <2>4, RenamedText
  <2> QED BY <1>2, <2>2, <2>3, <2>5
<1>3. CASE ~(p = before.source /\ before.source \in before.owning)
  BY <1>1, <1>3 DEF MovedText
<1> QED BY <1>2, <1>3

\* Until a text was written with an error, there is nothing but the old texts.
LEMMA MovedTextsThere ==
  ASSUME before.page \in Sheets, before.source \in Where, before.target \in Where, NEW p \in Where,
         before.unsynced = NoWhere
  PROVE  /\ MovedText(p).link = before.page[p].link
         /\ before.source \notin before.owning \/ before.source.title = before.target.title \/ p # before.source
              => MovedText(p) = before.page[p]
         /\ p = before.source /\ before.source \in before.owning
              => /\ MovedText(p).images = Renamed(before.page[p].images, before.source.title, before.target.title)
                 /\ MovedText(p) = [before.page[p] EXCEPT !.images = Renamed(@, before.source.title, before.target.title)]
<1>1. Left(p) = before.page[p]
  BY LeftTexts
<1> QED BY <1>1, MovedTexts DEF MovedText

LEMMA HistoryRecord ==
  ASSUME HistoryShape, NEW p, before' = [before EXCEPT !.unsynced = p]
  PROVE  /\ before'.page = before.page /\ before'.owning = before.owning /\ before'.stale = before.stale
         /\ before'.source = before.source /\ before'.target = before.target /\ before'.unsynced = p
         /\ HistoryShape'
<1>1. before' = [page |-> before.page, owning |-> before.owning, source |-> before.source, target |-> before.target,
                 stale |-> before.stale, unsynced |-> p]
  BY DEF HistoryShape
<1> QED BY <1>1 DEF HistoryShape

LEMMA SameHistory ==
  ASSUME before' = before
  PROVE  OwningMoved' = OwningMoved /\ \A p : MovedText(p)' = MovedText(p) /\ NowAt(p)' = NowAt(p) /\ Left(p)' = Left(p)
BY DEF OwningMoved, MovedText, NowAt, Left

-----------------------------------------------------------------------------
(* The record of the move. *)
LEMMA NoMoveRecord == NoMove \in MoveRecords /\ NoMove.at = "no" /\ ~NoMove.stale
BY SheetsHold DEF NoMove, MoveRecords

LEMMA Continues ==
  ASSUME batch \in MoveRecords, NEW at \in {"note", "images", "names", "sync", "write"}, Continue(at)
  PROVE  /\ batch' \in MoveRecords /\ batch'.at = at
         /\ batch'.source = batch.source /\ batch'.target = batch.target /\ batch'.stale = batch.stale
         /\ batch'.images = batch.images /\ batch'.todo = batch.todo /\ batch'.done = batch.done
         /\ batch'.planned = batch.planned /\ batch'.kept = batch.kept
         /\ batch'.back = batch.back /\ batch'.lost = batch.lost
BY DEF Continue, MoveRecords

\* A move that goes on is the one that was planned.
SamePlan ==
  /\ before'.page = before.page /\ before'.owning = before.owning /\ before'.stale = before.stale
  /\ before'.source = before.source /\ before'.target = before.target /\ before'.unsynced \in Where \cup {NoWhere}
  /\ HistoryShape' /\ preview' = preview /\ verdict' = verdict
  /\ batch'.source = batch.source /\ batch'.target = batch.target /\ batch'.planned = batch.planned

LEMMA StillPlanned ==
  ASSUME MoveInv, InMove, InMove', SamePlan, page' \in Sheets, batch' \in MoveRecords,
         Plan' \subseteq Plan, batch'.back \/ (~batch.back /\ Plan' = Plan),
         InMove /\ ~batch'.back => Forward',
         InMove /\ batch'.back /\ ~batch'.lost /\ before.target \notin before.owning => Backward'
  PROVE  MoveInv'
<1> USE DEF MoveInv, SamePlan
<1>1. MoveTypes'
  BY DEF MoveTypes, HistoryShape, InMove
<1>2. CheckHolds' /\ verdict' = "none" /\ AsBegun'
  BY DEF CheckHolds, InMove, AsBegun
<1>3. MoveIsWholeOrUndone'
  BY <1>2 DEF MoveIsWholeOrUndone, LinksFollowTheMove, FailedMoveIsUndone, StandingMoveIsWhole
<1>4. PlanHolds'
  BY DEF PlanHolds
<1> QED BY <1>1, <1>2, <1>3, <1>4

-----------------------------------------------------------------------------
(* A move ends. *)
LEMMA Answered ==
  ASSUME MoveTypes, page' \in Sheets, before' = before, preview' = preview, batch' = NoMove, MoveIsWholeOrUndone'
  PROVE  MoveInv'
BY NoMoveRecord DEF MoveTypes, HistoryShape, MoveInv, CheckHolds, InMove

\* Anything but done or undone promises nothing.
LEMMA AnsweredTorn ==
  ASSUME MoveTypes, page' \in Sheets, before' = before, preview' = preview, Answers("torn")
  PROVE  MoveInv'
<1>1. MoveIsWholeOrUndone'
  BY DEF Answers, MoveIsWholeOrUndone, LinksFollowTheMove, FailedMoveIsUndone, StandingMoveIsWhole
<1> QED BY <1>1, Answered DEF Answers

\* An error, when everything has come back.
LEMMA AnsweredFailed ==
  ASSUME MoveTypes, page' \in Sheets, before' = before, preview' = preview, Answers("failed"),
         before.source \in Where, before.target \in Where,
         (owning' = before.owning /\ \A p \in Where : page'[p] = Left(p)) \/ Excused
  PROVE  MoveInv'
<1>1. ASSUME owning' = before.owning, \A p \in Where : page'[p] = Left(p)
      PROVE  /\ \A p \in Where \ {before.unsynced} : page'[p] = before.page[p]
             /\ before.unsynced # NoWhere => AsPlanned(before.unsynced)'
  <2>1. before.page \in Sheets /\ before.unsynced \in Where \cup {NoWhere}
    BY DEF MoveTypes, HistoryShape
  <2>2. ASSUME NEW p \in Where \ {before.unsynced} PROVE page'[p] = before.page[p]
    BY <1>1, <2>1, LeftTexts
  <2>3. ASSUME before.unsynced # NoWhere PROVE AsPlanned(before.unsynced)'
    <3> PICK p \in Where : p = before.unsynced
      BY <2>1, <2>3
    <3>1. /\ page'[p].link = LinkAfter(before.page, p, before.source, before.target)
          /\ page'[p].images \in {before.page[p].images,
                                  Renamed(before.page[p].images, before.source.title, before.target.title)}
      BY <1>1, <2>1, LeftTexts
    <3>2. page'[p].link \in {before.page[p].link, LinkTo(NowAt(p), NowAt(LeadsTo(p, before.page[p].link)))}
      BY <3>1 DEF LinkAfter, NowAt
    <3> QED BY <3>1, <3>2 DEF AsPlanned, NowAt
  <2> QED BY <2>2, <2>3
<1>2. FailedMoveIsUndone'
  BY <1>1 DEF FailedMoveIsUndone, Excused
<1>3. MoveIsWholeOrUndone'
  BY <1>2 DEF Answers, MoveIsWholeOrUndone, LinksFollowTheMove, StandingMoveIsWhole
<1> QED BY <1>3, Answered DEF Answers

\* An error, when the note and its images stay at the new path.
LEMMA AnsweredStands ==
  ASSUME MoveTypes, AsBegun, InMove, UNCHANGED <<page, owning, preview, before>>, Answers("stands"),
         before.unsynced = NoWhere, owning = OwningMoved, page[before.source] = NoPage,
         \A p \in Where \ {before.target} : page[NowAt(p)] = before.page[p] \/ page[NowAt(p)] = MovedText(p)
  PROVE  MoveInv'
<1> PICK s \in Where, t \in Where : s = before.source /\ t = before.target
  BY DEF MoveTypes, HistoryShape, AsBegun, InMove
<1>1. s # t /\ before.page \in Sheets /\ page' \in Sheets
  BY DEF AsBegun, MoveTypes, HistoryShape
<1>2. ASSUME NEW p \in Where \ {s, t} PROVE page[p] = before.page[p]
  BY <1>1, PathsApart, MovedTextsThere
<1>3. page[t] = before.page[s] \/ page[t] = MovedText(s)
  BY <1>1, PathsApart
<1>4. /\ page[t].link = before.page[s].link
      /\ page[t].images \in {before.page[s].images, Renamed(before.page[s].images, s.title, t.title)}
  BY <1>1, <1>3, MovedTextsThere
<1>5. StandingMoveIsWhole'
  BY <1>2, <1>4 DEF StandingMoveIsWhole, OwningMoved
<1>6. MoveIsWholeOrUndone'
  BY <1>5 DEF Answers, MoveIsWholeOrUndone, LinksFollowTheMove, FailedMoveIsUndone
<1> QED BY <1>1, <1>6, Answered DEF Answers

\* Or done, when every text is what the plan asks for.
LEMMA AnsweredMoved ==
  ASSUME MoveTypes, AsBegun, PlanHolds, InMove, ~batch.back, before.unsynced = NoWhere,
         page' \in Sheets, before' = before, preview' = preview, Answers("moved"), owning' = OwningMoved,
         \A p \in Where \ {before.target} : page'[NowAt(p)] = IF p \in Plan THEN batch.planned[p] ELSE MovedText(p)
  PROVE  MoveInv'
<1> PICK P \in Sheets, s \in Where, t \in Where : P = before.page /\ s = before.source /\ t = before.target
  BY DEF MoveTypes, HistoryShape, AsBegun, InMove
<1>1. s # t /\ P[s] # NoPage /\ P[t] = NoPage
  BY DEF AsBegun
<1>2. ASSUME ~before.stale, NEW p \in Where, P[p] # NoPage
      PROVE  page'[NowAt(p)].link = LinkAfter(P, p, s, t)
  <2>1. p # t
    BY <1>1, <1>2
  <2>2. CASE p \in Plan
    <3>1. page'[NowAt(p)] = TextAfter(P, p, s, t)
      BY <2>1, <2>2 DEF PlanHolds
    <3> QED BY <3>1 DEF TextAfter
  <2>3. CASE p \notin Plan
    <3>1. page'[NowAt(p)] = MovedText(p) /\ LinkAfter(P, p, s, t) = P[p].link
      BY <1>2, <2>1, <2>3 DEF PlanHolds
    <3> QED BY <1>2, <3>1, MovedTextsThere
  <2> QED BY <2>2, <2>3
<1>3. ASSUME s \in before.owning PROVE page'[t].images = Renamed(P[s].images, s.title, t.title)
  <2>1. NowAt(s) = t
    BY <1>1, PathsApart
  <2>2. CASE s \in Plan
    <3>1. page'[t] = TextAfter(P, s, s, t)
      BY <1>1, <2>1, <2>2 DEF PlanHolds
    <3> QED BY <3>1 DEF TextAfter
  <2>3. CASE s \notin Plan
    <3>1. page'[t] = MovedText(s)
      BY <1>1, <2>1, <2>3
    <3> QED BY <1>3, <3>1, MovedTextsThere
  <2> QED BY <2>2, <2>3
<1>4. ASSUME ~before.stale, NEW p \in Where, P[p] # NoPage, P[p].link # NoLink,
             LeadsTo(p, P[p].link) \in Where, P[LeadsTo(p, P[p].link)] # NoPage
      PROVE  LeadsTo(NowAt(p), page'[NowAt(p)].link) = NowAt(LeadsTo(p, P[p].link))
  <2>1. page'[NowAt(p)].link = LinkAfter(P, p, s, t)
    BY <1>2, <1>4
  <2> QED BY <1>4, <2>1, LinkFollows DEF NowAt
<1>5. ASSUME s \in before.owning, P[s].images = s.title PROVE t \in owning' /\ page'[t].images = t.title
  BY <1>3, <1>5 DEF OwningMoved, Renamed
<1>6. LinksFollowTheMove'
  BY <1>4, <1>5 DEF LinksFollowTheMove, Was, NowAt
<1>7. FailedMoveIsUndone' /\ StandingMoveIsWhole'
  BY DEF Answers, FailedMoveIsUndone, StandingMoveIsWhole
<1> QED BY <1>6, <1>7, Answered DEF Answers, MoveIsWholeOrUndone

-----------------------------------------------------------------------------
(* A move begins. *)
LEMMA BeginsRecord ==
  ASSUME MoveTypes, NEW source \in Where, NEW target \in Where, NEW todo \in SUBSET Where, MoveBegins(source, target, todo)
  PROVE  /\ batch' \in MoveRecords /\ batch'.at = "note" /\ batch'.source = source /\ batch'.target = target
         /\ batch'.images = (source \in owning) /\ batch'.todo = todo /\ batch'.done = {}
         /\ ~batch'.back /\ ~batch'.lost
         /\ \A p \in todo : batch'.planned[p] = TextAfter(page, p, source, target)
<1> DEFINE planned == [p \in Where |-> IF p \in todo THEN Updated(p, source, target) ELSE NoPage]
           images == source \in owning
<1>1. planned \in Sheets
  <2>1. ASSUME NEW p \in Where PROVE Updated(p, source, target) \in Sheet
    BY PlanAsksFor, SheetsHold DEF MoveTypes, HistoryShape
  <2> QED BY <2>1, SheetsHold DEF Sheets
<1>2. \A p \in todo : planned[p] = TextAfter(page, p, source, target)
  BY PlanAsksFor
<1>3. images \in BOOLEAN /\ images = (source \in owning)
  OBVIOUS
<1>4. batch' = [NoMove EXCEPT !.at = "note", !.source = source, !.target = target, !.images = images,
                              !.todo = todo, !.planned = planned]
  BY DEF MoveBegins
<1> HIDE DEF planned, images
<1> QED BY <1>1, <1>2, <1>3, <1>4, SheetsHold DEF NoMove, MoveRecords

LEMMA BeginsWell ==
  ASSUME MoveInv, NEW source \in Where, NEW target \in Where, NEW todo \in SUBSET Where, MoveBegins(source, target, todo),
         Movable(source, target), target \notin todo, page' = page, owning' = owning, preview' = preview \/ preview' = NoPreview,
         ~batch.stale => \A p \in There \ todo : Replacement(p, source, target) = page[p].link
  PROVE  MoveInv'
<1>1. /\ batch' \in MoveRecords /\ batch'.at = "note" /\ batch'.source = source /\ batch'.target = target
      /\ batch'.images = (source \in owning) /\ batch'.todo = todo /\ batch'.done = {}
      /\ ~batch'.back /\ ~batch'.lost
      /\ \A p \in todo : batch'.planned[p] = TextAfter(page, p, source, target)
  BY BeginsRecord DEF MoveInv
<1>2. /\ verdict' = "none" /\ before'.page = page /\ before'.owning = owning
      /\ before'.source = source /\ before'.target = target /\ before'.stale = batch.stale
      /\ before'.unsynced = NoWhere /\ HistoryShape'
  BY DEF MoveBegins, HistoryShape
<1>3. MoveTypes' /\ CheckHolds'
  BY <1>1, <1>2 DEF MoveInv, MoveTypes, HistoryShape, CheckHolds
<1>4. MoveIsWholeOrUndone'
  BY <1>2 DEF MoveIsWholeOrUndone, LinksFollowTheMove, FailedMoveIsUndone, StandingMoveIsWhole
<1>5. AsBegun'
  BY <1>1, <1>2 DEF AsBegun, Movable, There
<1>6. PlanHolds'
  <2>1. Plan' = todo
    BY <1>1 DEF Plan
  <2>2. ASSUME ~batch.stale, NEW p \in Where \ todo, page[p] # NoPage
        PROVE  LinkAfter(page, p, source, target) = page[p].link
    BY <2>2, PlanAsksFor DEF There
  <2> QED BY <1>1, <1>2, <2>1, <2>2 DEF PlanHolds
<1>7. Forward'
  BY <1>1, <1>2 DEF Forward
<1> QED BY <1>1, <1>2, <1>3, <1>4, <1>5, <1>6, <1>7 DEF MoveInv

LEMMA MovesBegin == ASSUME MoveInv, MoveWithLinkUpdates \/ PlainMove PROVE MoveInv'
<1>1. CASE MoveWithLinkUpdates
  <2> PICK s \in Where, t \in Where : s = preview.source /\ t = preview.target
    BY <1>1 DEF MoveWithLinkUpdates, MoveInv, MoveTypes, HistoryShape
  <2>1. /\ batch = NoMove /\ Movable(s, t) /\ MoveBegins(s, t, PlannedFiles(s, t))
        /\ page' = page /\ owning' = owning /\ preview' = NoPreview
    BY <1>1 DEF MoveWithLinkUpdates
  <2>2. PlannedFiles(s, t) \in SUBSET Where /\ t \notin PlannedFiles(s, t)
    BY <2>1 DEF PlannedFiles, There, Movable
  <2>3. ASSUME NEW p \in There \ PlannedFiles(s, t) PROVE Replacement(p, s, t) = page[p].link
    <3>1. Updated(p, s, t) = page[p]
      BY DEF PlannedFiles
    <3>2. Updated(p, s, t).link = Replacement(p, s, t)
      BY DEF Updated
    <3> QED BY <3>1, <3>2
  <2> QED BY <2>1, <2>2, <2>3, BeginsWell
<1>2. CASE PlainMove /\ Movable(batch.source, batch.target)
  <2> PICK s \in Where, t \in Where : s = batch.source /\ t = batch.target
    BY <1>2 DEF PlainMove, MoveInv, MoveTypes, HistoryShape
  <2>1. /\ batch.at = "checked" /\ Movable(s, t) /\ MoveBegins(s, t, {}) /\ page' = page /\ owning' = owning /\ preview' = preview
    BY <1>2 DEF PlainMove
  <2>2. ~batch.stale => \A p \in There \ {} : Replacement(p, s, t) = page[p].link
    BY <2>1 DEF MoveInv, CheckHolds, Rewrites
  <2> QED BY <2>1, <2>2, BeginsWell
<1>3. CASE PlainMove /\ ~Movable(batch.source, batch.target)
  <2>1. batch' = NoMove /\ UNCHANGED <<verdict, before, page, owning, preview>>
    BY <1>3 DEF PlainMove
  <2>2. MoveIsWholeOrUndone'
    BY <2>1 DEF MoveInv, MoveIsWholeOrUndone, LinksFollowTheMove, FailedMoveIsUndone, StandingMoveIsWhole, AsPlanned, Was, NowAt
  <2> QED BY <2>1, <2>2, Answered DEF MoveInv, MoveTypes, HistoryShape
<1> QED BY <1>1, <1>2, <1>3

\* Steps between moves.
LEMMA SameMove ==
  ASSUME MoveInv, UNCHANGED <<page, owning, batch, verdict, before>>,
         preview' # NoPreview => preview'.source \in Where /\ preview'.target \in Where
  PROVE  MoveInv'
<1>1. MoveTypes' /\ CheckHolds'
  BY DEF MoveInv, MoveTypes, HistoryShape, CheckHolds, Rewrites, There, Replacement
<1>2. MoveIsWholeOrUndone'
  BY DEF MoveInv, MoveIsWholeOrUndone, LinksFollowTheMove, FailedMoveIsUndone, StandingMoveIsWhole, AsPlanned, Was, NowAt
<1>3. InMove => AsBegun' /\ PlanHolds' /\ verdict' = "none"
  BY DEF MoveInv, AsBegun, PlanHolds, Plan
<1>4. InMove /\ ~batch.back => Forward'
  BY DEF MoveInv, Forward, OnlyShifted, AllShifted, OwningMoved, Written, MovedText, Left, NowAt
<1>5. InMove /\ batch.back /\ ~batch.lost /\ before.target \notin before.owning => Backward'
  BY DEF MoveInv, Backward, ComeBack, AllBack, Excused, AllShifted, OwningMoved, Written, MovedText, Left, NowAt
<1> QED BY <1>1, <1>2, <1>3, <1>4, <1>5 DEF MoveInv, InMove

LEMMA PlainMoveChecked == ASSUME MoveInv, CheckPlainMove PROVE MoveInv'
<1> PICK s \in Where, t \in Where : CheckPlainMove!(s, t)
  BY DEF CheckPlainMove
<1>1. /\ batch' \in MoveRecords /\ batch'.at = "checked" /\ batch'.source = s /\ batch'.target = t
  <2>1. batch' = [NoMove EXCEPT !.at = "checked", !.source = s, !.target = t]
    OBVIOUS
  <2> QED BY <2>1, SheetsHold DEF NoMove, MoveRecords
<1>2. MoveTypes'
  BY <1>1 DEF MoveInv, MoveTypes, HistoryShape
<1>3. CheckHolds'
  BY <1>1 DEF CheckHolds, Rewrites, There, Replacement
<1>4. MoveIsWholeOrUndone'
  BY DEF MoveIsWholeOrUndone, LinksFollowTheMove, FailedMoveIsUndone, StandingMoveIsWhole
<1> QED BY <1>1, <1>2, <1>3, <1>4 DEF MoveInv, InMove

LEMMA NoteSaved == ASSUME MoveInv, SavePage PROVE MoveInv'
<1> PICK p \in There, q \in There : SavePage!(p, q)
  BY DEF SavePage
<1>1. /\ batch' \in MoveRecords /\ batch'.at = batch.at /\ batch'.source = batch.source /\ batch'.target = batch.target
      /\ batch.at = "checked" => batch'.stale
  BY DEF MoveInv, MoveTypes, HistoryShape, MoveRecords
<1>2. batch.at \in {"checked", "no"}
  BY DEF NoMove
<1>3. page' \in Sheets
  <2>1. LinkTo(p, q) \in Link /\ p \in Where
    BY LinksLead DEF There
  <2> QED BY <2>1 DEF MoveInv, MoveTypes, HistoryShape, Sheets, Sheet
<1>4. MoveTypes' /\ CheckHolds'
  BY <1>1, <1>2, <1>3 DEF MoveInv, MoveTypes, HistoryShape, CheckHolds
<1>5. MoveIsWholeOrUndone'
  BY DEF MoveIsWholeOrUndone, LinksFollowTheMove, FailedMoveIsUndone, StandingMoveIsWhole
<1> QED BY <1>1, <1>2, <1>4, <1>5 DEF MoveInv, InMove

-----------------------------------------------------------------------------
(* The calls of a move, there and back. *)
\* What every call finds.
LEMMA AtACall ==
  ASSUME MoveInv, InMove
  PROVE  /\ MoveTypes /\ AsBegun /\ PlanHolds /\ verdict = "none" /\ batch \in MoveRecords /\ before.page \in Sheets
         /\ before.source \in Where /\ before.target \in Where /\ before.source # before.target
         /\ From = IF batch.back THEN before.target ELSE before.source
         /\ To = IF batch.back THEN before.source ELSE before.target
         /\ ~batch.back => Forward
         /\ batch.back /\ ~batch.lost /\ before.target \notin before.owning => Backward
BY DEF MoveInv, MoveTypes, HistoryShape, InMove, AsBegun, From, To

\* The note and its images are at the new path, whose folder is synced next.
LEMMA ToSyncForward ==
  ASSUME MoveInv, InMove, ~batch.back, batch.done = {}, Continue("sync"), verdict' = verdict,
         before' = before, preview' = preview, page' \in Sheets, owning' = OwningMoved, page'[before.source] = NoPage,
         \A p \in Where \ {before.target} : page'[NowAt(p)] = MovedText(p)
  PROVE  MoveInv'
<1> USE AtACall
<1>1. /\ batch' \in MoveRecords /\ batch'.at = "sync" /\ batch'.todo = batch.todo /\ batch'.done = {}
      /\ ~batch'.back /\ ~batch'.lost /\ SamePlan
  BY Continues DEF SamePlan, Forward, MoveTypes, HistoryShape
<1>2. AllShifted'
  BY <1>1, SameHistory DEF AllShifted, Written
<1>3. Forward'
  BY <1>1, <1>2 DEF Forward
<1>4. Plan' = Plan /\ InMove'
  BY <1>1 DEF Plan, InMove
<1> QED BY <1>1, <1>3, <1>4, StillPlanned

\* They are at the old one again.
LEMMA ToSyncBackward ==
  ASSUME MoveInv, InMove, batch.back, batch.at # "write", Continue("sync"), verdict' = verdict,
         before' = before, preview' = preview, page' \in Sheets,
         ~batch.lost /\ before.target \notin before.owning =>
           Excused \/ (owning' = before.owning /\ \A p \in Where : page'[p] = Left(p))
  PROVE  MoveInv'
<1> USE AtACall
<1>1. /\ batch' \in MoveRecords /\ batch'.at = "sync" /\ batch'.todo = batch.todo /\ batch'.done = batch.done
      /\ batch'.back /\ batch'.lost = batch.lost /\ batch'.images = batch.images /\ SamePlan
  BY Continues DEF SamePlan, MoveTypes, HistoryShape
<1>2. ASSUME ~batch.lost, before.target \notin before.owning PROVE Backward'
  <2>1. batch.done = {} /\ batch.images = (before.source \in before.owning)
    BY <1>2 DEF Backward
  <2>2. Excused => Excused'
    BY DEF Excused
  <2>3. (AllBack \/ Excused)'
    BY <1>2, <2>2, SameHistory DEF AllBack
  <2> QED BY <1>1, <2>1, <2>3 DEF Backward
<1>3. Plan' = Plan /\ InMove'
  BY <1>1 DEF Plan, InMove
<1> QED BY <1>1, <1>2, <1>3, StillPlanned

\* The folder is synced: the move is done, undone, or its texts are next.
LEMMA FolderSynced == ASSUME MoveInv, SyncFolder PROVE MoveInv'
<1>0. InMove /\ batch.at = "sync" /\ UNCHANGED <<page, owning, preview, before>>
  BY DEF InMove, SyncFolder
<1>1. page' \in Sheets
  BY <1>0, AtACall DEF MoveTypes, HistoryShape
<1>2. CASE batch.back /\ batch.lost
  BY <1>0, <1>1, <1>2, AtACall, AnsweredTorn DEF SyncFolder
<1>3. CASE batch.back /\ ~batch.lost
  <2>1. AllBack \/ Excused
    BY <1>0, <1>3, AtACall DEF Backward, Excused
  <2>2. (owning' = before.owning /\ \A p \in Where : page'[p] = Left(p)) \/ Excused
    BY <1>0, <2>1 DEF AllBack
  <2>3. Answers("failed")
    BY <1>3 DEF SyncFolder
  <2> QED BY <1>0, <1>1, <2>2, <2>3, AtACall, AnsweredFailed
<1>4. CASE ~batch.back
  <2>1. AllShifted /\ batch.done = {} /\ ~batch.lost /\ before.unsynced = NoWhere
    BY <1>0, <1>4, AtACall DEF Forward
  <2>2. owning' = OwningMoved /\ \A p \in Where \ {before.target} : page'[NowAt(p)] = MovedText(p)
    BY <1>0, <2>1 DEF AllShifted, Written
  <2>3. CASE batch.todo = {}
    <3>1. Answers("moved") /\ Plan = {}
      BY <1>4, <2>1, <2>3 DEF SyncFolder, Plan
    <3> QED BY <1>0, <1>1, <1>4, <2>1, <2>2, <3>1, AtACall, AnsweredMoved
  <2>4. CASE batch.todo # {}
    <3>1. Continue("write") /\ verdict' = verdict
      BY <1>4, <2>4 DEF SyncFolder
    <3>2. /\ batch' \in MoveRecords /\ batch'.at = "write" /\ batch'.todo = batch.todo /\ batch'.done = {}
          /\ ~batch'.back /\ ~batch'.lost /\ SamePlan
      BY <1>0, <1>4, <2>1, <3>1, AtACall, Continues DEF SamePlan, MoveTypes, HistoryShape
    <3>3. AllShifted'
      BY <1>0, <2>1, <2>2, <3>2, SameHistory DEF AllShifted, Written
    <3>4. Forward'
      BY <1>0, <2>1, <2>4, <3>2, <3>3 DEF Forward
    <3>5. Plan' = Plan /\ InMove'
      BY <2>1, <3>2 DEF Plan, InMove
    <3> QED BY <1>0, <1>1, <1>4, <3>2, <3>4, <3>5, StillPlanned
  <2> QED BY <2>3, <2>4
<1> QED BY <1>2, <1>3, <1>4

LEMMA FolderNotSynced == ASSUME MoveInv, SyncFolderFails PROVE MoveInv'
<1>0. InMove /\ batch.at = "sync" /\ ~batch.back /\ UNCHANGED <<page, owning, preview, before>> /\ Answers("stands")
  BY DEF InMove, SyncFolderFails
<1>1. AllShifted /\ batch.done = {} /\ before.unsynced = NoWhere
  BY <1>0, AtACall DEF Forward
<1>2. \A p \in Where \ {before.target} : page[NowAt(p)] = MovedText(p)
  BY <1>1 DEF AllShifted, Written
<1> QED BY <1>0, <1>1, <1>2, AtACall, AnsweredStands DEF AllShifted

\* The move goes on to the next of its calls.
LEMMA NextCall ==
  ASSUME MoveInv, InMove, NEW at \in {"images", "names"}, Continue(at), batch.at \in {"note", "images"},
         before' = before, preview' = preview, verdict' = verdict, page' \in Sheets,
         before.source \in before.owning \/ batch.back,
         ~batch.back => OnlyShifted' /\ owning' = IF at = "images" THEN before.owning ELSE OwningMoved,
         batch.back /\ ~batch.lost /\ before.target \notin before.owning =>
           /\ before.source \in before.owning /\ ComeBack'
           /\ at = "images" => owning' = OwningMoved
           /\ at = "names" => owning' = before.owning /\ before.source.title # before.target.title
  PROVE  MoveInv'
<1> USE AtACall
<1>1. /\ batch' \in MoveRecords /\ batch'.at = at /\ batch'.todo = batch.todo /\ batch'.done = batch.done
      /\ batch'.back = batch.back /\ batch'.lost = batch.lost /\ batch'.images = batch.images /\ SamePlan
  BY Continues DEF SamePlan, MoveTypes, HistoryShape
<1>2. OwningMoved' = OwningMoved
  BY SameHistory
<1>3. ~batch.back => Forward'
  BY <1>1, <1>2 DEF Forward
<1>4. batch.back /\ ~batch.lost /\ before.target \notin before.owning => Backward'
  BY <1>1, <1>2 DEF Backward
<1>5. Plan' = Plan /\ InMove'
  BY <1>1 DEF Plan, InMove
<1>6. batch'.back \/ (~batch.back /\ Plan' = Plan)
  BY <1>1, <1>5
<1> QED BY <1>1, <1>3, <1>4, <1>5, <1>6, StillPlanned

\* A rename of a note.
LEMMA PageRenamed ==
  ASSUME page \in Sheets, NEW from \in Where, NEW to \in Where, from # to,
         page' = [page EXCEPT ![to] = page[from], ![from] = NoPage]
  PROVE  /\ page' \in Sheets /\ page'[to] = page[from] /\ page'[from] = NoPage
         /\ \A p \in Where : p # from /\ p # to => page'[p] = page[p]
BY SheetsHold DEF Sheets

LEMMA PageRenames == ASSUME MoveInv, RenamePage PROVE MoveInv'
<1>0. InMove /\ batch.at = "note" /\ UNCHANGED <<owning, preview, verdict, before>>
      /\ Continue(IF batch.images THEN "images" ELSE "sync")
  BY DEF InMove, RenamePage
<1> PICK s \in Where, t \in Where : s = before.source /\ t = before.target
  BY <1>0, AtACall
<1>1. /\ page \in Sheets /\ s # t
      /\ ~batch.back => page' = [page EXCEPT ![t] = page[s], ![s] = NoPage]
      /\ batch.back => page' = [page EXCEPT ![s] = page[t], ![t] = NoPage]
  <2>1. page \in Sheets /\ s # t
    BY <1>0, AtACall DEF MoveTypes, HistoryShape
  <2>2. page' = [page EXCEPT ![To] = page[From], ![From] = NoPage]
    BY DEF RenamePage
  <2>3. From = (IF batch.back THEN t ELSE s) /\ To = (IF batch.back THEN s ELSE t)
    BY <1>0, AtACall
  <2> QED BY <2>1, <2>2, <2>3
<1>2. CASE ~batch.back
  <2>1. /\ page' \in Sheets /\ page'[t] = page[s] /\ page'[s] = NoPage
        /\ \A p \in Where : p # s /\ p # t => page'[p] = page[p]
    BY <1>1, <1>2, PageRenamed
  <2>2. page = before.page /\ owning = before.owning /\ batch.images = (s \in before.owning) /\ batch.done = {}
    BY <1>0, <1>2, AtACall DEF Forward
  <2>3. \A p \in Where \ {t} : page'[NowAt(p)] = before.page[p]
    BY <1>0, <2>1, <2>2, AtACall, PathsApart
  <2>4. CASE batch.images
    <3>1. OnlyShifted'
      BY <1>0, <2>1, <2>3, SameHistory DEF OnlyShifted
    <3> QED BY <1>0, <1>2, <2>1, <2>2, <2>4, <3>1, AtACall, NextCall
  <2>5. CASE ~batch.images
    <3>1. \A p \in Where \ {t} : MovedText(p) = before.page[p]
      BY <1>0, <1>2, <2>2, <2>5, AtACall, MovedTextsThere DEF Forward
    <3>2. owning' = OwningMoved
      BY <1>0, <2>2, <2>5 DEF OwningMoved
    <3> QED BY <1>0, <1>2, <2>1, <2>2, <2>3, <2>5, <3>1, <3>2, AtACall, ToSyncForward
  <2> QED BY <2>4, <2>5
<1>3. CASE batch.back
  <2>1. /\ page' \in Sheets /\ page'[s] = page[t] /\ page'[t] = NoPage
        /\ \A p \in Where : p # s /\ p # t => page'[p] = page[p]
    BY <1>1, <1>3, PageRenamed
  <2>2. ASSUME ~batch.lost, t \notin before.owning
        PROVE  /\ ComeBack' /\ owning' = OwningMoved /\ batch.images = (s \in before.owning)
               /\ \A p \in Where \ {t} : page'[p] = MovedText(p)
    <3>1. Backward
      BY <1>0, <1>3, <2>2, AtACall
    <3>2. /\ AllShifted /\ batch.done = {} /\ batch.images = (s \in before.owning)
      BY <1>0, <3>1 DEF Backward
    <3>3. \A p \in Where \ {t} : page[NowAt(p)] = MovedText(p)
      BY <3>2 DEF AllShifted, Written
    <3>4. \A p \in Where \ {t} : page'[p] = MovedText(p)
      BY <1>0, <1>1, <2>1, <3>3, AtACall, PathsApart
    <3>5. ComeBack'
      BY <1>0, <2>1, <3>4, SameHistory DEF ComeBack
    <3> QED BY <1>0, <3>2, <3>4, <3>5 DEF AllShifted
  <2>3. CASE batch.images
    BY <1>0, <1>3, <2>1, <2>2, <2>3, AtACall, NextCall
  <2>4. CASE ~batch.images
    <3>1. ASSUME ~batch.lost, t \notin before.owning PROVE owning' = before.owning /\ \A p \in Where : page'[p] = Left(p)
      <4>1. s \notin before.owning /\ owning' = before.owning
        BY <2>2, <2>4, <3>1 DEF OwningMoved
      <4>2. \A p \in Where \ {t} : page'[p] = Left(p)
        BY <1>0, <2>2, <3>1, <4>1, AtACall, MovedTexts
      <4>3. page'[t] = NoPage /\ Left(t) = NoPage
        BY <1>0, <2>1, AtACall, TargetLeft DEF AsBegun
      <4> QED BY <4>1, <4>2, <4>3
    <3> QED BY <1>0, <1>3, <2>1, <2>4, <3>1, AtACall, ToSyncBackward
  <2> QED BY <2>3, <2>4
<1> QED BY <1>2, <1>3

LEMMA PageRenameFails == ASSUME MoveInv, RenamePageFails PROVE MoveInv'
<1> USE DEF RenamePageFails
<1>0. InMove
  BY DEF InMove
<1>1. page' \in Sheets /\ before' = before /\ preview' = preview
  BY <1>0, AtACall DEF MoveTypes, HistoryShape
<1>2. CASE batch.back
  BY <1>0, <1>1, <1>2, AtACall, AnsweredTorn DEF Fails
<1>3. CASE ~batch.back
  <2>1. page' = before.page /\ owning' = before.owning /\ before.unsynced = NoWhere
    BY <1>0, <1>3, AtACall DEF Forward
  <2>2. \A p \in Where : page'[p] = Left(p)
    BY <1>0, <2>1, AtACall, LeftTexts
  <2> QED BY <1>0, <1>1, <1>3, <2>1, <2>2, AtACall, AnsweredFailed DEF Fails
<1> QED BY <1>2, <1>3

LEMMA ImagesRename == ASSUME MoveInv, RenameItsImages PROVE MoveInv'
<1>0. InMove /\ batch.at = "images" /\ UNCHANGED <<page, preview, before>>
  BY DEF InMove, RenameItsImages
<1> PICK s \in Where, t \in Where : s = before.source /\ t = before.target
  BY <1>0, AtACall
<1>1. /\ From = (IF batch.back THEN t ELSE s) /\ To = (IF batch.back THEN s ELSE t)
      /\ owning' = (owning \ {From}) \cup {To} /\ page' \in Sheets /\ s # t
      /\ Continue(IF s.title # t.title THEN "names" ELSE "sync") /\ verdict' = verdict
  BY <1>0, AtACall DEF RenameItsImages, MoveTypes, HistoryShape
<1>2. CASE ~batch.back
  <2>1. s \in before.owning /\ OnlyShifted /\ owning = before.owning /\ batch.done = {}
    BY <1>0, <1>2, AtACall DEF Forward
  <2>2. owning' = OwningMoved
    BY <1>1, <1>2, <2>1 DEF OwningMoved
  <2>3. CASE s.title # t.title
    <3>1. OnlyShifted'
      BY <1>0, <2>1, SameHistory DEF OnlyShifted
    <3> QED BY <1>0, <1>1, <1>2, <2>1, <2>2, <2>3, <3>1, AtACall, NextCall
  <2>4. CASE s.title = t.title
    <3>1. \A p \in Where \ {t} : MovedText(p) = before.page[p]
      BY <1>0, <1>2, <2>4, AtACall, MovedTextsThere DEF Forward
    <3>2. page'[s] = NoPage /\ \A p \in Where \ {t} : page'[NowAt(p)] = MovedText(p)
      BY <1>0, <2>1, <3>1 DEF OnlyShifted
    <3> QED BY <1>0, <1>1, <1>2, <2>1, <2>2, <2>4, <3>2, ToSyncForward
  <2> QED BY <2>3, <2>4
<1>3. CASE batch.back
  <2>1. ASSUME ~batch.lost, t \notin before.owning
        PROVE  s \in before.owning /\ ComeBack /\ owning' = before.owning
    <3>1. s \in before.owning /\ ComeBack /\ owning = OwningMoved
      BY <1>0, <1>3, <2>1, AtACall DEF Backward
    <3> QED BY <1>1, <1>3, <2>1, <3>1 DEF OwningMoved
  <2>2. CASE s.title # t.title
    <3>1. ComeBack => ComeBack'
      BY <1>0, SameHistory DEF ComeBack
    <3> QED BY <1>0, <1>1, <1>3, <2>1, <2>2, <3>1, AtACall, NextCall
  <2>3. CASE s.title = t.title
    <3>1. ASSUME ~batch.lost, t \notin before.owning PROVE owning' = before.owning /\ \A p \in Where : page'[p] = Left(p)
      <4>1. \A p \in Where \ {t} : page'[p] = Left(p)
        BY <1>0, <2>1, <2>3, <3>1, AtACall, MovedTexts DEF ComeBack
      <4>2. page'[t] = NoPage /\ Left(t) = NoPage
        BY <1>0, <2>1, <3>1, AtACall, TargetLeft DEF ComeBack, AsBegun
      <4> QED BY <2>1, <3>1, <4>1, <4>2
    <3> QED BY <1>0, <1>1, <1>3, <2>3, <3>1, AtACall, ToSyncBackward
  <2> QED BY <2>2, <2>3
<1> QED BY <1>2, <1>3

LEMMA ImagesRenameFails == ASSUME MoveInv, RenameItsImagesFails PROVE MoveInv'
<1>0. InMove /\ batch.at = "images" /\ UNCHANGED <<owning, preview, before>>
  BY DEF InMove, RenameItsImagesFails
<1> PICK s \in Where, t \in Where : s = before.source /\ t = before.target
  BY <1>0, AtACall
<1>1. page \in Sheets /\ s # t
  BY <1>0, AtACall DEF MoveTypes, HistoryShape
<1>2. CASE page' = page /\ Answers("torn")
  BY <1>0, <1>1, <1>2, AtACall, AnsweredTorn
<1>3. CASE page' = [page EXCEPT ![From] = page[To], ![To] = NoPage] /\ Fails("failed")
  <2>1. From = (IF batch.back THEN t ELSE s) /\ To = (IF batch.back THEN s ELSE t)
    BY <1>0, AtACall
  <2>2. page' \in Sheets
    BY <1>1, <1>3, <2>1, SheetsHold DEF Sheets
  <2>3. CASE batch.back
    BY <1>0, <1>3, <2>2, <2>3, AtACall, AnsweredTorn DEF Fails
  <2>4. CASE ~batch.back
    <3>1. OnlyShifted /\ owning = before.owning /\ before.unsynced = NoWhere
      BY <1>0, <2>4, AtACall DEF Forward
    <3>2. page' = [page EXCEPT ![s] = page[t], ![t] = NoPage]
      BY <1>3, <2>1, <2>4
    <3>3. /\ page'[s] = page[t] /\ page'[t] = NoPage
          /\ \A p \in Where : p # s /\ p # t => page'[p] = page[p]
      BY <1>1, <3>2 DEF Sheets
    <3>4. \A p \in Where : page'[p] = before.page[p]
      BY <1>0, <1>1, <3>1, <3>3, AtACall, PathsApart DEF OnlyShifted, AsBegun
    <3>5. \A p \in Where : page'[p] = Left(p)
      BY <1>0, <3>1, <3>4, AtACall, LeftTexts
    <3> QED BY <1>0, <1>3, <2>2, <2>4, <3>1, <3>5, AtACall, AnsweredFailed DEF Fails
  <2> QED BY <2>3, <2>4
<1> QED BY <1>2, <1>3 DEF RenameItsImagesFails

\* The names of the images in the text of the note.
LEMMA NamesRewritten == ASSUME MoveInv, RewriteAssetLinks PROVE MoveInv'
<1>0. InMove /\ batch.at = "names" /\ UNCHANGED <<owning, preview, verdict, before>> /\ Continue("sync")
  BY DEF InMove, RewriteAssetLinks
<1> PICK s \in Where, t \in Where : s = before.source /\ t = before.target
  BY <1>0, AtACall
<1>1. /\ page \in Sheets /\ s # t /\ s.title \in Title /\ t.title \in Title /\ before.page \in Sheets
      /\ ~batch.back => page' = [page EXCEPT ![t].images = Renamed(page[t].images, s.title, t.title)]
      /\ batch.back => page' = [page EXCEPT ![s].images = Renamed(page[s].images, t.title, s.title)]
  <2>1. page \in Sheets /\ s # t /\ s.title \in Title /\ t.title \in Title /\ before.page \in Sheets
    BY <1>0, AtACall DEF MoveTypes, HistoryShape, Where
  <2>2. page' = [page EXCEPT ![To].images = Renamed(@, From.title, To.title)]
    BY DEF RewriteAssetLinks
  <2>3. From = (IF batch.back THEN t ELSE s) /\ To = (IF batch.back THEN s ELSE t)
    BY <1>0, AtACall
  <2> QED BY <2>1, <2>2, <2>3
<1>2. CASE ~batch.back
  <2>1. s \in before.owning /\ OnlyShifted /\ owning = OwningMoved /\ batch.done = {} /\ before.unsynced = NoWhere
    BY <1>0, <1>2, AtACall DEF Forward
  <2>2. NowAt(s) = t /\ page[t] = before.page[s] /\ page[s] = NoPage
    BY <1>0, <1>1, <2>1, AtACall, PathsApart DEF OnlyShifted
  <2>3. PICK text \in Sheet, text2 \in {page'[t]} :
          text = before.page[s] /\ text2 = [text EXCEPT !.images = Renamed(text.images, s.title, t.title)]
    BY <1>1, <1>2, <2>2 DEF Sheets
  <2>4. text2 \in Sheet /\ text2 = MovedText(s)
    BY <1>0, <1>1, <2>1, <2>3, AtACall, RenamedText, MovedTextsThere
  <2>5. \A p \in Where : p # t => page'[p] = page[p]
    BY <1>1, <1>2 DEF Sheets
  <2>6. page' \in Sheets
    <3>1. page' = [p \in Where |-> page'[p]]
      BY <1>1, <1>2 DEF Sheets
    <3>2. \A p \in Where : page'[p] \in Sheet
      BY <1>1, <2>3, <2>4, <2>5 DEF Sheets
    <3> QED BY <3>1, <3>2 DEF Sheets
  <2>7. \A p \in Where \ {t} : page'[NowAt(p)] = MovedText(p)
    <3>1. ASSUME NEW p \in Where \ {t}, p # s PROVE page'[NowAt(p)] = MovedText(p)
      BY <1>0, <1>1, <2>1, <2>5, <3>1, AtACall, PathsApart, MovedTextsThere DEF OnlyShifted
    <3> QED BY <2>2, <2>3, <2>4, <3>1
  <2>8. page'[s] = NoPage
    BY <1>1, <2>2, <2>5
  <2> QED BY <1>0, <1>2, <2>1, <2>6, <2>7, <2>8, ToSyncForward
<1>3. CASE batch.back
  <2>1. PICK text \in Sheet, text2 \in {page'[s]} :
          text = page[s] /\ text2 = [text EXCEPT !.images = Renamed(text.images, t.title, s.title)]
    BY <1>1, <1>3 DEF Sheets
  <2>2. \A p \in Where : p # s => page'[p] = page[p]
    BY <1>1, <1>3 DEF Sheets
  <2>3. text2 \in Sheet
    BY <1>1, <2>1, RenamedText
  <2>4. page' \in Sheets
    BY <1>1, <1>3, <2>1, <2>2, <2>3 DEF Sheets
  <2>5. ASSUME ~batch.lost, t \notin before.owning
        PROVE  Excused \/ (owning' = before.owning /\ \A p \in Where : page'[p] = Left(p))
    <3>1. s \in before.owning /\ ComeBack /\ owning = before.owning /\ s.title # t.title
      BY <1>0, <1>3, <2>5, AtACall DEF Backward
    <3>2. CASE before.page[s].images = t.title
      BY <3>1, <3>2 DEF Excused
    <3>3. CASE before.page[s].images # t.title
      <4>1. text = MovedText(s)
        BY <1>1, <2>1, <3>1 DEF ComeBack
      <4>2. PICK old \in Sheet : /\ old = Left(s) /\ old.images = before.page[s].images
                                 /\ text = [old EXCEPT !.images = Renamed(old.images, s.title, t.title)]
        <5>1. Left(s) \in Sheet
          BY <1>0, AtACall, LeftTexts
        <5>2. Left(s).images = before.page[s].images
          BY <3>1 DEF Left
        <5>3. MovedText(s) = [Left(s) EXCEPT !.images = Renamed(Left(s).images, s.title, t.title)]
          BY <3>1 DEF MovedText
        <5> QED BY <4>1, <5>1, <5>2, <5>3
      <4>3. page'[s] = Left(s)
        <5>1. PICK a \in Title, b \in Title : a = s.title /\ b = t.title
          BY <1>1
        <5>2. text = [old EXCEPT !.images = Renamed(old.images, a, b)] /\ text2 = [text EXCEPT !.images = Renamed(text.images, b, a)]
          BY <2>1, <4>2, <5>1
        <5>3. text.link = old.link /\ text.images = Renamed(old.images, a, b) /\ text \in Sheet
          BY <5>2, RenamedText
        <5>4. text2.link = text.link /\ text2.images = Renamed(text.images, b, a) /\ text2 \in Sheet
          BY <2>1, <5>1 DEF Sheet, Renamed
        <5>5. text2.images = old.images
          BY <3>3, <4>2, <5>1, <5>3, <5>4 DEF Renamed
        <5>6. text2 = old
          BY <5>3, <5>4, <5>5 DEF Sheet
        <5> QED BY <2>1, <4>2, <5>6
      <4>4. \A p \in Where \ {s, t} : page'[p] = Left(p)
        BY <1>0, <1>1, <2>2, <3>1, AtACall, MovedTexts DEF ComeBack
      <4>5. page'[t] = NoPage /\ Left(t) = NoPage
        BY <1>0, <1>1, <2>2, <3>1, AtACall, TargetLeft DEF ComeBack, AsBegun
      <4> QED BY <1>0, <3>1, <4>3, <4>4, <4>5
    <3> QED BY <3>2, <3>3
  <2> QED BY <1>0, <1>3, <2>4, <2>5, AtACall, ToSyncBackward
<1> QED BY <1>2, <1>3

LEMMA NamesNotRewritten == ASSUME MoveInv, RewriteAssetLinksFails PROVE MoveInv'
<1>0. InMove /\ batch.at = "names" /\ UNCHANGED <<page, owning, preview, before>> /\ Fails("stands")
  BY DEF InMove, RewriteAssetLinksFails
<1>1. page' \in Sheets
  BY <1>0, AtACall DEF MoveTypes, HistoryShape
<1>2. CASE batch.back
  BY <1>0, <1>1, <1>2, AtACall, AnsweredTorn DEF Fails
<1>3. CASE ~batch.back
  <2>1. OnlyShifted /\ owning = OwningMoved /\ before.unsynced = NoWhere
    BY <1>0, <1>3, AtACall DEF Forward
  <2> QED BY <1>0, <1>3, <2>1, AtACall, AnsweredStands DEF Fails, OnlyShifted
<1> QED BY <1>2, <1>3

\* The notes are rewritten, and written back.
LEMMA PageWritten == ASSUME MoveInv, WritePage PROVE MoveInv'
<1> PICK q \in batch.todo : WritePage!(q)
  BY DEF WritePage
<1>0. InMove /\ batch.at = "write" /\ ~batch.back /\ UNCHANGED <<owning, preview, before>>
  BY DEF InMove
<1> PICK s \in Where, t \in Where : s = before.source /\ t = before.target
  BY <1>0, AtACall
<1>1. /\ page \in Sheets /\ s # t /\ AllShifted /\ ~batch.lost
      /\ q \in Where \ {t} /\ NowAt(q) \in Where /\ PathNow(q) = NowAt(q)
      /\ batch.planned[q] \in Sheet
      /\ \A p \in Where \ {t} : p # q => NowAt(p) # NowAt(q)
      /\ NowAt(q) # s /\ before.unsynced = NoWhere
  <2>1. q \in Plan /\ q \in Where /\ batch.planned \in Sheets
    BY <1>0, AtACall DEF Plan, MoveRecords
  <2>2. q # t
    BY <1>0, <2>1, AtACall DEF PlanHolds
  <2>3. PathNow(q) = NowAt(q)
    BY <1>0, AtACall DEF PathNow, NowAt, AsBegun
  <2> QED BY <1>0, <2>1, <2>2, <2>3, AtACall, PathsApart DEF Forward, MoveTypes, HistoryShape, Sheets
<1>2. page' = [page EXCEPT ![NowAt(q)] = batch.planned[q]]
  BY <1>1
<1>3. page'[NowAt(q)] = batch.planned[q] /\ \A p \in Where : p # NowAt(q) => page'[p] = page[p]
  BY <1>1, <1>2 DEF Sheets
<1>4. page' \in Sheets
  BY <1>1, <1>2 DEF Sheets
<1>5. page'[s] = NoPage
  BY <1>1, <1>3 DEF AllShifted
<1>6. ASSUME NEW p \in Where \ {t}, p # q PROVE page'[NowAt(p)] = Written(p)
  BY <1>0, <1>1, <1>3, <1>6, AtACall, PathsApart DEF AllShifted
<1>7. CASE batch.todo = {q}
  <2>1. \A p \in Plan : p = q \/ p \in batch.done
    BY <1>7 DEF Plan
  <2>2. \A p \in Where \ {t} : page'[NowAt(p)] = IF p \in Plan THEN batch.planned[p] ELSE MovedText(p)
    BY <1>1, <1>3, <1>6, <2>1 DEF Written, Plan
  <2>3. Answers("moved") /\ owning' = OwningMoved
    BY <1>0, <1>1, <1>7 DEF AllShifted
  <2> QED BY <1>0, <1>1, <1>4, <2>2, <2>3, AtACall, AnsweredMoved
<1>8. CASE batch.todo # {q}
  <2>1. batch' = [batch EXCEPT !.todo = @ \ {q}, !.done = @ \cup {q}, !.kept[q] = page[NowAt(q)]] /\ verdict' = verdict
    BY <1>1, <1>8
  <2>2. page[NowAt(q)] \in Sheet /\ batch \in MoveRecords
    BY <1>0, <1>1, AtACall DEF Sheets
  <2>3. /\ batch'.at = "write" /\ ~batch'.back /\ ~batch'.lost
        /\ batch'.todo = batch.todo \ {q} /\ batch'.done = batch.done \cup {q}
        /\ batch'.kept = [batch.kept EXCEPT ![q] = page[NowAt(q)]]
        /\ batch'.source = batch.source /\ batch'.target = batch.target /\ batch'.planned = batch.planned
    BY <1>0, <1>1, <2>1, <2>2 DEF MoveRecords
  <2>4. /\ batch'.kept \in Sheets /\ batch'.kept[q] = page[NowAt(q)]
        /\ \A p \in Where : p # q => batch'.kept[p] = batch.kept[p]
    BY <1>1, <2>2, <2>3 DEF MoveRecords, Sheets
  <2>5. batch' \in MoveRecords
    BY <1>1, <2>1, <2>2, <2>4 DEF MoveRecords
  <2>6. Plan' = Plan /\ InMove' /\ SamePlan
    BY <1>0, <2>1, <2>3, AtACall DEF Plan, InMove, SamePlan, MoveTypes, HistoryShape
  <2>7. batch.todo \ {q} # {}
    BY <1>8
  <2>8. q \notin batch.done /\ page[NowAt(q)] = MovedText(q) /\ batch.todo \cap batch.done = {}
    BY <1>0, <1>1, AtACall DEF Forward, AllShifted, Written
  <2>9. ASSUME NEW p \in Where \ {t} PROVE page'[NowAt(p)] = IF p \in batch'.done THEN batch'.planned[p] ELSE MovedText(p)
    <3>1. CASE p = q
      BY <1>3, <2>3, <3>1
    <3>2. CASE p # q
      <4>1. page'[NowAt(p)] = IF p \in batch.done THEN batch.planned[p] ELSE MovedText(p)
        BY <1>6, <3>2 DEF Written
      <4>2. p \in batch'.done <=> p \in batch.done
        BY <2>3, <3>2
      <4> QED BY <2>3, <4>1, <4>2
    <3> QED BY <3>1, <3>2
  <2>10. ASSUME NEW p \in batch'.done PROVE batch'.kept[p] = MovedText(p)
    <3>1. CASE p = q
      BY <2>4, <2>8, <3>1
    <3>2. CASE p # q
      <4>1. p \in batch.done /\ p \in Where
        BY <2>2, <2>3, <3>2 DEF MoveRecords
      <4> QED BY <1>1, <2>4, <3>2, <4>1 DEF AllShifted
    <3> QED BY <3>1, <3>2
  <2>11. AllShifted'
    BY <1>0, <1>1, <1>5, <2>9, <2>10, SameHistory DEF AllShifted, Written
  <2>12. Forward'
    BY <1>0, <1>1, <2>3, <2>7, <2>8, <2>11 DEF Forward
  <2> QED BY <1>0, <1>4, <2>3, <2>5, <2>6, <2>12, StillPlanned
<1> QED BY <1>7, <1>8

\* The record of a move that is rolled back.
LEMMA RollBack ==
  ASSUME MoveInv, InMove, batch.at = "write", ~batch.back, RollsBack, page' \in Sheets, owning' = owning,
         before'.page = before.page, before'.owning = before.owning, before'.stale = before.stale,
         before'.source = before.source, before'.target = before.target, before'.unsynced \in Where \cup {NoWhere},
         HistoryShape', preview' = preview, verdict' = verdict,
         page'[before.source] = NoPage,
         \A p \in Where \ {before.target} : page'[NowAt(p)] = IF p \in batch.done THEN batch.planned[p] ELSE MovedText(p)',
         \A p \in batch.done : batch.kept[p] = MovedText(p)'
  PROVE  MoveInv'
<1> PICK s \in Where, t \in Where : s = before.source /\ t = before.target
  BY AtACall
<1> DEFINE at == IF batch.done = {} THEN "note" ELSE "write"
           images == batch.target \in owning
<1>1. /\ at \in {"note", "write"} /\ (at = "note" <=> batch.done = {}) /\ images \in BOOLEAN
      /\ images = (t \in owning)
  BY AtACall DEF AsBegun
<1>2. batch' = [batch EXCEPT !.back = TRUE, !.at = at, !.images = images]
  BY DEF RollsBack
<1> HIDE DEF at, images
<1>3. /\ batch' \in MoveRecords /\ batch'.at = at /\ batch'.back /\ batch'.lost = batch.lost /\ batch'.images = images
      /\ batch'.todo = batch.todo /\ batch'.done = batch.done /\ batch'.planned = batch.planned /\ batch'.kept = batch.kept
      /\ batch'.source = batch.source /\ batch'.target = batch.target
  BY <1>1, <1>2, AtACall DEF MoveRecords
<1>4. Plan' = Plan /\ InMove' /\ SamePlan
  BY <1>1, <1>3 DEF Plan, InMove, SamePlan
<1>5. AllShifted
  BY AtACall DEF Forward
<1>6. AllShifted'
  <2>1. OwningMoved' = OwningMoved /\ \A p \in Where : NowAt(p)' = NowAt(p)
    BY DEF OwningMoved, NowAt
  <2>2. \A p \in Where \ {before.target} : page'[NowAt(p)'] = Written(p)'
    BY <1>3, <2>1 DEF Written
  <2>3. \A p \in batch'.done : batch'.kept[p] = MovedText(p)'
    BY <1>3
  <2> QED BY <1>5, <2>1, <2>2, <2>3 DEF AllShifted
<1>7. ASSUME t \notin before.owning PROVE images = (s \in before.owning)
  BY <1>1, <1>5, <1>7 DEF AllShifted, OwningMoved
<1>8. before.target \notin before.owning => Backward'
  BY <1>1, <1>3, <1>6, <1>7 DEF Backward
<1> QED BY <1>3, <1>4, <1>8, StillPlanned

LEMMA WritingFails == ASSUME MoveInv, WritePageFails PROVE MoveInv'
<1>0. /\ InMove /\ batch.at = "write" /\ ~batch.back /\ UNCHANGED <<page, owning, preview, verdict, before>> /\ RollsBack
  BY DEF InMove, WritePageFails
<1>1. AllShifted /\ page \in Sheets /\ before.unsynced \in Where \cup {NoWhere} /\ HistoryShape'
  BY <1>0, AtACall DEF Forward, MoveTypes, HistoryShape
<1>2. \A p : MovedText(p)' = MovedText(p)
  BY <1>0, SameHistory
<1> QED BY <1>0, <1>1, <1>2, RollBack DEF AllShifted, Written

\* One text is written, and is not among those that are written back.
LEMMA PageUnsynced == ASSUME MoveInv, WritePageUnsynced PROVE MoveInv'
<1> PICK q \in batch.todo : WritePageUnsynced!(q)
  BY DEF WritePageUnsynced
<1>0. InMove /\ batch.at = "write" /\ ~batch.back /\ UNCHANGED <<owning, preview, verdict>> /\ RollsBack
  BY DEF InMove
<1> PICK s \in Where, t \in Where : s = before.source /\ t = before.target
  BY <1>0, AtACall
<1>1. /\ page \in Sheets /\ s # t /\ AllShifted /\ before.unsynced = NoWhere /\ before.page \in Sheets
      /\ q \in Where \ {t} /\ q \in Plan /\ q \notin batch.done /\ batch.done \subseteq Where \ {t}
      /\ NowAt(q) \in Where /\ PathNow(q) = NowAt(q) /\ batch.planned[q] \in Sheet
      /\ \A p \in Where \ {t} : p # q => NowAt(p) # NowAt(q)
      /\ NowAt(q) # s
  <2>1. q \in Plan /\ q \in Where /\ batch.planned \in Sheets /\ batch.done \subseteq Where
    BY <1>0, AtACall DEF Plan, MoveRecords
  <2>2. q # t /\ t \notin batch.done
    BY <1>0, <2>1, AtACall DEF PlanHolds, Plan
  <2>3. PathNow(q) = NowAt(q)
    BY <1>0, AtACall DEF PathNow, NowAt, AsBegun
  <2> QED BY <1>0, <2>1, <2>2, <2>3, AtACall, PathsApart DEF Forward, MoveTypes, HistoryShape, Sheets
<1>2. page' \in Sheets /\ page'[NowAt(q)] = batch.planned[q] /\ \A p \in Where : p # NowAt(q) => page'[p] = page[p]
  BY <1>1 DEF Sheets
<1>3. /\ before'.page = before.page /\ before'.owning = before.owning /\ before'.stale = before.stale
      /\ before'.source = before.source /\ before'.target = before.target
      /\ before'.unsynced = q /\ HistoryShape'
  BY <1>0, AtACall, HistoryRecord DEF MoveTypes, HistoryShape
<1>4. ASSUME NEW p \in Where, p # q PROVE MovedText(p)' = MovedText(p)
  BY <1>1, <1>3, <1>4, NoWhereApart DEF MovedText, Left
<1>5. MovedText(q)' = batch.planned[q]
  <2>1. batch.planned[q] = TextAfter(before.page, q, s, t)
    BY <1>0, <1>1, AtACall DEF PlanHolds
  <2>2. Left(q)' = [link |-> LinkAfter(before.page, q, s, t),
                    images |-> IF q = s /\ s \notin before.owning
                               THEN Renamed(before.page[q].images, s.title, t.title) ELSE before.page[q].images]
    BY <1>3 DEF Left
  <2>3. CASE q = s /\ s \in before.owning
    <3>1. MovedText(q)' = [Left(q)' EXCEPT !.images = Renamed(Left(q)'.images, s.title, t.title)]
      BY <1>3, <2>3 DEF MovedText
    <3> QED BY <2>1, <2>2, <2>3, <3>1 DEF TextAfter
  <2>4. CASE ~(q = s /\ s \in before.owning)
    <3>1. MovedText(q)' = Left(q)'
      BY <1>3, <2>4 DEF MovedText
    <3> QED BY <2>1, <2>2, <2>4, <3>1 DEF TextAfter
  <2> QED BY <2>3, <2>4
<1>6. ASSUME NEW p \in Where \ {t}
      PROVE  page'[NowAt(p)] = IF p \in batch.done THEN batch.planned[p] ELSE MovedText(p)'
  <2>1. CASE p = q
    BY <1>1, <1>2, <1>5, <2>1
  <2>2. CASE p # q
    <3>1. page'[NowAt(p)] = Written(p)
      BY <1>0, <1>1, <1>2, <2>2, AtACall, PathsApart DEF AllShifted
    <3> QED BY <1>4, <2>2, <3>1 DEF Written
  <2> QED BY <2>1, <2>2
<1>7. \A p \in batch.done : batch.kept[p] = MovedText(p)'
  BY <1>1, <1>4 DEF AllShifted
<1>8. page'[s] = NoPage
  BY <1>1, <1>2 DEF AllShifted
<1> QED BY <1>0, <1>1, <1>2, <1>3, <1>6, <1>7, <1>8, RollBack

\* A text is back, or could not be written back.
LEMMA Restored == ASSUME MoveInv, RestorePage \/ RestorePageFails PROVE MoveInv'
<1>0. InMove /\ batch.at = "write" /\ batch.back /\ UNCHANGED <<owning, preview, verdict, before>>
  BY DEF InMove, RestorePage, RestorePageFails
<1> PICK s \in Where, t \in Where : s = before.source /\ t = before.target
  BY <1>0, AtACall
<1>1. PICK q \in batch.done, at \in {"note", "write"}, lost \in BOOLEAN :
        /\ at = "note" <=> batch.done = {q}
        /\ batch' = [batch EXCEPT !.done = @ \ {q}, !.at = at, !.lost = lost]
        /\ \/ ~lost /\ ~batch.lost /\ page' = [page EXCEPT ![PathNow(q)] = batch.kept[q]]
           \/ batch.lost /\ lost /\ page' = [page EXCEPT ![PathNow(q)] = batch.kept[q]]
           \/ lost /\ page' = page
  <2>0. batch \in MoveRecords
    BY <1>0, AtACall
  <2>1. CASE RestorePage
    <3>1. PICK q \in batch.done :
            /\ page' = [page EXCEPT ![PathNow(q)] = batch.kept[q]]
            /\ batch' = [batch EXCEPT !.done = @ \ {q}, !.at = IF batch.done = {q} THEN "note" ELSE "write"]
      BY <2>1 DEF RestorePage
    <3> DEFINE at == IF batch.done = {q} THEN "note" ELSE "write"
    <3>2. at \in {"note", "write"} /\ (at = "note" <=> batch.done = {q})
      OBVIOUS
    <3>3. batch' = [batch EXCEPT !.done = @ \ {q}, !.at = at]
      BY <3>1
    <3> HIDE DEF at
    <3>4. batch' = [batch EXCEPT !.done = @ \ {q}, !.at = at, !.lost = batch.lost] /\ batch.lost \in BOOLEAN
      BY <2>0, <3>3 DEF MoveRecords
    <3> QED BY <3>1, <3>2, <3>4
  <2>2. CASE RestorePageFails
    <3>1. PICK q \in batch.done :
            /\ page' = page
            /\ batch' = [batch EXCEPT !.done = @ \ {q}, !.at = IF batch.done = {q} THEN "note" ELSE "write", !.lost = TRUE]
      BY <2>2 DEF RestorePageFails
    <3> DEFINE at == IF batch.done = {q} THEN "note" ELSE "write"
    <3>2. at \in {"note", "write"} /\ (at = "note" <=> batch.done = {q})
      OBVIOUS
    <3>3. batch' = [batch EXCEPT !.done = @ \ {q}, !.at = at, !.lost = TRUE]
      BY <3>1
    <3> HIDE DEF at
    <3> QED BY <3>1, <3>2, <3>3
  <2> QED BY <2>1, <2>2
<1>2. /\ batch' \in MoveRecords /\ batch'.at = at /\ batch'.back /\ batch'.lost = lost /\ batch'.images = batch.images
      /\ batch'.todo = batch.todo /\ batch'.done = batch.done \ {q} /\ batch'.planned = batch.planned
      /\ batch'.kept = batch.kept /\ batch'.source = batch.source /\ batch'.target = batch.target
  BY <1>0, <1>1, AtACall DEF MoveRecords
<1>3. /\ q \in Where \ {t} /\ PathNow(q) = NowAt(q) /\ NowAt(q) \in Where /\ NowAt(q) # s
      /\ \A p \in Where \ {t} : p # q => NowAt(p) # NowAt(q)
      /\ batch.kept[q] \in Sheet /\ page \in Sheets /\ batch.done \subseteq Where
  <2>1. q \in Plan /\ q \in Where /\ batch.kept \in Sheets /\ page \in Sheets /\ batch.done \subseteq Where
    BY <1>0, AtACall DEF Plan, MoveRecords, MoveTypes, HistoryShape
  <2>2. q # t
    BY <1>0, <2>1, AtACall DEF PlanHolds
  <2>3. PathNow(q) = NowAt(q)
    BY <1>0, AtACall DEF PathNow, NowAt, AsBegun
  <2> QED BY <1>0, <2>1, <2>2, <2>3, AtACall, PathsApart DEF Sheets
<1>4. page' \in Sheets
  BY <1>1, <1>3 DEF Sheets
<1>5. /\ Plan' \subseteq Plan /\ InMove' /\ SamePlan
  BY <1>0, <1>1, <1>2, AtACall DEF Plan, InMove, SamePlan, MoveTypes, HistoryShape
<1>6. ASSUME ~lost, t \notin before.owning PROVE Backward'
  <2>1. Backward /\ page' = [page EXCEPT ![NowAt(q)] = batch.kept[q]]
    BY <1>0, <1>1, <1>3, <1>6, AtACall
  <2>2. AllShifted /\ batch.images = (s \in before.owning)
    BY <1>0, <2>1 DEF Backward
  <2>3. page'[NowAt(q)] = MovedText(q) /\ \A p \in Where : p # NowAt(q) => page'[p] = page[p]
    BY <1>3, <2>1, <2>2 DEF AllShifted, Sheets
  <2>4. ASSUME NEW p \in Where \ {t} PROVE page'[NowAt(p)] = IF p \in batch'.done THEN batch'.planned[p] ELSE MovedText(p)
    <3>1. CASE p = q
      BY <1>2, <2>3, <3>1
    <3>2. CASE p # q
      <4>1. page'[NowAt(p)] = IF p \in batch.done THEN batch.planned[p] ELSE MovedText(p)
        BY <1>0, <1>3, <2>2, <2>3, <3>2, AtACall, PathsApart DEF AllShifted, Written
      <4>2. p \in batch'.done <=> p \in batch.done
        BY <1>2, <3>2
      <4> QED BY <1>2, <4>1, <4>2
    <3> QED BY <3>1, <3>2
  <2>5. page'[s] = NoPage
    BY <1>3, <2>2, <2>3 DEF AllShifted
  <2>6. AllShifted'
    BY <1>0, <1>2, <2>2, <2>4, <2>5, SameHistory DEF AllShifted, Written
  <2>7. (at = "note" => batch'.done = {}) /\ (at = "write" => batch'.done # {})
    BY <1>1, <1>2
  <2> QED BY <1>0, <1>1, <1>2, <2>2, <2>6, <2>7 DEF Backward
<1> QED BY <1>0, <1>2, <1>4, <1>5, <1>6, StillPlanned

-----------------------------------------------------------------------------
LEMMA MoveAtFirst == MoveInit => MoveInv
<1> SUFFICES ASSUME MoveInit PROVE MoveInv
  OBVIOUS
<1>1. page \in Sheets
  <2>1. CASE page = Empty
    BY <2>1, SheetsHold
  <2>2. CASE page # Empty
    <3>1. PICK p \in Where, q \in Where : \E a \in Texts(p), b \in Texts(q) : page = [Empty EXCEPT ![p] = a, ![q] = b]
      BY <2>2 DEF MoveInit
    <3>2. PICK a \in Texts(p), b \in Texts(q) : page = [Empty EXCEPT ![p] = a, ![q] = b]
      BY <3>1
    <3>3. a \in Sheet /\ b \in Sheet
      BY DEF Texts, Page, Sheet
    <3> QED BY <3>2, <3>3, SheetsHold DEF Sheets
  <2> QED BY <2>1, <2>2
<1>2. /\ before.page \in Sheets /\ before.unsynced = NoWhere /\ HistoryShape /\ batch = NoMove /\ preview = NoPreview /\ verdict = "none"
  BY SheetsHold DEF MoveInit, NoHistory, HistoryShape
<1>3. MoveTypes
  BY <1>1, <1>2, NoMoveRecord DEF MoveTypes, HistoryShape
<1> QED BY <1>2, <1>3, NoMoveRecord DEF MoveInv, CheckHolds, InMove, MoveIsWholeOrUndone, LinksFollowTheMove, FailedMoveIsUndone, StandingMoveIsWhole

LEMMA MoveStays == ASSUME MoveInv, [MoveNext]_moveVars PROVE MoveInv'
<1>1. CASE PreviewMove
  <2>1. PICK s \in Where, t \in Where : preview' = [source |-> s, target |-> t, token |-> page]
    BY <1>1 DEF PreviewMove
  <2> QED BY <1>1, <2>1, SameMove DEF PreviewMove
<1>2. CASE Outdated
  BY <1>2, SameMove DEF Outdated
<1>3. CASE UNCHANGED moveVars
  BY <1>3, SameMove DEF moveVars, MoveInv, MoveTypes, HistoryShape
<1> QED
  BY <1>1, <1>2, <1>3, MovesBegin, PlainMoveChecked, NoteSaved, PageRenames, PageRenameFails, ImagesRename,
     ImagesRenameFails, NamesRewritten, NamesNotRewritten, FolderSynced, FolderNotSynced, PageWritten, WritingFails,
     PageUnsynced, Restored DEF MoveNext

\* A move that was answered as done has every link lead where it led; one that was
\* answered with an error and rolled back left everything as it was, but for the
\* cases the property names; one that was answered with an error and not rolled
\* back has the note and its images at the new path and touched no other note: for
\* any folders, names, notes and links and any number of moves, saves and failures.
THEOREM MovesAreWhole == MoveSpec => []MoveIsWholeOrUndone
<1>1. MoveInit => MoveInv
  BY MoveAtFirst
<1>2. MoveInv /\ [MoveNext]_moveVars => MoveInv'
  BY MoveStays
<1>3. MoveInv => MoveIsWholeOrUndone
  BY DEF MoveInv
<1> QED BY <1>1, <1>2, <1>3, PTL DEF MoveSpec
==============================================================================
