------------------------------- MODULE TrashBin -------------------------------
(***************************************************************************)
(* Notes and their images on the disk of one vault (files/trash.go,        *)
(* operations.go, assets.go): moving a note to the trash, restoring and    *)
(* deleting it there, moving it, and storing an image, system call by      *)
(* system call, with calls that fail and a server that stops at any point. *)
(*                                                                         *)
(* A note lies at a place of the vault or in an entry of the trash; beside *)
(* it is the directory of its images, if it has one.  trashMu and          *)
(* contentMu let one operation on notes run at a time; storing an image    *)
(* takes no mutex.  Folders are left out.                                  *)
(***************************************************************************)
EXTENDS Naturals

CONSTANTS
  Place, NoPlace,   \* paths of notes
  Entry,            \* names of entries of the trash
  Doc, NoDoc,       \* notes
  Picture,          \* images
  MaxTasks,         \* bound: operations on notes
  MaxFaults         \* bound: calls that fail and stops of the server

ASSUME TrashAssumption ==
  /\ Place \cap Entry = {} /\ NoPlace \notin Place
  /\ NoDoc \notin Doc
  /\ MaxTasks \in Nat /\ MaxFaults \in Nat

VARIABLES
  doc,      \* spot -> the note there
  dirs,     \* the spots with a directory of images beside the note
  pics,     \* spot -> the images in it
  bin,      \* entry -> its directory: name, metadata (the original path), "content" in it
  work,     \* the operation on notes that holds the mutexes
  upload,   \* the image being stored
  owner,    \* history: image -> the note it was stored for
  made,     \* history: the notes there have been
  given,    \* history: notes and images given up by a permanent deletion
  tasks, faults,
  torn,     \* history: an operation was cut off between its calls, or could not be undone
  apart     \* history: an image was stored while its note was on its way

trashVars == <<doc, dirs, pics, bin, work, upload, owner, made, given, tasks, faults, torn, apart>>

-----------------------------------------------------------------------------
Spot == Place \cup Entry
NoEntry == [name |-> "none", meta |-> NoPlace, room |-> FALSE]
NoWork == [op |-> "none", at |-> "no", from |-> NoPlace, to |-> NoPlace, images |-> FALSE, failed |-> FALSE]
NoUploading == [at |-> "no", place |-> NoPlace, doc |-> NoDoc, picture |-> NoDoc]

TrashInit ==
  /\ doc \in [Spot -> Doc \cup {NoDoc}]
  /\ \A s \in Entry : doc[s] = NoDoc
  /\ \A p, q \in Place : doc[p] = doc[q] => p = q \/ doc[p] = NoDoc
  /\ dirs = {} /\ pics = [s \in Spot |-> {}]
  /\ bin = [e \in Entry |-> NoEntry]
  /\ work = NoWork /\ upload = NoUploading
  /\ owner = [i \in Picture |-> NoDoc]
  /\ made = {doc[p] : p \in Place} \ {NoDoc} /\ given = {}
  /\ tasks = 0 /\ faults = 0 /\ torn = FALSE /\ apart = FALSE

Fault == faults < MaxFaults /\ faults' = faults + 1
TaskOnly == UNCHANGED <<upload, owner, made, apart>>
SameDisk == UNCHANGED <<doc, dirs, pics, bin>>
Goes(at) == work' = [work EXCEPT !.at = at]

Takes(op, from, to) ==
  /\ work = NoWork
  /\ tasks < MaxTasks /\ tasks' = tasks + 1
  /\ work' = [op |-> op, at |-> IF op = "delete" THEN "remove" ELSE "note", from |-> from, to |-> to,
              images |-> from \in dirs, failed |-> FALSE]
  /\ UNCHANGED <<faults, torn>>

\* resolveNew, and that no directory of images is in the way.
Vacant(place, images) == doc[place] = NoDoc /\ (images => place \notin dirs)

\* TrashItems passes over entries that are not finished; loadTrashItem.
Listed(e) == bin[e].name = "final"
Loads(e) == bin[e].name = "final" /\ bin[e].meta # NoPlace /\ bin[e].room /\ doc[e] # NoDoc

-----------------------------------------------------------------------------
(* Operations begin: locks and checks. *)
\* The entry gets its directories and metadata under a name that is not listed.
MoveToTrash == \E p \in Place, e \in Entry :
  /\ doc[p] # NoDoc /\ bin[e] = NoEntry
  /\ Takes("trash", p, e)
  /\ bin' = [bin EXCEPT ![e] = [name |-> "pending", meta |-> p, room |-> TRUE]]
  /\ UNCHANGED <<doc, dirs, pics, given>> /\ TaskOnly

RestoreTrashItem == \E e \in Entry :
  /\ Loads(e) /\ Vacant(bin[e].meta, e \in dirs)
  /\ Takes("restore", e, bin[e].meta)
  /\ UNCHANGED given /\ SameDisk /\ TaskOnly

DeleteTrashItem == \E e \in Entry :
  /\ Loads(e)
  /\ Takes("delete", e, e)
  /\ given' = given \cup {doc[e]} \cup pics[e]
  /\ SameDisk /\ TaskOnly

MoveFile == \E p, q \in Place :
  /\ doc[p] # NoDoc /\ Vacant(q, p \in dirs)
  /\ Takes("move", p, q)
  /\ UNCHANGED given /\ SameDisk /\ TaskOnly

CreateFile == \E p \in Place, n \in Doc \ made :
  /\ work = NoWork
  /\ doc[p] = NoDoc
  /\ doc' = [doc EXCEPT ![p] = n] /\ made' = made \cup {n}
  /\ UNCHANGED <<dirs, pics, bin, work, upload, owner, given, tasks, faults, torn, apart>>

-----------------------------------------------------------------------------
(* Their calls, one after the other. *)
\* What follows when note and images have been renamed.
AfterImages == CASE work.op = "trash" -> "name" [] work.op = "restore" -> "remove" [] OTHER -> "no"
ThenAt(at) == IF at = "no" THEN work' = NoWork ELSE Goes(at)

RenameNote ==
  /\ work.at = "note"
  /\ doc' = [doc EXCEPT ![work.to] = doc[work.from], ![work.from] = NoDoc]
  /\ ThenAt(IF work.images THEN "images" ELSE AfterImages)
  /\ UNCHANGED <<dirs, pics, bin, given, tasks, faults, torn>> /\ TaskOnly

\* RemoveAll of an entry.
Removed(e, docs) ==
  /\ bin' = [bin EXCEPT ![e] = NoEntry]
  /\ doc' = [docs EXCEPT ![e] = NoDoc]
  /\ dirs' = dirs \ {e} /\ pics' = [pics EXCEPT ![e] = {}]

\* cleanupPending, whose failure is ignored.
Cleaned(e, docs) == Removed(e, docs) \/ (doc' = docs /\ UNCHANGED <<dirs, pics, bin>>)

RenameNoteFails ==
  /\ work.at = "note" /\ Fault
  /\ work' = NoWork
  /\ IF work.op = "trash" THEN Cleaned(work.to, doc) ELSE SameDisk
  /\ UNCHANGED <<given, tasks, torn>> /\ TaskOnly

\* A rename refuses a directory that is there when it looks; an empty one made
\* after that look is replaced.
Replaceable(s) == pics[s] = {}

Swept(from, to) ==
  /\ dirs' = (dirs \ {from}) \cup {to}
  /\ pics' = [pics EXCEPT ![to] = pics[from], ![from] = {}]

RenameImages ==
  /\ work.at = "images" /\ Replaceable(work.to)
  /\ Swept(work.from, work.to)
  /\ ThenAt(AfterImages)
  /\ UNCHANGED <<doc, bin, given, tasks, faults, torn>> /\ TaskOnly

\* Mutant: the note stays under its new name.
MutRenameImagesFails ==
  /\ work.at = "images"
  /\ IF work.to \in dirs THEN UNCHANGED faults ELSE Fault
  /\ IF work.op = "trash" THEN Goes("name") ELSE work' = NoWork
  /\ UNCHANGED <<given, tasks, torn>> /\ SameDisk /\ TaskOnly

RenameImagesFails ==
  /\ work.at = "images"
  /\ IF work.to \in dirs THEN UNCHANGED faults ELSE Fault
  /\ Goes("undo note")
  /\ UNCHANGED <<given, tasks, torn>> /\ SameDisk /\ TaskOnly

\* The entry is finished.
NameEntry ==
  /\ work.at = "name"
  /\ bin' = [bin EXCEPT ![work.to].name = "final"]
  /\ work' = NoWork
  /\ UNCHANGED <<doc, dirs, pics, given, tasks, faults, torn>> /\ TaskOnly

NameEntryFails ==
  /\ work.at = "name" /\ Fault
  /\ Goes(IF work.images THEN "undo images" ELSE "undo note")
  /\ UNCHANGED <<given, tasks, torn>> /\ SameDisk /\ TaskOnly

\* RemoveAll of the entry, after a restore or to delete it.
RemoveEntry ==
  /\ work.at = "remove"
  /\ Removed(work.from, doc)
  /\ work' = NoWork
  /\ UNCHANGED <<given, tasks, faults, torn>> /\ TaskOnly

\* What is left of an entry when RemoveAll was cut off or failed.
RemovedInPart(e) ==
  \E meta \in {bin[e].meta, NoPlace}, room \in BOOLEAN, note \in {doc[e], NoDoc}, all \in BOOLEAN :
    /\ ~room => note = NoDoc /\ all
    /\ bin' = [bin EXCEPT ![e].meta = meta, ![e].room = room]
    /\ doc' = [doc EXCEPT ![e] = note]
    /\ dirs' = IF all THEN dirs \ {e} ELSE dirs
    /\ pics' = IF all THEN [pics EXCEPT ![e] = {}] ELSE pics

RemoveEntryFails ==
  /\ work.at = "remove" /\ Fault
  /\ RemovedInPart(work.from)
  /\ torn' = TRUE
  /\ IF work.op = "delete" THEN work' = NoWork ELSE Goes(IF work.images THEN "undo images" ELSE "undo note")
  /\ UNCHANGED <<given, tasks>> /\ TaskOnly

-----------------------------------------------------------------------------
(* What was done is undone, as far as it can be. *)
Room(s) == s \in Entry => bin[s].room

UndoImages ==
  /\ work.at = "undo images"
  /\ \/ /\ Replaceable(work.from) /\ Room(work.from)
        /\ Swept(work.to, work.from)
        /\ Goes("undo note")
        /\ UNCHANGED <<faults, torn>>
     \/ /\ IF work.from \notin dirs /\ Room(work.from) THEN Fault ELSE UNCHANGED faults
        /\ work' = [work EXCEPT !.at = "undo note", !.failed = TRUE]
        /\ torn' = TRUE
        /\ UNCHANGED <<dirs, pics>>
  /\ UNCHANGED <<doc, bin, given, tasks>> /\ TaskOnly

TakenBack == [doc EXCEPT ![work.from] = doc[work.to], ![work.to] = NoDoc]

\* Mutant: the unfinished entry is removed though the images could not be taken back.
MutUndoNote ==
  /\ work.at = "undo note" /\ work' = NoWork
  /\ \/ /\ Room(work.from)
        /\ IF work.op = "trash" THEN Cleaned(work.to, TakenBack)
           ELSE doc' = TakenBack /\ UNCHANGED <<dirs, pics, bin>>
        /\ UNCHANGED <<faults, torn>>
     \/ /\ IF Room(work.from) THEN Fault ELSE UNCHANGED faults
        /\ torn' = TRUE
        /\ SameDisk
  /\ UNCHANGED <<given, tasks>> /\ TaskOnly

UndoNote ==
  /\ work.at = "undo note" /\ work' = NoWork
  /\ \/ /\ Room(work.from)
        /\ IF work.op = "trash" /\ ~work.failed THEN Cleaned(work.to, TakenBack)
           ELSE doc' = TakenBack /\ UNCHANGED <<dirs, pics, bin>>
        /\ UNCHANGED <<faults, torn>>
     \/ /\ IF Room(work.from) THEN Fault ELSE UNCHANGED faults
        /\ torn' = TRUE
        /\ SameDisk
  /\ UNCHANGED <<given, tasks>> /\ TaskOnly

\* The server stops.  The entry prepared for a note that is still at its place
\* is passed over; everything later tears the operation.
ServerStops ==
  /\ work # NoWork \/ upload # NoUploading
  /\ Fault
  /\ IF work.at = "remove" THEN RemovedInPart(work.from) ELSE SameDisk
  /\ torn' = (torn \/ work.at \notin {"no", "note"})
  /\ work' = NoWork /\ upload' = NoUploading
  /\ UNCHANGED <<owner, made, given, tasks, apart>>

-----------------------------------------------------------------------------
(* SaveAsset. *)
UploadOnly == UNCHANGED <<doc, bin, work, made, given, tasks, torn>>

SaveAsset == \E p \in Place, i \in Picture :
  /\ upload = NoUploading
  /\ doc[p] # NoDoc /\ owner[i] = NoDoc
  /\ upload' = [at |-> "resolved", place |-> p, doc |-> doc[p], picture |-> i]
  /\ UNCHANGED <<dirs, pics, owner, faults, apart>> /\ UploadOnly

MakeAssetsDirectory ==
  /\ upload.at = "resolved"
  /\ upload' = [upload EXCEPT !.at = "made"]
  /\ dirs' = dirs \cup {upload.place}
  /\ UNCHANGED <<pics, owner, faults, apart>> /\ UploadOnly

WriteAsset ==
  /\ upload.at = "made" /\ upload.place \in dirs
  /\ pics' = [pics EXCEPT ![upload.place] = @ \cup {upload.picture}]
  /\ owner' = [owner EXCEPT ![upload.picture] = upload.doc]
  /\ apart' = (apart \/ work # NoWork \/ doc[upload.place] # upload.doc)
  /\ upload' = NoUploading
  /\ UNCHANGED <<dirs, faults>> /\ UploadOnly

\* The directory was renamed, or the call failed.
WriteAssetFails ==
  /\ upload.at # "no"
  /\ IF upload.at = "resolved" \/ upload.place \in dirs THEN Fault ELSE UNCHANGED faults
  /\ upload' = NoUploading
  /\ UNCHANGED <<dirs, pics, owner, apart>> /\ UploadOnly

-----------------------------------------------------------------------------
TrashNext ==
  \/ MoveToTrash \/ RestoreTrashItem \/ DeleteTrashItem \/ MoveFile \/ CreateFile
  \/ RenameNote \/ RenameNoteFails \/ RenameImages \/ RenameImagesFails
  \/ NameEntry \/ NameEntryFails \/ RemoveEntry \/ RemoveEntryFails
  \/ UndoImages \/ UndoNote
  \/ ServerStops
  \/ SaveAsset \/ MakeAssetsDirectory \/ WriteAsset \/ WriteAssetFails

TrashSpec == TrashInit /\ [][TrashNext]_trashVars

-----------------------------------------------------------------------------
\* Whatever fails or is cut off, and whatever is stored meanwhile, a note and an
\* image that were stored are somewhere on the disk until somebody deletes them
\* for good: no rename goes over them and no clean-up takes them along.
NothingIsLost ==
  /\ \A n \in made \ given : \E s \in Spot : doc[s] = n
  /\ \A i \in Picture : owner[i] # NoDoc /\ i \notin given => \E s \in Spot : i \in pics[s]

\* Between operations, unless one was torn, the trash can be listed, and every note
\* is at a place or in an entry it can be restored from, with its images beside it
\* unless they were stored while it was on its way: calls that fail half way are
\* undone, and an entry that is not finished does not spoil the list.
NotesComeBackWhole ==
  work = NoWork /\ ~torn =>
    /\ \A e \in Entry : Listed(e) => Loads(e)
    /\ \A n \in made \ given : \E s \in Spot :
         /\ doc[s] = n /\ (s \in Entry => Loads(s))
         /\ \A i \in Picture : owner[i] = n /\ ~apart => i \in pics[s]
=============================================================================
