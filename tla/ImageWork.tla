------------------------------ MODULE ImageWork ------------------------------
(***************************************************************************)
(* The images of the editor (MarkdownEditor.tsx): the sizes they are shown *)
(* in, and replacing and removing the selected one.                        *)
(*                                                                         *)
(* The editor is mounted anew for every note that is opened, so its state  *)
(* is that of one note.  The note is a sequence of units, text or image.   *)
(***************************************************************************)
EXTENDS Naturals, Sequences, SequencesExt

CONSTANTS
  Image,      \* the images of the note
  Uploaded,   \* the path an uploaded replacement gets
  MaxNote,    \* bound: units of the note
  MaxSaves    \* bound: sizes saved and images removed

ASSUME ImageAssumption == Uploaded \notin Image /\ MaxNote \in Nat /\ MaxSaves \in Nat

VARIABLES
  note,
  nodeAt,      \* the image the selection of the editor is on, or 0
  heard,       \* the listener has been told of the last change
  picked,      \* selectedImage
  replacing,   \* the replacement being uploaded
  sizes,       \* the server: image -> size
  values,      \* imagePresentations: image -> size
  sizesAsked,  \* presentationRequestRef and what became of its request
  saves,       \* the two requests in flight that change a size
  saved,       \* their number
  stray,       \* history: the replaced image was no longer selected
  unsure       \* history: requests overlapped, one failed after it was done, or the
               \* sizes changed while a replacement was uploaded

imageVars == <<note, nodeAt, heard, picked, replacing, sizes, values, sizesAsked, saves, saved, stray, unsure>>

-----------------------------------------------------------------------------
ImagePath == Image \cup {Uploaded}
Size == {"full", "small"}   \* no record: shown in full
Slot == 1..2

NoPick == [at |-> 0, src |-> Uploaded]
NoUpload == [on |-> FALSE, at |-> 0, src |-> Uploaded, before |-> [p \in ImagePath |-> "full"]]
NoSave == [at |-> "no", src |-> Uploaded, size |-> "full", previous |-> Uploaded, before |-> [p \in ImagePath |-> "full"]]

ImageInit ==
  /\ note \in UNION {[1..n -> Image \cup {"text"}] : n \in 1..MaxNote}
  /\ nodeAt = 0 /\ heard = TRUE /\ picked = NoPick
  /\ replacing = NoUpload
  /\ sizes \in [ImagePath -> Size] /\ sizes[Uploaded] = "full"
  /\ values = [p \in ImagePath |-> "full"]
  /\ sizesAsked = "no"
  /\ saves = [s \in Slot |-> NoSave] /\ saved = 0
  /\ unsure = FALSE /\ stray = FALSE

Images == {i \in DOMAIN note : note[i] # "text"}
NoRequests == sizesAsked # "asked" /\ \A s \in Slot : saves[s].at = "no"

Free(s) == saves[s].at = "no" /\ \A r \in Slot : r < s => saves[r].at # "no"

SameSizes == UNCHANGED <<sizes, values, sizesAsked, saves, saved, unsure>>
SameNote == UNCHANGED <<note, nodeAt, heard, picked, replacing, stray>>

-----------------------------------------------------------------------------
(* The text and the selection. *)
SelectImage == \E i \in Images :
  /\ nodeAt' = i /\ heard' = FALSE
  /\ UNCHANGED <<note, picked, replacing, stray>> /\ SameSizes

SelectText ==
  /\ nodeAt # 0 /\ nodeAt' = 0 /\ heard' = FALSE
  /\ UNCHANGED <<note, picked, replacing, stray>> /\ SameSizes

\* Mutant: the picked image stays when the selection leaves it.
MutSelectionHeard ==
  /\ ~heard /\ heard' = TRUE
  /\ picked' = IF nodeAt = 0 THEN picked ELSE [at |-> nodeAt, src |-> note[nodeAt]]
  /\ stray' = FALSE
  /\ UNCHANGED <<note, nodeAt, replacing>> /\ SameSizes

\* selectionUpdated.
SelectionHeard ==
  /\ ~heard /\ heard' = TRUE
  /\ picked' = IF nodeAt = 0 THEN NoPick ELSE [at |-> nodeAt, src |-> note[nodeAt]]
  /\ stray' = FALSE
  /\ UNCHANGED <<note, nodeAt, replacing>> /\ SameSizes

\* Text or an image at the selection: it takes the place of a selected image.
InsertHere == \E unit \in Image \cup {"text"} :
  /\ \/ nodeAt # 0 /\ note' = ReplaceAt(note, nodeAt, unit)
     \/ nodeAt = 0 /\ \E i \in 1..(Len(note) + 1) : note' = InsertAt(note, i, unit)
  /\ Len(note') <= MaxNote
  /\ nodeAt' = 0 /\ heard' = FALSE
  /\ UNCHANGED <<picked, replacing, stray>> /\ SameSizes

\* A dropped image goes to where it was dropped; the selection stays on its image.
InsertElsewhere == \E image \in Image, i \in 1..(Len(note) + 1) :
  /\ note' = InsertAt(note, i, image)
  /\ Len(note') <= MaxNote
  /\ nodeAt' = IF nodeAt >= i THEN nodeAt + 1 ELSE nodeAt
  /\ heard' = (heard /\ nodeAt' = nodeAt)
  /\ UNCHANGED <<picked, replacing, stray>> /\ SameSizes

DeleteUnit == \E i \in DOMAIN note :
  /\ note' = RemoveAt(note, i)
  /\ nodeAt' = 0 /\ heard' = FALSE
  /\ UNCHANGED <<picked, replacing, stray>> /\ SameSizes

-----------------------------------------------------------------------------
(* Sizes. *)
\* decorateImages: the first image asks for the sizes, once.
LoadImagePresentations ==
  /\ Images # {} /\ sizesAsked = "no"
  /\ sizesAsked' = "asked"
  /\ unsure' = (unsure \/ ~NoRequests)
  /\ SameNote /\ UNCHANGED <<sizes, values, saves, saved>>

PresentationsHeard ==
  /\ sizesAsked = "asked"
  /\ \/ sizesAsked' = "yes" /\ values' = sizes
     \/ sizesAsked' = "failed" /\ UNCHANGED values
  /\ SameNote /\ UNCHANGED <<sizes, saves, saved, unsure>>

\* saveImagePresentation up to its request; before are the sizes of the render the
\* call was made from.
SaveImagePresentation(src, size, previous, before) ==
  \E s \in Slot :
    /\ Free(s)
    /\ saved < MaxSaves /\ saved' = saved + 1
    /\ values' = [before EXCEPT ![src] = size]
    /\ saves' = [saves EXCEPT ![s] = [at |-> "save", src |-> src, size |-> size, previous |-> previous, before |-> before]]
    /\ unsure' = (unsure \/ ~NoRequests \/ before # values)
    /\ UNCHANGED <<sizes, sizesAsked>>

RemoveImagePresentation(src) ==
  \E s \in Slot :
    /\ Free(s)
    /\ saved < MaxSaves /\ saved' = saved + 1
    /\ values' = [values EXCEPT ![src] = "full"]
    /\ saves' = [saves EXCEPT ![s] = [NoSave EXCEPT !.at = "remove", !.src = src]]
    /\ unsure' = (unsure \/ ~NoRequests)
    /\ UNCHANGED <<sizes, sizesAsked>>

\* What set and deleteImage leave on the server.
Stored(request) ==
  IF request.at = "remove" THEN [sizes EXCEPT ![request.src] = "full"]
  ELSE [p \in ImagePath |-> IF p = request.src THEN request.size ELSE IF p = request.previous THEN "full" ELSE sizes[p]]

SaveAnswered(s) ==
  LET me == saves[s]
  IN  /\ me.at # "no"
      /\ sizes' = Stored(me)
      /\ values' = IF me.at = "save" /\ me.previous # me.src
                   THEN [values EXCEPT ![me.previous] = "full", ![me.src] = me.size] ELSE values
      /\ saves' = [saves EXCEPT ![s] = NoSave]
      /\ SameNote /\ UNCHANGED <<sizesAsked, saved, unsure>>

\* Mutant: a size that was refused stays on screen.
MutSaveFailed(s) ==
  LET me == saves[s]
  IN  /\ me.at # "no"
      /\ sizes' \in {sizes, Stored(me)}
      /\ unsure' = (unsure \/ me.at = "remove" \/ sizes' # sizes)
      /\ saves' = [saves EXCEPT ![s] = NoSave]
      /\ SameNote /\ UNCHANGED <<values, sizesAsked, saved>>

\* The sizes go back to what they were when the save began; a removal stays.
SaveFailed(s) ==
  LET me == saves[s]
  IN  /\ me.at # "no"
      /\ sizes' \in {sizes, Stored(me)}
      /\ values' = IF me.at = "save" THEN me.before ELSE values
      /\ unsure' = (unsure \/ me.at = "remove" \/ sizes' # sizes)
      /\ saves' = [saves EXCEPT ![s] = NoSave]
      /\ SameNote /\ UNCHANGED <<sizesAsked, saved>>

ResizeImage == \E size \in Size :
  /\ picked # NoPick
  /\ SaveImagePresentation(picked.src, size, picked.src, values)
  /\ SameNote

-----------------------------------------------------------------------------
(* The selected image is replaced or removed, at the position it had. *)
IsImage(i) == i \in DOMAIN note /\ note[i] # "text"

StartReplacing ==
  /\ picked # NoPick /\ ~replacing.on
  /\ replacing' = [on |-> TRUE, at |-> picked.at, src |-> picked.src, before |-> values]
  /\ UNCHANGED <<note, nodeAt, heard, picked, stray>> /\ SameSizes

\* The size moves to the new image even when the old one was not replaced.
ReplaceSelectedImage ==
  /\ replacing.on /\ replacing' = NoUpload
  /\ IF IsImage(replacing.at)
     THEN /\ note' = [note EXCEPT ![replacing.at] = Uploaded]
          /\ picked' = [at |-> replacing.at, src |-> Uploaded]
          /\ nodeAt' = IF nodeAt = replacing.at THEN 0 ELSE nodeAt
          /\ heard' = (heard /\ nodeAt' = nodeAt)
          /\ stray' = (nodeAt # replacing.at)
     ELSE UNCHANGED <<note, nodeAt, heard, picked, stray>>
  /\ SaveImagePresentation(Uploaded, replacing.before[replacing.src], replacing.src, replacing.before)

ReplacementFails ==
  /\ replacing.on /\ replacing' = NoUpload
  /\ UNCHANGED <<note, nodeAt, heard, picked, stray>> /\ SameSizes

RemoveSelectedImage ==
  /\ picked # NoPick
  /\ IF IsImage(picked.at)
     THEN note' = RemoveAt(note, picked.at) /\ picked' = NoPick /\ nodeAt' = 0 /\ heard' = FALSE
     ELSE UNCHANGED <<note, picked, nodeAt, heard>>
  /\ RemoveImagePresentation(picked.src)
  /\ UNCHANGED <<replacing, stray>>

-----------------------------------------------------------------------------
ImageNext ==
  \/ SelectImage \/ SelectText \/ SelectionHeard \/ InsertHere \/ InsertElsewhere \/ DeleteUnit
  \/ LoadImagePresentations \/ PresentationsHeard
  \/ \E s \in Slot : SaveAnswered(s) \/ SaveFailed(s)
  \/ ResizeImage \/ StartReplacing \/ ReplaceSelectedImage \/ ReplacementFails \/ RemoveSelectedImage

\* Once the editor has heard of the last change, its buttons act on the image
\* that is selected: an image dropped before it, a deletion or a replacement does
\* not leave them with the position of another one.  Only a replacement that
\* ends when something else is selected can, until the selection changes again.
PickedIsInTheNote ==
  heard /\ ~stray /\ picked # NoPick => picked.at \in DOMAIN note /\ note[picked.at] = picked.src

\* The sizes are shown before the server has them and put back when it refuses;
\* a replacement moves a size on both sides.  When no two requests overlapped and
\* no answer was lost, what is shown afterwards is what is stored.  A replacement
\* begins from the sizes of the time its upload began, so the sizes must not have
\* changed since.
SizesAgree == sizesAsked = "yes" /\ NoRequests /\ ~unsure => values = sizes
=============================================================================
