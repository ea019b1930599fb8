------------------------------ MODULE LinkedMove ------------------------------
(***************************************************************************)
(* Moving a note whose links, and whose images, other text names           *)
(* (files/links.go, operations.go, the two move routes of app/handler.go): *)
(* the preview and its token, the renames, the notes rewritten one after   *)
(* the other, and the roll-back when one of these calls fails.             *)
(*                                                                         *)
(* Moves and saves take contentMu, so they do not overlap; previews take   *)
(* no mutex.  The text of a note is the one link and the one image in it.  *)
(* The folders lie beside each other.  A sync of a folder comes after the  *)
(* rename it is for: when it fails, an error is answered and the rename    *)
(* has happened.                                                           *)
(***************************************************************************)
EXTENDS Naturals

CONSTANTS
  Shelf,         \* folders
  Title,         \* names of notes
  Nothing,       \* no note, no link, no image
  MaxMoves,      \* bound: moves
  MaxEdits,      \* bound: saves
  MaxFailures    \* bound: calls that fail

ASSUME MoveAssumption ==
  /\ Nothing \notin Shelf \cup Title /\ "here" \notin Shelf
  /\ MaxMoves \in Nat /\ MaxEdits \in Nat /\ MaxFailures \in Nat

VARIABLES
  page,       \* path -> the text of the note there
  owning,     \* the paths with a directory of images
  preview,    \* the preview a client has: its move and its token
  batch,      \* the move that holds contentMu, or that found nothing to rewrite
  verdict,    \* history: how the last move ended, until something else begins
  before,     \* history: the notes when it began, and the one written with an error
  edits, moves, failures

moveVars == <<page, owning, preview, batch, verdict, before, edits, moves, failures>>

-----------------------------------------------------------------------------
Where == [shelf : Shelf, title : Title]
\* A link says where it goes from the folder it is in: to a note of this folder,
\* or up and down into a folder.
Link == [way : Shelf \cup {"here"}, title : Title]
NoLink == [way |-> "here", title |-> Nothing]
Page == [link : Link \cup {NoLink}, images : Title \cup {Nothing}]
NoPage == [link |-> NoLink, images |-> "none"]
There == {p \in Where : page[p] # NoPage}

\* resolvePortableLink, portableRelativeLink, remapMovedPath.
LeadsTo(p, link) == IF link.way = "here" THEN [shelf |-> p.shelf, title |-> link.title] ELSE [shelf |-> link.way, title |-> link.title]
LinkTo(p, target) == [way |-> IF p.shelf = target.shelf THEN "here" ELSE target.shelf, title |-> target.title]
Remapped(p, source, target) == IF p = source THEN target ELSE p

\* planned, kept: the texts to write, and those they replaced.  stale: a save came
\* after the check.  lost: a text could not be written back.
Empty == [p \in Where |-> NoPage]
NoWhere == [shelf |-> Nothing, title |-> Nothing]
NoMove == [at |-> "no", source |-> NoWhere, target |-> NoWhere, stale |-> FALSE, images |-> FALSE,
           todo |-> {}, done |-> {}, planned |-> Empty, kept |-> Empty, back |-> FALSE, lost |-> FALSE]
NoPreview == [source |-> NoWhere, target |-> NoWhere, token |-> Empty]
NoHistory == [page |-> Empty, owning |-> {}, source |-> NoWhere, target |-> NoWhere, stale |-> FALSE, unsynced |-> NoWhere]

\* At most two notes, each with images of its own, named by its name, or none.
Texts(p) == {text \in Page : text.images \in {Nothing, p.title}}
MoveInit ==
  /\ \/ page = Empty
     \/ \E p, q \in Where : \E a \in Texts(p), b \in Texts(q) : page = [Empty EXCEPT ![p] = a, ![q] = b]
  /\ owning = {p \in There : page[p].images # Nothing}
  /\ preview = NoPreview /\ batch = NoMove
  /\ verdict = "none" /\ before = NoHistory
  /\ edits = 0 /\ moves = 0 /\ failures = 0

Failure == failures < MaxFailures /\ failures' = failures + 1
Counters == UNCHANGED <<edits, moves, failures>>
Continue(at) == batch' = [batch EXCEPT !.at = at]

-----------------------------------------------------------------------------
(* The plan: planMoveLinks. *)
\* The link of a note after the move: rewritten when it leads to a note and the
\* note or what it leads to moves.
Replacement(p, source, target) ==
  LET link == page[p].link
      goal == LeadsTo(p, link)
      newPath == Remapped(p, source, target)
      newGoal == Remapped(goal, source, target)
  IN  IF link = NoLink \/ goal \notin There \/ (newPath = p /\ newGoal = goal) THEN link
      ELSE LinkTo(newPath, newGoal)

\* rewriteAssetLinksContent.
Renamed(images, old, new) == IF images = old THEN new ELSE images

Updated(p, source, target) ==
  [link |-> Replacement(p, source, target),
   images |-> IF p = source THEN Renamed(page[p].images, source.title, target.title) ELSE page[p].images]

Rewrites(source, target) == {p \in There : Replacement(p, source, target) # page[p].link}
PlannedFiles(source, target) == {p \in There : Updated(p, source, target) # page[p]}

\* resolveEntry, resolveNew, and the directory of images in the way.
Movable(source, target) ==
  /\ source \in There /\ target \notin There
  /\ source \in owning => target \notin owning

\* The token is a hash of the move and of all notes.  Bound: one preview at a
\* time, and none after the last move.
PreviewMove == \E source, target \in Where :
  /\ preview = NoPreview /\ batch.at = "no" /\ moves < MaxMoves
  /\ source \in There /\ target \notin There
  /\ preview' = [source |-> source, target |-> target, token |-> page]
  /\ UNCHANGED <<page, owning, batch, verdict, before>> /\ Counters

-----------------------------------------------------------------------------
(* Moves begin. *)
MoveBegins(source, target, todo) ==
  /\ verdict' = "none"
  /\ before' = [page |-> page, owning |-> owning, source |-> source, target |-> target, stale |-> batch.stale,
               unsynced |-> NoWhere]
  /\ batch' = [NoMove EXCEPT !.at = "note", !.source = source, !.target = target, !.images = (source \in owning),
                             !.todo = todo, !.planned = [p \in Where |-> IF p \in todo THEN Updated(p, source, target) ELSE NoPage]]

\* The plan is made again under the mutex and compared with what was shown.
MoveWithLinkUpdates ==
  /\ batch = NoMove /\ preview # NoPreview
  /\ moves < MaxMoves /\ moves' = moves + 1
  /\ Movable(preview.source, preview.target)
  /\ preview.token = page
  /\ MoveBegins(preview.source, preview.target, PlannedFiles(preview.source, preview.target))
  /\ preview' = NoPreview
  /\ UNCHANGED <<page, owning, edits, failures>>

\* Another text, path or target: the preview is made again.
Outdated ==
  /\ batch = NoMove /\ preview # NoPreview
  /\ ~Movable(preview.source, preview.target) \/ preview.token # page
  /\ preview' = NoPreview
  /\ UNCHANGED <<page, owning, batch, verdict, before>> /\ Counters

\* A move without a token is refused when its preview has rewrites.
CheckPlainMove == \E source, target \in Where :
  /\ batch = NoMove
  /\ moves < MaxMoves /\ moves' = moves + 1
  /\ source \in There /\ target \notin There
  /\ Rewrites(source, target) = {}
  /\ batch' = [NoMove EXCEPT !.at = "checked", !.source = source, !.target = target]
  /\ verdict' = "none"
  /\ UNCHANGED <<page, owning, preview, before, edits, failures>>

\* It then waits for the mutex; saves may come first.
PlainMove ==
  /\ batch.at = "checked"
  /\ IF Movable(batch.source, batch.target) THEN MoveBegins(batch.source, batch.target, {})
     ELSE batch' = NoMove /\ UNCHANGED <<verdict, before>>
  /\ UNCHANGED <<page, owning, preview>> /\ Counters

-----------------------------------------------------------------------------
(* move: the note, its images, the names of its images in its text, the     *)
(* sync of its new folder.  On the way back source and target change places, *)
(* and failures are ignored.                                               *)
From == IF batch.back THEN batch.target ELSE batch.source
To == IF batch.back THEN batch.source ELSE batch.target

\* "failed": an error, and what was done is undone.  "stands": an error, and
\* nothing is undone.  "torn": a call that undoes has failed too.
Answers(how) == batch' = NoMove /\ verdict' = how
Fails(how) == Answers(IF batch.back THEN "torn" ELSE how)

RenamePage ==
  /\ batch.at = "note"
  /\ page' = [page EXCEPT ![To] = page[From], ![From] = NoPage]
  /\ Continue(IF batch.images THEN "images" ELSE "sync")
  /\ UNCHANGED <<owning, preview, verdict, before>> /\ Counters

RenamePageFails ==
  /\ batch.at = "note" /\ Failure
  /\ Fails("failed")
  /\ UNCHANGED <<page, owning, preview, before, edits, moves>>

RenameItsImages ==
  /\ batch.at = "images"
  /\ owning' = (owning \ {From}) \cup {To}
  /\ Continue(IF From.title # To.title THEN "names" ELSE "sync")
  /\ UNCHANGED <<page, preview, verdict, before>> /\ Counters

\* The note goes back, unless that fails too.
RenameItsImagesFails ==
  /\ batch.at = "images" /\ Failure
  /\ \/ page' = [page EXCEPT ![From] = page[To], ![To] = NoPage] /\ Fails("failed")
     \/ UNCHANGED page /\ Answers("torn")
  /\ UNCHANGED <<owning, preview, before, edits, moves>>

RewriteAssetLinks ==
  /\ batch.at = "names"
  /\ page' = [page EXCEPT ![To].images = Renamed(@, From.title, To.title)]
  /\ Continue("sync")
  /\ UNCHANGED <<owning, preview, verdict, before>> /\ Counters

\* The new names are not written; the renames stay.
RewriteAssetLinksFails ==
  /\ batch.at = "names" /\ Failure
  /\ Fails("stands")
  /\ UNCHANGED <<page, owning, preview, before, edits, moves>>

\* On the way back nobody looks at the answer.
SyncFolder ==
  /\ batch.at = "sync"
  /\ IF batch.back THEN Answers(IF batch.lost THEN "torn" ELSE "failed")
     ELSE IF batch.todo = {} THEN Answers("moved")
     ELSE Continue("write") /\ UNCHANGED verdict
  /\ UNCHANGED <<page, owning, preview, before>> /\ Counters

SyncFolderFails ==
  /\ batch.at = "sync" /\ ~batch.back /\ Failure
  /\ Answers("stands")
  /\ UNCHANGED <<page, owning, preview, before, edits, moves>>

-----------------------------------------------------------------------------
(* The notes are rewritten, or restored. *)
PathNow(p) == Remapped(p, batch.source, batch.target)

WritePage == \E p \in batch.todo :
  /\ batch.at = "write" /\ ~batch.back
  /\ page' = [page EXCEPT ![PathNow(p)] = batch.planned[p]]
  /\ IF batch.todo = {p} THEN Answers("moved")
     ELSE /\ batch' = [batch EXCEPT !.todo = @ \ {p}, !.done = @ \cup {p}, !.kept[p] = page[PathNow(p)]]
          /\ UNCHANGED verdict
  /\ UNCHANGED <<owning, preview, before>> /\ Counters

\* Mutant: the notes written before are left as they are.
MutWritePageFails ==
  /\ batch.at = "write" /\ ~batch.back /\ batch.todo # {} /\ Failure
  /\ batch' = [batch EXCEPT !.back = TRUE, !.at = "note", !.images = (batch.target \in owning)]
  /\ UNCHANGED <<page, owning, preview, verdict, before, edits, moves>>

\* What was written is written back, then the note is moved back.
RollsBack == batch' = [batch EXCEPT !.back = TRUE, !.at = IF batch.done = {} THEN "note" ELSE "write",
                                    !.images = (batch.target \in owning)]

WritePageFails ==
  /\ batch.at = "write" /\ ~batch.back /\ batch.todo # {} /\ Failure
  /\ RollsBack
  /\ UNCHANGED <<page, owning, preview, verdict, before, edits, moves>>

\* The note has its new text, the sync after it fails: it is not among those that
\* are written back.
WritePageUnsynced == \E p \in batch.todo :
  /\ batch.at = "write" /\ ~batch.back /\ Failure
  /\ page' = [page EXCEPT ![PathNow(p)] = batch.planned[p]]
  /\ before' = [before EXCEPT !.unsynced = p]
  /\ RollsBack
  /\ UNCHANGED <<owning, preview, verdict, edits, moves>>

\* The answer of its sync is not looked at.
RestorePage == \E p \in batch.done :
  /\ batch.at = "write" /\ batch.back
  /\ page' = [page EXCEPT ![PathNow(p)] = batch.kept[p]]
  /\ batch' = [batch EXCEPT !.done = @ \ {p}, !.at = IF batch.done = {p} THEN "note" ELSE "write"]
  /\ UNCHANGED <<owning, preview, verdict, before>> /\ Counters

\* Nobody is told that a note could not be written back.
RestorePageFails == \E p \in batch.done :
  /\ batch.at = "write" /\ batch.back /\ Failure
  /\ batch' = [batch EXCEPT !.done = @ \ {p}, !.at = IF batch.done = {p} THEN "note" ELSE "write", !.lost = TRUE]
  /\ UNCHANGED <<page, owning, preview, verdict, before, edits, moves>>

-----------------------------------------------------------------------------
\* Another session saves a note with a link to a note in it.  Bound: only under a
\* preview or a checked move; what was saved before is in the initial state.
SavePage == \E p, q \in There :
  /\ batch.at = "checked" \/ (batch = NoMove /\ preview # NoPreview /\ moves < MaxMoves)
  /\ edits < MaxEdits /\ edits' = edits + 1
  /\ page' = [page EXCEPT ![p].link = LinkTo(p, q)] /\ page' # page
  /\ batch' = [batch EXCEPT !.stale = (@ \/ batch.at = "checked")]
  /\ verdict' = "none"
  /\ UNCHANGED <<owning, preview, before, moves, failures>>

MoveNext ==
  \/ PreviewMove \/ MoveWithLinkUpdates \/ Outdated \/ CheckPlainMove \/ PlainMove
  \/ RenamePage \/ RenamePageFails \/ RenameItsImages \/ RenameItsImagesFails
  \/ RewriteAssetLinks \/ RewriteAssetLinksFails \/ SyncFolder \/ SyncFolderFails
  \/ WritePage \/ WritePageFails \/ WritePageUnsynced \/ RestorePage \/ RestorePageFails
  \/ SavePage

MoveSpec == MoveInit /\ [][MoveNext]_moveVars

-----------------------------------------------------------------------------
Was == {p \in Where : before.page[p] # NoPage}
NowAt(p) == Remapped(p, before.source, before.target)

\* After a move that was answered as done, every link that led to a note leads to
\* it still, from where its own note is now, and a moved note names its images by
\* its new name: the renames and the rewritten notes together, for links of the
\* note to others and to itself and of others to it.  Only a save between the
\* check of a plain move and the move itself can bring in a link that is missed.
LinksFollowTheMove ==
  verdict = "moved" /\ ~before.stale =>
    /\ \A p \in Was :
         LET goal == LeadsTo(p, before.page[p].link)
         IN  before.page[p].link # NoLink /\ goal \in Was => LeadsTo(NowAt(p), page[NowAt(p)].link) = NowAt(goal)
    /\ before.source \in before.owning /\ before.page[before.source].images = before.source.title =>
         before.target \in owning /\ page[before.target].images = before.target.title

\* The text of a note that was written for the move, or was not.
AsPlanned(p) ==
  LET was == before.page[p] IN
  /\ page[p].link \in {was.link, LinkTo(NowAt(p), NowAt(LeadsTo(p, was.link)))}
  /\ page[p].images \in {was.images, Renamed(was.images, before.source.title, before.target.title)}

\* A move that was answered with an error and rolled back, with no error on the
\* way back, left every note, its text and its images as they were, but for one:
\* the note whose new text was written, and only its folder not synced, keeps
\* that text.  A text that names images as those of the new name is taken for
\* renamed on the way back, and a directory an earlier move left at the new name
\* comes along.
FailedMoveIsUndone ==
  verdict = "failed" =>
    \/ /\ owning = before.owning
       /\ \A p \in Where \ {before.unsynced} : page[p] = before.page[p]
       /\ before.unsynced # NoWhere => AsPlanned(before.unsynced)
    \/ before.page[before.source].images = before.target.title /\ before.source.title # before.target.title
    \/ before.target \in before.owning

\* A move that was answered with an error, and was not rolled back, is whole for
\* the note: it is at its new path with the link it had, and has its images with
\* it, though perhaps not their names.  No other note was touched, and no link was
\* rewritten: those to the note still name its old path.
StandingMoveIsWhole ==
  verdict = "stands" =>
    /\ page[before.source] = NoPage
    /\ \A p \in Where \ {before.source, before.target} : page[p] = before.page[p]
    /\ page[before.target].link = before.page[before.source].link
    /\ page[before.target].images \in
         {before.page[before.source].images, Renamed(before.page[before.source].images, before.source.title, before.target.title)}
    /\ owning = IF before.source \in before.owning THEN (before.owning \ {before.source}) \cup {before.target}
                ELSE before.owning

\* A move that was answered without an error on the way back is whole, undone, or
\* whole for the note that was moved.
MoveIsWholeOrUndone == LinksFollowTheMove /\ FailedMoveIsUndone /\ StandingMoveIsWhole
=============================================================================
