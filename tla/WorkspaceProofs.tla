--------------------------- MODULE WorkspaceProofs ---------------------------
(***************************************************************************)
(* Theorems about Workspace, for any notes, vaults, flows and number of    *)
(* gestures: the draft is of the selected note, and a note that may be     *)
(* edited is going to be locked, however the flows overlap; and as long as *)
(* nothing moved under a flow that was waiting, the selected note has its  *)
(* tab and its mode, the tree is true, and a locked note is saved.         *)
(***************************************************************************)
EXTENDS Workspace, SequenceTheorems, FiniteSetTheorems, TLAPS

WorkspaceSpec == WorkspaceInit /\ [][WorkspaceNext]_shellVars

Field == {"op", "at", "path", "target", "other", "typed", "then", "read", "of", "tabs", "selected"}

\* The automatic lock only ever waits for saveDraft.
FlowsWellFormed ==
  /\ DOMAIN flow = Flow
  /\ \A c \in Flow : DOMAIN flow[c] = Field /\ (flow[c].op = "lock" => flow[c].at = "saving")

WellFormed ==
  /\ FlowsWellFormed
  /\ DOMAIN openDraft = {"path", "of", "dirty"}
  /\ readOnly \in BOOLEAN /\ autoLock \in BOOLEAN /\ armed \in BOOLEAN /\ lockGaveUp \in BOOLEAN

\* A flow of the timer that is going to lock: for the note that is open, with
\* nothing typed since it ran out.
Watches(c) == flow[c].op = "lock" /\ flow[c].path = selected /\ ~flow[c].typed

\* What LockIsComing rests on.
LockIsDue ==
  autoLock /\ selected # NoNote /\ ~readOnly => armed \/ lockGaveUp \/ \E c \in Flow : Watches(c)

ShellInv == WellFormed /\ OneNoteOpen /\ LockIsDue

-----------------------------------------------------------------------------
(* What most turns have in common. *)

LockFlowsStay == \A d \in Flow : flow[d].op = "lock" => flow'[d] = flow[d]

\* The timer starts again when the selection or the mode changes.
Rearmed ==
  /\ armed' = (IF selected' # selected \/ readOnly' # readOnly THEN autoLock /\ selected' # NoNote /\ ~readOnly' ELSE armed)
  /\ lockGaveUp' = (lockGaveUp /\ selected' = selected /\ readOnly' = readOnly)

Ordinary ==
  /\ FlowsWellFormed' /\ LockFlowsStay
  /\ DOMAIN openDraft' = {"path", "of", "dirty"} /\ openDraft'.path = selected'
  /\ readOnly' \in BOOLEAN /\ autoLock' = autoLock
  /\ Rearmed

LEMMA RearmedBoolean ==
  ASSUME armed \in BOOLEAN, Rearmed
  PROVE  armed' \in BOOLEAN /\ lockGaveUp' \in BOOLEAN
<1>1. (autoLock /\ selected' # NoNote /\ ~readOnly') \in BOOLEAN
  BY Zenon
<1>2. armed' \in BOOLEAN
  BY <1>1, Zenon DEF Rearmed
<1>3. lockGaveUp' \in BOOLEAN
  BY Zenon DEF Rearmed
<1> QED
  BY <1>2, <1>3

LEMMA OrdinaryKeeps == ShellInv /\ Ordinary => ShellInv'
<1> SUFFICES ASSUME ShellInv, Ordinary PROVE ShellInv'
  OBVIOUS
<1>1. armed' \in BOOLEAN /\ lockGaveUp' \in BOOLEAN
  BY RearmedBoolean DEF Ordinary, ShellInv, WellFormed
<1>2. WellFormed' /\ OneNoteOpen'
  BY <1>1 DEF Ordinary, ShellInv, WellFormed, OneNoteOpen
<1>3. CASE selected' # selected \/ readOnly' # readOnly
  <2>1. armed' = (autoLock /\ selected' # NoNote /\ ~readOnly')
    BY <1>3 DEF Ordinary, Rearmed
  <2>2. LockIsDue'
    BY <2>1, Zenon DEF Ordinary, LockIsDue
  <2> QED
    BY <1>2, <2>2 DEF ShellInv
<1>4. CASE selected' = selected /\ readOnly' = readOnly
  <2>1. \A c \in Flow : Watches(c) => Watches(c)'
    BY <1>4 DEF Watches, Ordinary, LockFlowsStay
  <2>2. armed' = armed /\ lockGaveUp' = lockGaveUp
    BY <1>4 DEF Ordinary, Rearmed, ShellInv, WellFormed
  <2>3. LockIsDue'
    BY <1>4, <2>1, <2>2 DEF Ordinary, ShellInv, LockIsDue
  <2> QED
    BY <1>2, <2>3 DEF ShellInv
<1> QED
  BY <1>2, <1>3, <1>4 DEF ShellInv

\* A flow that is not the timer's becomes another one that is not.
LEMMA FlowBecomes ==
  ASSUME NEW c \in Flow, NEW record, FlowsWellFormed,
         DOMAIN record = Field, record.op # "lock", flow[c].op # "lock", Becomes(c, record)
  PROVE  FlowsWellFormed' /\ LockFlowsStay
  BY DEF Becomes, FlowsWellFormed, LockFlowsStay

LEMMA RenderedRearms ==
  ASSUME NEW c, NEW list, NEW path, NEW mode \in BOOLEAN, Rendered(c, list, path, mode)
  PROVE  Rearmed /\ selected' = path /\ readOnly' = mode
  BY DEF Rendered, Rearmed

LEMMA GestureKeeps ==
  ASSUME NEW c \in Flow, NEW op, NEW at, NEW path, NEW target, NEW other,
         op # "lock", ShellInv, Starts(c, op, at, path, target, other)
  PROVE  ShellInv'
<1> DEFINE record == [NotRunning EXCEPT !.op = op, !.at = at, !.path = path, !.target = target, !.other = other,
                        !.of = vault, !.tabs = tabs, !.selected = selected]
<1>1. Becomes(c, record) /\ flow[c].op # "lock"
  BY DEF Starts
<1>2. DOMAIN record = Field /\ record.op # "lock"
  BY DEF NotRunning, Field
<1>3. FlowsWellFormed' /\ LockFlowsStay
  BY <1>1, <1>2, FlowBecomes DEF ShellInv, WellFormed
<1>4. UNCHANGED <<selected, readOnly, armed, lockGaveUp, openDraft, autoLock>>
  BY DEF Starts, SamePlace
<1>5. Ordinary
  BY <1>3, <1>4 DEF Ordinary, Rearmed, ShellInv, WellFormed, OneNoteOpen
<1> QED
  BY <1>5, OrdinaryKeeps

LEMMA FlowStartsKeeps == ASSUME NEW c \in Flow, ShellInv, FlowStarts(c), ~Unlock(c) PROVE ShellInv'
  BY GestureKeeps DEF FlowStarts, OpenPath, CloseSelectedTab, MoveNote, DeleteNote, CreateNote, SwitchVault, CreateVault,
     RefreshTree, Lock

\* A turn after which the flow is no timer's, with the draft of the note that
\* is then selected.
LEMMA TurnKeeps ==
  ASSUME NEW c \in Flow, NEW record, NEW list, NEW path, NEW mode \in BOOLEAN,
         ShellInv, flow[c].op # "lock",
         DOMAIN record = Field, record.op # "lock", Becomes(c, record),
         Rendered(c, list, path, mode),
         DOMAIN openDraft' = {"path", "of", "dirty"}, openDraft'.path = path, autoLock' = autoLock
  PROVE  ShellInv'
<1>1. FlowsWellFormed' /\ LockFlowsStay
  BY FlowBecomes DEF ShellInv, WellFormed
<1>2. Rearmed /\ selected' = path /\ readOnly' = mode
  BY RenderedRearms
<1>3. Ordinary
  BY <1>1, <1>2 DEF Ordinary
<1> QED
  BY <1>3, OrdinaryKeeps

\* The end of a flow, which leaves the draft.
LEMMA OverKeeps ==
  ASSUME NEW c \in Flow, ShellInv, flow[c].op # "lock", Over(c), UNCHANGED <<openDraft, autoLock>>
  PROVE  ShellInv'
<1>1. Becomes(c, NotRunning) /\ DOMAIN NotRunning = Field /\ NotRunning.op # "lock"
  BY DEF Over, NotRunning, Field
<1>2. DOMAIN openDraft' = {"path", "of", "dirty"} /\ openDraft'.path = selected
  BY DEF ShellInv, WellFormed, OneNoteOpen
<1>3. CASE flow[c].then = "none"
  <2>1. Rendered(c, tabs, selected, readOnly) /\ readOnly \in BOOLEAN
    BY <1>3 DEF Over, ShellInv, WellFormed
  <2> QED
    BY <1>1, <1>2, <2>1, TurnKeeps
<1>4. CASE flow[c].then # "none"
  <2> DEFINE mode == flow[c].then = "locked"
  <2>1. Rendered(c, WithMode(tabs, flow[c].path, mode), selected, mode) /\ mode \in BOOLEAN
    BY <1>4 DEF Over
  <2> HIDE DEF mode
  <2> QED
    BY <1>1, <1>2, <2>1, TurnKeeps
<1> QED
  BY <1>3, <1>4

\* saveDraft returned true.
LEMMA DraftSavedKeeps == ASSUME NEW c \in Flow, ShellInv, DraftSaved(c) PROVE ShellInv'
<1> DEFINE me == flow[c]
           left == Without(me.tabs, me.path)
           next == NextTab(left, IndexIn(me.tabs, me.path))
           saved == [openDraft EXCEPT !.dirty = FALSE]
<1>1. DOMAIN saved = {"path", "of", "dirty"} /\ saved.path = selected
  BY DEF ShellInv, WellFormed, OneNoteOpen
<1>2. readOnly \in BOOLEAN /\ autoLock' = autoLock /\ DOMAIN me = Field
  BY DEF DraftSaved, ShellInv, WellFormed, FlowsWellFormed
<1>3. DOMAIN NotRunning = Field /\ NotRunning.op # "lock"
  BY DEF NotRunning, Field
<1>4. CASE me.op = "open"
  <2>1. /\ Becomes(c, [me EXCEPT !.at = "loading"]) /\ openDraft' = saved
        /\ Rendered(c, tabs, selected, readOnly)
    BY <1>4 DEF DraftSaved
  <2>2. DOMAIN [me EXCEPT !.at = "loading"] = Field /\ [me EXCEPT !.at = "loading"].op # "lock"
    BY <1>2, <1>4 DEF Field
  <2> QED
    BY <1>1, <1>2, <1>4, <2>1, <2>2, TurnKeeps
<1>5. CASE me.op = "close"
  <2> DEFINE record == IF next = NoNote THEN NotRunning ELSE [me EXCEPT !.op = "open", !.at = "loading", !.path = next]
  <2>1. Becomes(c, record) /\ openDraft' = NoOpenDraft /\ Rendered(c, left, NoNote, readOnly)
    BY <1>5 DEF DraftSaved
  <2>2. DOMAIN record = Field /\ record.op # "lock"
    BY <1>2, <1>3 DEF Field
  <2>3. DOMAIN NoOpenDraft = {"path", "of", "dirty"} /\ NoOpenDraft.path = NoNote
    BY DEF NoOpenDraft
  <2> HIDE DEF record, left
  <2> QED
    BY <1>2, <1>5, <2>1, <2>2, <2>3, TurnKeeps
<1>6. CASE me.op \in {"move", "delete", "switch"}
  <2>1. /\ Becomes(c, [me EXCEPT !.at = "acting"]) /\ openDraft' = saved
        /\ Rendered(c, tabs, selected, readOnly)
    BY <1>6 DEF DraftSaved
  <2>2. DOMAIN [me EXCEPT !.at = "acting"] = Field /\ [me EXCEPT !.at = "acting"].op # "lock"
    BY <1>2, <1>6 DEF Field
  <2>3. flow[c].op # "lock"
    BY <1>6
  <2> QED
    BY <1>1, <1>2, <2>1, <2>2, <2>3, TurnKeeps
<1>7. CASE me.op = "toggle"
  <2>1. Becomes(c, NotRunning) /\ openDraft' = saved /\ Rendered(c, WithMode(tabs, me.path, TRUE), selected, TRUE)
    BY <1>7 DEF DraftSaved, Locks
  <2> QED
    BY <1>1, <1>2, <1>3, <1>7, <2>1, TurnKeeps
<1>8. CASE me.op = "lock" /\ openDraft.path = me.path /\ ~me.typed
  <2>1. Becomes(c, NotRunning) /\ openDraft' = saved /\ Rendered(c, WithMode(tabs, me.path, TRUE), selected, TRUE)
    BY <1>8 DEF DraftSaved, Locks
  <2>2. Rearmed /\ selected' = selected /\ readOnly' = TRUE
    BY <2>1, RenderedRearms
  <2>3. FlowsWellFormed'
    BY <1>3, <2>1 DEF Becomes, FlowsWellFormed, ShellInv, WellFormed
  <2>5. armed' \in BOOLEAN /\ lockGaveUp' \in BOOLEAN
    BY <2>2, RearmedBoolean DEF ShellInv, WellFormed
  <2>4. WellFormed' /\ OneNoteOpen'
    BY <1>1, <1>2, <2>1, <2>2, <2>3, <2>5 DEF OneNoteOpen, WellFormed, ShellInv
  <2> QED
    BY <2>2, <2>4 DEF ShellInv, LockIsDue
<1>9. CASE me.op = "lock" /\ (openDraft.path # me.path \/ me.typed)
  <2>1. Becomes(c, NotRunning) /\ openDraft' = saved /\ Rendered(c, tabs, selected, readOnly)
    BY <1>9 DEF DraftSaved
  <2>2. Rearmed /\ selected' = selected /\ readOnly' = readOnly
    BY <1>2, <2>1, RenderedRearms
  <2>3. armed' = armed /\ lockGaveUp' = lockGaveUp
    BY <2>2 DEF Rearmed, ShellInv, WellFormed
  <2>4. FlowsWellFormed'
    BY <1>3, <2>1 DEF Becomes, FlowsWellFormed, ShellInv, WellFormed
  <2>5. WellFormed' /\ OneNoteOpen'
    BY <1>1, <1>2, <2>1, <2>2, <2>3, <2>4 DEF WellFormed, OneNoteOpen, ShellInv
  <2>6. ~Watches(c)
    BY <1>9 DEF Watches, ShellInv, OneNoteOpen
  <2>7. \A d \in Flow : Watches(d) => Watches(d)'
    BY <2>1, <2>2, <2>6 DEF Watches, Becomes, ShellInv, WellFormed, FlowsWellFormed
  <2>8. LockIsDue'
    BY <1>2, <2>2, <2>3, <2>7 DEF LockIsDue, ShellInv
  <2> QED
    BY <2>5, <2>8 DEF ShellInv
<1> QED
  BY <1>4, <1>5, <1>6, <1>7, <1>8, <1>9 DEF DraftSaved

LEMMA DraftNotSavedKeeps == ASSUME NEW c \in Flow, ShellInv, DraftNotSaved(c) PROVE ShellInv'
<1>1. CASE flow[c].op = "lock"
  <2>1. /\ Becomes(c, NotRunning) /\ lockGaveUp' = TRUE
        /\ UNCHANGED <<openDraft, autoLock, selected, readOnly, armed>>
    BY <1>1 DEF DraftNotSaved
  <2>2. DOMAIN NotRunning = Field /\ NotRunning.op # "lock"
    BY DEF NotRunning, Field
  <2>3. FlowsWellFormed'
    BY <2>1, <2>2 DEF Becomes, FlowsWellFormed, ShellInv, WellFormed
  <2> QED
    BY <2>1, <2>3 DEF ShellInv, WellFormed, OneNoteOpen, LockIsDue
<1>2. CASE flow[c].op # "lock"
  BY <1>2, OverKeeps DEF DraftNotSaved
<1> QED
  BY <1>1, <1>2

-----------------------------------------------------------------------------
(* Answers. *)

\* A flow waits for an answer only if it is not the timer's.
LEMMA Answered ==
  ASSUME NEW c \in Flow, ShellInv, flow[c].at # "saving"
  PROVE  flow[c].op # "lock" /\ DOMAIN flow[c] = Field
  BY DEF ShellInv, WellFormed, FlowsWellFormed

LEMMA NoteArrivesKeeps == ASSUME NEW c \in Flow, ShellInv, NoteArrives(c) PROVE ShellInv'
<1>1. flow[c].op # "lock"
  BY Answered DEF NoteArrives
<1> DEFINE me == flow[c]
           tab == [path |-> me.path, readOnly |-> FALSE]
           opened == IF HasTab(tabs, me.path) THEN tabs
                     ELSE IF me.other \/ me.selected = NoNote \/ tabs = <<>> THEN Append(tabs, tab)
                     ELSE Mapped(tabs, LAMBDA t : IF t.path = me.selected THEN tab ELSE t)
           mode == IF me.then = "none" THEN ModeOf(me.tabs, me.path) ELSE me.then = "locked"
           list == WithMode(opened, me.path, mode)
<1>2. PICK v : openDraft' = [path |-> me.path, of |-> v, dirty |-> FALSE]
  BY DEF NoteArrives
<1>5. Rendered(c, list, me.path, mode)
  BY DEF NoteArrives
<1>6. mode \in BOOLEAN
  BY Zenon DEF ModeOf
<1>7. DOMAIN openDraft' = {"path", "of", "dirty"} /\ openDraft'.path = me.path
  BY <1>2
<1> HIDE DEF list, mode
<1>3. Becomes(c, NotRunning) /\ autoLock' = autoLock
  BY DEF NoteArrives
<1>4. DOMAIN NotRunning = Field /\ NotRunning.op # "lock"
  BY DEF NotRunning, Field
<1> QED
  BY <1>1, <1>3, <1>4, <1>5, <1>6, <1>7, TurnKeeps

LEMMA NoteDoesNotArriveKeeps == ASSUME NEW c \in Flow, ShellInv, NoteDoesNotArrive(c) PROVE ShellInv'
  BY Answered, OverKeeps DEF NoteDoesNotArrive

LEMMA NotDoneKeeps == ASSUME NEW c \in Flow, ShellInv, NotDone(c) PROVE ShellInv'
  BY Answered, OverKeeps DEF NotDone

\* What a flow that reloads the tree becomes.
LEMMA Reloading ==
  ASSUME NEW c \in Flow, NEW opened, NEW then, ShellInv, flow[c].at # "saving"
  PROVE  LET record == [flow[c] EXCEPT !.at = "tree", !.path = opened, !.then = then]
         IN  DOMAIN record = Field /\ record.op # "lock"
  BY Answered DEF Field

\* A move or a deletion, of the note that is open or of another one.
LEMMA AffectedKeeps ==
  ASSUME NEW c \in Flow, NEW list, NEW opened, NEW then, NEW affected \in BOOLEAN, ShellInv,
         flow[c].at # "saving", Reloads(c, opened, then), autoLock' = autoLock,
         openDraft' = IF affected THEN NoOpenDraft ELSE openDraft,
         Rendered(c, list, IF affected THEN NoNote ELSE selected, readOnly)
  PROVE  ShellInv'
<1> DEFINE record == [flow[c] EXCEPT !.at = "tree", !.path = opened, !.then = then]
           path == IF affected THEN NoNote ELSE selected
<1>1. Becomes(c, record) /\ DOMAIN record = Field /\ record.op # "lock"
  BY Reloading DEF Reloads
<1>2. flow[c].op # "lock" /\ readOnly \in BOOLEAN
  BY Answered DEF ShellInv, WellFormed
<1>3. DOMAIN openDraft' = {"path", "of", "dirty"} /\ openDraft'.path = path
  BY DEF NoOpenDraft, ShellInv, WellFormed, OneNoteOpen
<1> HIDE DEF record, path
<1>4. Rendered(c, list, path, readOnly)
  BY DEF path
<1> QED
  BY <1>1, <1>2, <1>3, <1>4, TurnKeeps

LEMMA NoteMovedKeeps == ASSUME NEW c \in Flow, ShellInv, NoteMoved(c) PROVE ShellInv'
<1> DEFINE me == flow[c]
           affected == me.selected = me.path
           opened == IF affected THEN me.target ELSE NoNote
           then == IF ~affected THEN "none" ELSE IF ModeOf(me.tabs, me.path) THEN "locked" ELSE "open"
           list == Mapped(tabs, LAMBDA t : IF t.path = me.path THEN [t EXCEPT !.path = me.target] ELSE t)
<1>1. /\ flow[c].at # "saving" /\ Reloads(c, opened, then) /\ autoLock' = autoLock
      /\ openDraft' = IF affected THEN NoOpenDraft ELSE openDraft
      /\ Rendered(c, list, IF affected THEN NoNote ELSE selected, readOnly)
  BY DEF NoteMoved
<1>2. affected \in BOOLEAN
  OBVIOUS
<1> HIDE DEF affected, opened, then, list
<1> QED
  BY <1>1, <1>2, AffectedKeeps

LEMMA NoteDeletedKeeps == ASSUME NEW c \in Flow, ShellInv, NoteDeleted(c) PROVE ShellInv'
<1> DEFINE me == flow[c]
           affected == me.selected = me.path
           left == Without(me.tabs, me.path)
           opened == IF affected THEN NextTab(left, IndexIn(me.tabs, me.selected)) ELSE NoNote
<1>1. /\ flow[c].at # "saving" /\ Reloads(c, opened, "none") /\ autoLock' = autoLock
      /\ openDraft' = IF affected THEN NoOpenDraft ELSE openDraft
      /\ Rendered(c, left, IF affected THEN NoNote ELSE selected, readOnly)
  BY DEF NoteDeleted
<1>2. affected \in BOOLEAN
  OBVIOUS
<1> HIDE DEF affected, opened, left
<1> QED
  BY <1>1, <1>2, AffectedKeeps

LEMMA CreatedKeeps == ASSUME NEW c \in Flow, ShellInv, Created(c) PROVE ShellInv'
<1> DEFINE record == [flow[c] EXCEPT !.at = "tree", !.path = flow[c].path, !.then = "none"]
<1>1. flow[c].at # "saving" /\ UNCHANGED <<openDraft, autoLock>> /\ Rendered(c, tabs, selected, readOnly)
  BY DEF Created
<1>2. Becomes(c, record) /\ DOMAIN record = Field /\ record.op # "lock"
  BY <1>1, Reloading DEF Created, Reloads
<1>3. flow[c].op # "lock" /\ readOnly \in BOOLEAN
  BY <1>1, Answered DEF ShellInv, WellFormed
<1>4. DOMAIN openDraft' = {"path", "of", "dirty"} /\ openDraft'.path = selected
  BY <1>1 DEF ShellInv, WellFormed, OneNoteOpen
<1> HIDE DEF record
<1> QED
  BY <1>1, <1>2, <1>3, <1>4, TurnKeeps

\* Another vault: no note is open.
LEMMA SwitchedKeeps == ASSUME NEW c \in Flow, ShellInv, Switched(c) PROVE ShellInv'
<1> DEFINE record == [flow[c] EXCEPT !.at = "tree", !.path = NoNote, !.then = "none"]
<1>1. /\ flow[c].at # "saving" /\ openDraft' = NoOpenDraft /\ autoLock' = autoLock
      /\ Rendered(c, <<>>, NoNote, readOnly)
  BY DEF Switched
<1>2. Becomes(c, record) /\ DOMAIN record = Field /\ record.op # "lock"
  BY <1>1, Reloading DEF Switched, Reloads
<1>3. flow[c].op # "lock" /\ readOnly \in BOOLEAN
  BY <1>1, Answered DEF ShellInv, WellFormed
<1>4. DOMAIN openDraft' = {"path", "of", "dirty"} /\ openDraft'.path = NoNote
  BY <1>1 DEF NoOpenDraft
<1> HIDE DEF record
<1> QED
  BY <1>1, <1>2, <1>3, <1>4, TurnKeeps

LEMMA TreeReadKeeps == ASSUME NEW c \in Flow, ShellInv, TreeRead(c) PROVE ShellInv'
<1> DEFINE record == [flow[c] EXCEPT !.at = "told", !.read = stored[vault]]
<1>1. flow[c].op # "lock" /\ DOMAIN flow[c] = Field
  BY Answered DEF TreeRead
<1>2. Becomes(c, record) /\ DOMAIN record = Field /\ record.op # "lock"
  BY <1>1 DEF TreeRead, Field
<1>3. FlowsWellFormed' /\ LockFlowsStay
  BY <1>1, <1>2, FlowBecomes DEF ShellInv, WellFormed
<1>4. UNCHANGED <<selected, readOnly, armed, lockGaveUp, openDraft, autoLock>>
  BY DEF TreeRead, SamePlace
<1>5. Ordinary
  BY <1>3, <1>4 DEF Ordinary, Rearmed, ShellInv, WellFormed, OneNoteOpen
<1> QED
  BY <1>5, OrdinaryKeeps

LEMMA TreeHeardKeeps == ASSUME NEW c \in Flow, ShellInv, TreeHeard(c) PROVE ShellInv'
<1>1. flow[c].op # "lock" /\ DOMAIN flow[c] = Field
  BY Answered DEF TreeHeard
<1>2. UNCHANGED <<openDraft, autoLock>>
  BY DEF TreeHeard
<1>3. CASE flow[c].path = NoNote \/ flow[c].path = flow[c].selected
  BY <1>1, <1>2, <1>3, OverKeeps DEF TreeHeard
<1>4. CASE ~(flow[c].path = NoNote \/ flow[c].path = flow[c].selected)
  <2> DEFINE record == [flow[c] EXCEPT !.op = "open", !.at = "saving", !.read = {}]
  <2>1. Becomes(c, record) /\ Rendered(c, tabs, selected, readOnly)
    BY <1>4 DEF TreeHeard
  <2>2. DOMAIN record = Field /\ record.op # "lock"
    BY <1>1 DEF Field
  <2>3. DOMAIN openDraft' = {"path", "of", "dirty"} /\ openDraft'.path = selected /\ readOnly \in BOOLEAN
    BY <1>2 DEF ShellInv, WellFormed, OneNoteOpen
  <2> HIDE DEF record
  <2> QED
    BY <1>1, <1>2, <2>1, <2>2, <2>3, TurnKeeps
<1> QED
  BY <1>3, <1>4

-----------------------------------------------------------------------------
(* Gestures that end in their turn, and the timer. *)

\* The flows and the draft stay.
LEMMA PlaceKeeps ==
  ASSUME NEW c, NEW list, NEW mode \in BOOLEAN, ShellInv,
         Rendered(c, list, selected, mode), UNCHANGED <<flow, openDraft, autoLock>>
  PROVE  ShellInv'
<1>1. Rearmed /\ selected' = selected /\ readOnly' = mode
  BY RenderedRearms
<1>2. FlowsWellFormed' /\ LockFlowsStay
  BY DEF ShellInv, WellFormed, FlowsWellFormed, LockFlowsStay
<1>3. Ordinary
  BY <1>1, <1>2 DEF Ordinary, ShellInv, WellFormed, OneNoteOpen
<1> QED
  BY <1>3, OrdinaryKeeps

LEMMA UnlockKeeps == ASSUME NEW c \in Flow, ShellInv, Unlock(c) PROVE ShellInv'
<1>1. Rendered(c, WithMode(tabs, selected, FALSE), selected, FALSE) /\ UNCHANGED <<flow, openDraft, autoLock>>
  BY DEF Unlock
<1> QED
  BY <1>1, PlaceKeeps

LEMMA CloseOtherTabKeeps == ASSUME ShellInv, CloseOtherTab PROVE ShellInv'
<1>1. PICK i \in DOMAIN tabs : \E c \in Flow : Rendered(c, Without(tabs, tabs[i].path), selected, readOnly)
  BY DEF CloseOtherTab
<1>2. UNCHANGED <<flow, openDraft, autoLock>> /\ readOnly \in BOOLEAN
  BY DEF CloseOtherTab, ShellInv, WellFormed
<1> QED
  BY <1>1, <1>2, PlaceKeeps

\* Typing starts the timer again and tells the flows of the timer.
LEMMA TypeInNoteKeeps == ASSUME ShellInv, TypeInNote PROVE ShellInv'
<1>1. /\ openDraft' = [openDraft EXCEPT !.dirty = TRUE] /\ armed' = autoLock /\ lockGaveUp' = FALSE
      /\ UNCHANGED <<selected, readOnly, autoLock>>
      /\ flow' = [c \in Flow |-> IF flow[c].op = "lock" THEN [flow[c] EXCEPT !.typed = TRUE] ELSE flow[c]]
  BY DEF TypeInNote
<1>2. FlowsWellFormed'
  BY <1>1 DEF FlowsWellFormed, ShellInv, WellFormed, Field
<1> QED
  BY <1>1, <1>2 DEF ShellInv, WellFormed, OneNoteOpen, LockIsDue

LEMMA AutosaveKeeps == ASSUME ShellInv, Autosave PROVE ShellInv'
<1>1. /\ openDraft' = [openDraft EXCEPT !.dirty = FALSE]
      /\ UNCHANGED <<selected, readOnly, armed, lockGaveUp, autoLock, flow>>
  BY DEF Autosave, SamePlace
<1>2. FlowsWellFormed' /\ LockFlowsStay
  BY <1>1 DEF ShellInv, WellFormed, FlowsWellFormed, LockFlowsStay
<1>3. DOMAIN openDraft' = {"path", "of", "dirty"} /\ openDraft'.path = selected'
  BY <1>1 DEF ShellInv, WellFormed, OneNoteOpen
<1>4. Ordinary
  BY <1>1, <1>2, <1>3 DEF Ordinary, Rearmed, ShellInv, WellFormed
<1> QED
  BY <1>4, OrdinaryKeeps

LEMMA SetAutoLockKeeps == ASSUME ShellInv, SetAutoLock PROVE ShellInv'
<1>1. /\ autoLock' = ~autoLock /\ armed' = (autoLock' /\ selected # NoNote /\ ~readOnly) /\ lockGaveUp' = FALSE
      /\ UNCHANGED <<selected, readOnly, openDraft, flow>>
  BY DEF SetAutoLock
<1>2. autoLock' \in BOOLEAN /\ armed' \in BOOLEAN
  BY <1>1, Zenon
<1>3. WellFormed' /\ OneNoteOpen'
  BY <1>1, <1>2 DEF ShellInv, WellFormed, FlowsWellFormed, OneNoteOpen
<1>4. LockIsDue'
  BY <1>1, Zenon DEF LockIsDue
<1> QED
  BY <1>3, <1>4 DEF ShellInv

\* The timer runs out: its flow is going to lock the note that is open.
LEMMA LockExpiresKeeps == ASSUME NEW c \in Flow, ShellInv, LockExpires(c) PROVE ShellInv'
<1> DEFINE record == [NotRunning EXCEPT !.op = "lock", !.at = "saving", !.path = selected]
<1>1. /\ flow' = [flow EXCEPT ![c] = record] /\ armed' = FALSE
      /\ UNCHANGED <<selected, readOnly, openDraft, autoLock, lockGaveUp>>
  BY DEF LockExpires, Becomes
<1>2. DOMAIN record = Field /\ record.at = "saving" /\ record.op = "lock" /\ record.path = selected /\ ~record.typed
  BY DEF NotRunning, Field
<1> HIDE DEF record
<1>3. FlowsWellFormed' /\ Watches(c)'
  BY <1>1, <1>2 DEF FlowsWellFormed, ShellInv, WellFormed, Watches
<1> QED
  BY <1>1, <1>3 DEF ShellInv, WellFormed, OneNoteOpen, LockIsDue

-----------------------------------------------------------------------------
LEMMA ShellAtFirst == WorkspaceInit => ShellInv
<1> SUFFICES ASSUME WorkspaceInit PROVE ShellInv
  OBVIOUS
<1>1. FlowsWellFormed
  BY DEF WorkspaceInit, FlowsWellFormed, NotRunning, Field
<1>2. DOMAIN openDraft = {"path", "of", "dirty"} /\ OneNoteOpen
  BY DEF WorkspaceInit, OneNoteOpen
<1>3. readOnly \in BOOLEAN
  BY Zenon DEF WorkspaceInit, ModeOf
<1>4. armed \in BOOLEAN
  BY Zenon DEF WorkspaceInit
<1>5. autoLock = TRUE /\ lockGaveUp = FALSE
  BY DEF WorkspaceInit
<1>6. LockIsDue
  BY Zenon DEF WorkspaceInit, LockIsDue
<1> QED
  BY <1>1, <1>2, <1>3, <1>4, <1>5, <1>6 DEF ShellInv, WellFormed

LEMMA ShellStays == ShellInv /\ [WorkspaceNext]_shellVars => ShellInv'
<1> SUFFICES ASSUME ShellInv, [WorkspaceNext]_shellVars PROVE ShellInv'
  OBVIOUS
<1>1. ASSUME NEW c \in Flow, FlowStarts(c) PROVE ShellInv'
  BY <1>1, FlowStartsKeeps, UnlockKeeps
<1>2. ASSUME NEW c \in Flow, Resumes(c) PROVE ShellInv'
  BY <1>2, DraftSavedKeeps, DraftNotSavedKeeps, NoteArrivesKeeps, NoteDoesNotArriveKeeps, NoteMovedKeeps,
     NoteDeletedKeeps, CreatedKeeps, SwitchedKeeps, NotDoneKeeps, TreeReadKeeps, TreeHeardKeeps DEF Resumes
<1>3. CASE CloseOtherTab \/ TypeInNote \/ Autosave \/ SetAutoLock
  BY <1>3, CloseOtherTabKeeps, TypeInNoteKeeps, AutosaveKeeps, SetAutoLockKeeps
<1>4. CASE UNCHANGED shellVars
  BY <1>4 DEF shellVars, ShellInv, WellFormed, FlowsWellFormed, OneNoteOpen, LockIsDue, Watches
<1> QED
  BY <1>1, <1>2, <1>3, <1>4, LockExpiresKeeps DEF WorkspaceNext

\* Whatever flows overlap, the draft is of the note that is selected: typing
\* never goes to the draft of another note.
THEOREM DraftOfTheSelected == WorkspaceSpec => []OneNoteOpen
<1>1. ShellInv => OneNoteOpen
  BY DEF ShellInv
<1> QED
  BY <1>1, ShellAtFirst, ShellStays, PTL DEF WorkspaceSpec

\* A note that may be edited is going to be locked, whatever moves under the
\* flows of the timer.
THEOREM LockComes == WorkspaceSpec => []LockIsComing
<1>1. ShellInv => LockIsComing
  BY DEF ShellInv, LockIsDue, LockIsComing, Watches
<1> QED
  BY <1>1, ShellAtFirst, ShellStays, PTL DEF WorkspaceSpec

-----------------------------------------------------------------------------
(* Lists of tabs. *)

\* How many numbers of a set come before one.
Before(S, i) == Cardinality({j \in S : j < i})

\* Every member of a finite set of numbers has its rank, and every rank its member.
LEMMA Ranks ==
  ASSUME NEW S \in SUBSET Nat, IsFiniteSet(S)
  PROVE  /\ Cardinality(S) \in Nat
         /\ \A i \in S : Before(S, i) + 1 \in 1..Cardinality(S)
         /\ \A i, k \in S : Before(S, i) = Before(S, k) => i = k
         /\ \A n \in 1..Cardinality(S) : \E i \in S : Before(S, i) = n - 1
<1>1. Cardinality(S) \in Nat
  BY FS_CardinalityType
<1>2. ASSUME NEW i \in S
      PROVE  IsFiniteSet({j \in S : j < i}) /\ Before(S, i) \in Nat /\ Before(S, i) < Cardinality(S)
  <2> DEFINE T == {j \in S : j < i}
  <2>1. T \in SUBSET S /\ i \notin T
    OBVIOUS
  <2> HIDE DEF T
  <2>2. IsFiniteSet(T) /\ Cardinality(T) <= Cardinality(S) /\ Cardinality(S) # Cardinality(T)
    BY <2>1, FS_Subset
  <2>3. Cardinality(T) \in Nat
    BY <2>2, FS_CardinalityType
  <2> QED BY <1>1, <2>2, <2>3 DEF T, Before
<1>3. ASSUME NEW i \in S, NEW k \in S, i < k
      PROVE  Before(S, i) # Before(S, k)
  <2> DEFINE T == {j \in S : j < i}  U == {j \in S : j < k}
  <2>0. i \in Nat /\ k \in Nat /\ \A j \in S : j \in Nat
    OBVIOUS
  <2>a. \A j \in S : j < i => j < k
    BY <1>3, <2>0
  <2>b. T \in SUBSET U
    BY <2>a, Zenon
  <2>c. i \in U
    BY <1>3
  <2>d. ~(i < i)
    BY <2>0
  <2>e. i \notin T
    BY <2>d, Zenon
  <2>1. T \in SUBSET U /\ i \in U /\ i \notin T
    BY <2>b, <2>c, <2>e
  <2>2. IsFiniteSet(U)
    BY <1>2
  <2> HIDE DEF T, U
  <2>3. Cardinality(U) # Cardinality(T)
    BY <2>1, <2>2, FS_Subset
  <2> QED BY <2>3 DEF T, U, Before
<1>4. \A i, k \in S : Before(S, i) = Before(S, k) => i = k
  <2> SUFFICES ASSUME NEW i \in S, NEW k \in S, i # k
               PROVE  Before(S, i) # Before(S, k)
    OBVIOUS
  <2>1. i < k \/ k < i
    OBVIOUS
  <2> QED BY <1>3, <2>1
<1>9. \A i \in S : Before(S, i) + 1 \in 1..Cardinality(S)
  <2>1. \A b, c \in Nat : b < c => b + 1 \in 1..c
    OBVIOUS
  <2>2. \A i \in S : Before(S, i) \in Nat /\ Before(S, i) < Cardinality(S)
    BY <1>2, Zenon
  <2> QED BY <1>1, <2>1, <2>2, Zenon
<1> DEFINE f == [i \in S |-> Before(S, i) + 1]
           I == 1..Cardinality(S)
<1>5. f \in Injection(S, I)
  <2>1. f \in [S -> I]
    BY <1>9, Zenon
  <2>2. \A i, k \in S : f[i] = f[k] => i = k
    <3> SUFFICES ASSUME NEW i \in S, NEW k \in S, f[i] = f[k]
                 PROVE  i = k
      OBVIOUS
    <3>1. Before(S, i) \in Nat /\ Before(S, k) \in Nat
      BY <1>2
    <3>2. Before(S, i) + 1 = Before(S, k) + 1
      OBVIOUS
    <3> QED BY <1>4, <3>1, <3>2
  <2>3. DOMAIN f = S
    OBVIOUS
  <2> HIDE DEF f, I
  <2> QED BY <2>1, <2>2, <2>3 DEF Injection, IsInjective
<1>6. IsFiniteSet(I) /\ Cardinality(I) = Cardinality(S)
  BY <1>1, FS_Interval
<1>7. f \in Surjection(S, I)
  <2> HIDE DEF f, I
  <2> QED BY <1>5, <1>6, FS_Injection
<1>8. ASSUME NEW n \in I
      PROVE  \E i \in S : Before(S, i) = n - 1
  <2>1. PICK i \in S : f[i] = n
    BY <1>7 DEF Surjection
  <2>2. Before(S, i) + 1 = n /\ Before(S, i) \in Nat
    BY <1>2, <2>1
  <2> QED BY <2>2
<1> HIDE DEF f
<1> QED BY <1>1, <1>4, <1>8, <1>9

LEMMA ModeIsBoolean == ASSUME NEW list, NEW path PROVE ModeOf(list, path) \in BOOLEAN
  BY Zenon DEF ModeOf

\* The tabs of the other notes stay as they were.
LEMMA WithoutFact ==
  ASSUME NEW list \in Seq(Tab), NEW path
  PROVE  /\ Without(list, path) \in Seq(Tab)
         /\ \A q : q # path => /\ HasTab(Without(list, path), q) <=> HasTab(list, q)
                               /\ ModeOf(Without(list, path), q) <=> ModeOf(list, q)
<1> DEFINE left == DOMAIN list \ TabOf(list, path)
           n == Cardinality(left)
           At(k) == CHOOSE i \in left : Before(left, i) = k - 1
           rest == [k \in 1..n |-> list[At(k)]]
<1>1. Without(list, path) = rest
  BY DEF Without, Before
<1>2. DOMAIN list = 1..Len(list) /\ Len(list) \in Nat /\ list \in [1..Len(list) -> Tab]
  BY LenProperties
<1>3. IsFiniteSet(left) /\ left \in SUBSET Nat
  <2>1. IsFiniteSet(DOMAIN list) /\ left \in SUBSET (DOMAIN list)
    BY <1>2, FS_Interval
  <2> HIDE DEF left
  <2> QED BY <1>2, <2>1, FS_Subset
<1>4. \A i \in DOMAIN list : i \in left <=> list[i].path # path
  BY DEF TabOf
<1>5. /\ n \in Nat
      /\ \A i \in left : Before(left, i) + 1 \in 1..n
      /\ \A i, k \in left : Before(left, i) = Before(left, k) => i = k
      /\ \A k \in 1..n : \E i \in left : Before(left, i) = k - 1
  <2> HIDE DEF left
  <2> QED BY <1>3, Ranks
<1>6. ASSUME NEW k \in 1..n
      PROVE  At(k) \in left
  <2>1. \E i \in left : Before(left, i) = k - 1
    BY <1>5
  <2> HIDE DEF left
  <2> QED BY <2>1
<1>7. ASSUME NEW i \in left
      PROVE  \E k \in 1..n : At(k) = i
  <2>1. PICK k \in 1..n : k = Before(left, i) + 1
    BY <1>5
  <2>2. Before(left, i) = k - 1
    <3>1. Before(left, i) \in Nat
      <4> HIDE DEF left
      <4>1. {j \in left : j < i} \in SUBSET left
        OBVIOUS
      <4>2. IsFiniteSet({j \in left : j < i})
        BY <1>3, <4>1, FS_Subset
      <4> QED BY <4>2, FS_CardinalityType DEF Before
    <3> QED BY <2>1, <3>1
  <2>3. At(k) \in left /\ Before(left, At(k)) = k - 1
    <3> HIDE DEF left
    <3> QED BY <2>2
  <2> QED BY <1>5, <2>2, <2>3
<1> HIDE DEF left, At
<1>8. rest \in Seq(Tab)
  <2>1. \A k \in 1..n : list[At(k)] \in Tab
    BY <1>2, <1>4, <1>6 DEF left
  <2> HIDE DEF n
  <2> QED BY <1>5, <2>1, IsASeq
<1>9. ASSUME NEW q, q # path
      PROVE  /\ HasTab(rest, q) <=> HasTab(list, q)
             /\ ModeOf(rest, q) <=> ModeOf(list, q)
  <2>0. DOMAIN rest = 1..n /\ \A k \in 1..n : rest[k] = list[At(k)] /\ At(k) \in DOMAIN list
    BY <1>6 DEF left
  <2> HIDE DEF n, rest
  <2>1. ASSUME NEW k \in TabOf(rest, q)
        PROVE  At(k) \in TabOf(list, q) /\ list[At(k)] = rest[k]
    BY <2>0 DEF TabOf
  <2>2. ASSUME NEW i \in TabOf(list, q)
        PROVE  \E k \in TabOf(rest, q) : rest[k] = list[i]
    <3>1. i \in left
      BY <1>4, <1>9 DEF TabOf
    <3>2. PICK k \in 1..n : At(k) = i
      BY <1>7, <3>1
    <3> QED BY <2>0, <3>2 DEF TabOf
  <2> QED BY <2>1, <2>2 DEF HasTab, ModeOf
<1> QED BY <1>1, <1>8, <1>9

\* The tab beside one that was closed.
LEMMA NextTabFact ==
  ASSUME NEW list \in Seq(Tab), NEW i \in Nat \ {0}
  PROVE  NextTab(list, i) # NoNote => HasTab(list, NextTab(list, i))
<1>1. DOMAIN list = 1..Len(list) /\ Len(list) \in Nat
  BY LenProperties
<1>2. CASE list = <<>>
  BY <1>2 DEF NextTab
<1>3. CASE list # <<>>
  <2>1. Len(list) \in Nat \ {0}
    BY <1>3, EmptySeq
  <2>2. PICK k \in DOMAIN list : NextTab(list, i) = list[k].path
    BY <1>1, <1>3, <2>1 DEF NextTab
  <2>3. k \in TabOf(list, list[k].path)
    BY DEF TabOf
  <2> QED BY <2>2, <2>3 DEF HasTab
<1> QED BY <1>2, <1>3

LEMMA IndexInFact ==
  ASSUME NEW list \in Seq(Tab), NEW path
  PROVE  IndexIn(list, path) \in Nat \ {0}
<1>1. TabOf(list, path) \subseteq 1..Len(list) /\ Len(list) \in Nat
  BY LenProperties DEF TabOf
<1> QED BY <1>1 DEF IndexIn, HasTab

\* The same tabs, each changed or not.
LEMMA MappedFact ==
  ASSUME NEW list \in Seq(Tab), NEW result, DOMAIN result = DOMAIN list,
         \A i \in DOMAIN list : result[i] \in Tab, result = [i \in DOMAIN list |-> result[i]]
  PROVE  result \in Seq(Tab)
<1>1. DOMAIN list = 1..Len(list) /\ Len(list) \in Nat
  BY LenProperties
<1> DEFINE n == Len(list)
<1> HIDE DEF n
<1>2. n \in Nat /\ \A i \in 1..n : result[i] \in Tab
  BY <1>1 DEF n
<1>3. [i \in 1..n |-> result[i]] \in Seq(Tab)
  <2>1. [i \in 1..n |-> result[i]] \in [1..n -> Tab]
    BY <1>2
  <2> QED BY <1>2, <2>1, SeqDef
<1> QED BY <1>1, <1>3 DEF n

\* Setting the mode of a note's tab.
LEMMA WithModeFact ==
  ASSUME NEW list \in Seq(Tab), NEW path, NEW mode \in BOOLEAN
  PROVE  /\ WithMode(list, path, mode) \in Seq(Tab)
         /\ \A q : HasTab(WithMode(list, path, mode), q) <=> HasTab(list, q)
         /\ HasTab(list, path) => (ModeOf(WithMode(list, path, mode), path) <=> mode)
         /\ WithMode(list, path, mode) = <<>> <=> list = <<>>
<1> DEFINE result == WithMode(list, path, mode)
<1>1. /\ DOMAIN list = 1..Len(list) /\ Len(list) \in Nat
      /\ \A i \in DOMAIN list : list[i] \in Tab
  BY LenProperties, ElementOfSeq
<1>2. result = [i \in DOMAIN list |-> IF list[i].path = path THEN [list[i] EXCEPT !.readOnly = mode] ELSE list[i]]
  BY DEF WithMode, Mapped
<1>3. /\ DOMAIN result = DOMAIN list
      /\ \A i \in DOMAIN list : /\ result[i] \in Tab /\ result[i].path = list[i].path
                                /\ list[i].path = path => result[i].readOnly = mode
  BY <1>1, <1>2 DEF Tab
<1>4. result = [i \in DOMAIN list |-> result[i]]
  BY <1>2
<1> HIDE DEF result
<1>5. result \in Seq(Tab)
  BY <1>3, <1>4, MappedFact
<1>6. \A q : TabOf(result, q) = TabOf(list, q)
  BY <1>3 DEF TabOf
<1>7. HasTab(list, path) => (ModeOf(result, path) <=> mode)
  BY <1>3, <1>6 DEF HasTab, ModeOf, TabOf
<1>8. result = <<>> <=> list = <<>>
  <2>1. \A s \in Seq(Tab) : s = <<>> <=> DOMAIN s = {}
    <3> TAKE s \in Seq(Tab)
    <3>1. DOMAIN s = 1..Len(s) /\ Len(s) \in Nat
      BY LenProperties
    <3>2. s # <<>> => Len(s) \in Nat \ {0}
      BY EmptySeq
    <3>3. s = <<>> => Len(s) = 0
      BY EmptySeq
    <3>4. s # <<>> => 1 \in DOMAIN s
      BY <3>1, <3>2
    <3>5. s = <<>> => DOMAIN s = {}
      BY <3>1, <3>3
    <3> QED BY <3>4, <3>5
  <2> QED BY <1>3, <1>5, <2>1
<1> QED BY <1>5, <1>6, <1>7, <1>8 DEF HasTab, result

\* A tab takes the place of the tabs of a note.
LEMMA ReplacedFact ==
  ASSUME NEW list \in Seq(Tab), NEW path, NEW tab \in Tab, NEW result,
         result = [i \in DOMAIN list |-> IF list[i].path = path THEN tab ELSE list[i]]
  PROVE  result \in Seq(Tab) /\ (HasTab(list, path) => HasTab(result, tab.path))
<1>1. \A i \in DOMAIN list : list[i] \in Tab
  BY LenProperties, ElementOfSeq
<1>2. /\ DOMAIN result = DOMAIN list /\ result = [i \in DOMAIN list |-> result[i]]
      /\ \A i \in DOMAIN list : result[i] \in Tab /\ (list[i].path = path => result[i] = tab)
  BY <1>1
<1>3. result \in Seq(Tab)
  BY <1>2, MappedFact
<1>4. HasTab(list, path) => HasTab(result, tab.path)
  BY <1>2 DEF HasTab, TabOf
<1> QED BY <1>3, <1>4

\* The tabs of a note that was moved.
Renamed(list, path, target) == Mapped(list, LAMBDA t : IF t.path = path THEN [t EXCEPT !.path = target] ELSE t)

LEMMA RenamedFact ==
  ASSUME NEW list \in Seq(Tab), NEW path, NEW target \in Note, NEW result, result = Renamed(list, path, target)
  PROVE  /\ result \in Seq(Tab)
         /\ HasTab(list, path) => HasTab(result, target)
         /\ \A q : q # path /\ q # target => /\ HasTab(result, q) <=> HasTab(list, q)
                                             /\ ModeOf(result, q) <=> ModeOf(list, q)
<1>1. \A i \in DOMAIN list : list[i] \in Tab
  BY LenProperties, ElementOfSeq
<1>2. /\ DOMAIN result = DOMAIN list /\ result = [i \in DOMAIN list |-> result[i]]
      /\ \A i \in DOMAIN list : /\ result[i] \in Tab
                                /\ list[i].path = path => result[i].path = target
                                /\ list[i].path # path => result[i] = list[i]
  <2>1. result = [i \in DOMAIN list |-> IF list[i].path = path THEN [list[i] EXCEPT !.path = target] ELSE list[i]]
    BY DEF Renamed, Mapped
  <2> QED BY <1>1, <2>1 DEF Tab
<1>3. result \in Seq(Tab)
  BY <1>2, MappedFact
<1>4. HasTab(list, path) => HasTab(result, target)
  BY <1>2 DEF HasTab, TabOf
<1>5. ASSUME NEW q, q # path, q # target
      PROVE  /\ HasTab(result, q) <=> HasTab(list, q)
             /\ ModeOf(result, q) <=> ModeOf(list, q)
  <2>1. TabOf(result, q) = TabOf(list, q)
    BY <1>2, <1>5 DEF TabOf
  <2>2. \A i \in TabOf(list, q) : result[i] = list[i]
    BY <1>2, <1>5 DEF TabOf
  <2> QED BY <2>1, <2>2 DEF HasTab, ModeOf
<1> QED BY <1>3, <1>4, <1>5

LEMMA AppendedFact ==
  ASSUME NEW list \in Seq(Tab), NEW tab \in Tab
  PROVE  Append(list, tab) \in Seq(Tab) /\ HasTab(Append(list, tab), tab.path)
<1>1. /\ Append(list, tab) \in Seq(Tab) /\ Len(Append(list, tab)) = Len(list) + 1
      /\ Append(list, tab)[Len(list) + 1] = tab /\ Len(list) \in Nat
  BY AppendProperties, LenProperties
<1>2. DOMAIN Append(list, tab) = 1..(Len(list) + 1)
  BY <1>1, LenProperties
<1> QED BY <1>1, <1>2 DEF HasTab, TabOf

-----------------------------------------------------------------------------
(* Where the workspace stands when nothing moved under a flow. *)

\* A flow of the user, not the timer's.
Runs(r) == r.op \notin {"none", "lock"}

\* What the flows are, whatever moves under them.
RecordOK(r) ==
  /\ r.of \in Notebook /\ r.tabs \in Seq(Tab)
  /\ r.op = "move" => r.target \in Note
  /\ r.op = "create" => r.path \in Note
  /\ r.at # "no" => r.op # "none"
  /\ r.op = "lock" => r.at = "saving"
  /\ r.at = "loading" => r.op = "open"
  /\ r.then # "none" => Runs(r)
  /\ r.op \in {"switch", "vault"} => r.path = NoNote

Kept ==
  /\ stored \in [Notebook -> SUBSET Note] /\ vault \in Notebook /\ tabs \in Seq(Tab)
  /\ \A c \in Flow : RecordOK(flow[c])
  /\ openDraft.dirty => selected # NoNote

\* The selected note has its tab and its mode, and is one of the vault.
Shows == selected # NoNote =>
           HasTab(tabs, selected) /\ (ModeOf(tabs, selected) <=> readOnly) /\ openDraft.of = vault /\ selected \in stored[vault]

TreeShows == (\A c \in Flow : flow[c].at \notin {"tree", "told"}) => tree = stored[vault] \/ treeFailed

\* The closure of a flow that has done nothing yet is what is shown; a note that is
\* going to be opened has a tab, or there is one it may take.
Fits(r, list, path, v, notes) ==
  /\ r.op \notin {"switch", "vault"} => r.of = v
  /\ r.at \in {"saving", "acting"} /\ r.op # "open" => r.tabs = list /\ r.selected = path
  /\ r.then # "none" => path = NoNote
  /\ (r.op = "open" \/ r.at \in {"tree", "told"}) /\ r.path # NoNote
     => HasTab(list, r.path) \/ r.other \/ r.selected = NoNote \/ list = <<>> \/ HasTab(list, r.selected)
  /\ r.at = "told" => r.read = notes
  /\ r.op = "toggle" => r.path = r.selected

FlowsFit == \A c \in Flow : Runs(flow[c]) => Fits(flow[c], tabs, selected, vault, stored[vault])

InPlace == Shows /\ TreeShows /\ (readOnly => ~openDraft.dirty) /\ FlowsFit

Placed == Kept /\ (~crossed => InPlace)

-----------------------------------------------------------------------------
(* What a turn of a flow owes. *)

OthersRest(c) == \A d \in Flow \ {c} : flow'[d] = flow[d]

\* A change under another flow is recorded.
Recorded(c) ==
  /\ ~crossed' => ~crossed
  /\ ~crossed' /\ Others(c) => UNCHANGED <<tabs, selected, readOnly, vault, stored>>

LEMMA RenderedRecords ==
  ASSUME NEW c, NEW list, NEW path, NEW mode, Rendered(c, list, path, mode)
  PROVE  Recorded(c) /\ tabs' = list /\ selected' = path /\ readOnly' = mode
<1>1. tabs' = list /\ selected' = path /\ readOnly' = mode
  BY DEF Rendered
<1>2. crossed' = (crossed \/ (Others(c) /\ <<list, path, mode, vault', stored'>> # <<tabs, selected, readOnly, vault, stored>>))
  BY DEF Rendered
<1> DEFINE Differs == <<list, path, mode, vault', stored'>> # <<tabs, selected, readOnly, vault, stored>>
<1>3. ~Differs => list = tabs /\ path = selected /\ mode = readOnly /\ vault' = vault /\ stored' = stored
  OBVIOUS
<1>4. ~crossed' => ~crossed /\ ~(Others(c) /\ Differs)
  BY <1>2, Zenon
<1> HIDE DEF Differs
<1> QED BY <1>1, <1>3, <1>4 DEF Recorded

LEMMA TurnPlaces ==
  ASSUME NEW c \in Flow, Placed, OthersRest(c), Recorded(c), RecordOK(flow'[c]),
         stored' \in [Notebook -> SUBSET Note], vault' \in Notebook, tabs' \in Seq(Tab),
         openDraft'.dirty => selected' # NoNote,
         ~crossed' => Shows' /\ TreeShows' /\ (readOnly' => ~openDraft'.dirty)
                      /\ (Runs(flow'[c]) => Fits(flow'[c], tabs', selected', vault', stored'[vault']))
  PROVE  Placed'
<1>1. Kept'
  BY DEF Placed, Kept, OthersRest
<1>2. ASSUME ~crossed', NEW d \in Flow, Runs(flow'[d])
      PROVE  Fits(flow'[d], tabs', selected', vault', stored'[vault'])
  <2>1. CASE d = c
    BY <1>2, <2>1
  <2>2. CASE d # c
    <3>1. flow'[d] = flow[d]
      BY <2>2 DEF OthersRest
    <3>2. Others(c)
      BY <1>2, <2>2, <3>1 DEF Others, Runs
    <3>3. UNCHANGED <<tabs, selected, vault, stored>> /\ ~crossed
      BY <1>2, <3>2 DEF Recorded
    <3> QED BY <1>2, <3>1, <3>3 DEF Placed, InPlace, FlowsFit
  <2> QED BY <2>1, <2>2
<1> QED BY <1>1, <1>2 DEF Placed, InPlace, FlowsFit

LEMMA TreeStays ==
  ASSUME NEW c \in Flow, TreeShows, OthersRest(c), flow[c].at \notin {"tree", "told"}, SameNotes
  PROVE  TreeShows'
<1>1. (\A d \in Flow : flow'[d].at \notin {"tree", "told"}) => (\A d \in Flow : flow[d].at \notin {"tree", "told"})
  BY DEF OthersRest
<1> QED BY <1>1 DEF TreeShows, SameNotes

\* Only the tree may be out of date.
LEMMA TreeOwed ==
  ASSUME NEW c \in Flow, flow'[c].at \in {"tree", "told"}
  PROVE  TreeShows'
  BY DEF TreeShows

LEMMA BecomesRests ==
  ASSUME NEW c \in Flow, NEW record, Becomes(c, record), WellFormed
  PROVE  OthersRest(c) /\ flow'[c] = record
  BY DEF Becomes, OthersRest, WellFormed, FlowsWellFormed

LEMMA NotRunningOK == RecordOK(NotRunning) /\ ~Runs(NotRunning)
<1>1. (CHOOSE v \in Notebook : TRUE) \in Notebook
  BY WorkspaceAssumption
<1>2. <<>> \in Seq(Tab)
  BY EmptySeq
<1> QED BY <1>1, <1>2 DEF RecordOK, NotRunning, Runs

\* A turn that leaves tabs, selection and mode, and may save the draft.
LEMMA ShowsStays ==
  ASSUME Shows, UNCHANGED <<tabs, selected, readOnly, vault, stored>>, openDraft'.of = openDraft.of
  PROVE  Shows'
  BY DEF Shows

-----------------------------------------------------------------------------
(* Gestures. *)

Ready == Placed /\ ShellInv

\* What a gesture starts with.
MayStart(op, at, path, target) ==
  /\ op \notin {"none", "lock"} /\ at \in {"saving", "acting", "tree"}
  /\ op = "move" => target \in Note
  /\ op = "create" => path \in Note
  /\ op \in {"switch", "vault"} => path = NoNote
  /\ op = "toggle" => path = selected
  /\ at = "tree" => path = NoNote

LEMMA StartPlaces ==
  ASSUME NEW c \in Flow, NEW op, NEW at, NEW path, NEW target, NEW other,
         Ready, Starts(c, op, at, path, target, other), (treeFailed' = treeFailed \/ at = "tree"),
         MayStart(op, at, path, target)
  PROVE  Placed'
<1> DEFINE record == [NotRunning EXCEPT !.op = op, !.at = at, !.path = path, !.target = target, !.other = other,
                        !.of = vault, !.tabs = tabs, !.selected = selected]
<1>1. Becomes(c, record) /\ flow[c].op = "none" /\ SamePlace /\ UNCHANGED <<stored, tree, openDraft>>
  BY DEF Starts
<1>2. /\ record.op = op /\ record.at = at /\ record.path = path /\ record.target = target
      /\ record.of = vault /\ record.tabs = tabs /\ record.selected = selected
      /\ record.then = "none" /\ record.read = {}
  BY DEF NotRunning
<1> HIDE DEF record
<1>3. OthersRest(c) /\ flow'[c] = record
  BY <1>1, BecomesRests DEF Ready, ShellInv
<1>4. RecordOK(flow'[c])
  BY <1>2, <1>3 DEF MayStart, Ready, Placed, Kept, RecordOK, Runs
<1>5. UNCHANGED <<tabs, selected, readOnly, vault, stored, openDraft, crossed, tree>>
  BY <1>1 DEF SamePlace
<1>6. Recorded(c)
  BY <1>5 DEF Recorded
<1>7. ASSUME ~crossed'
      PROVE  Shows' /\ TreeShows' /\ (readOnly' => ~openDraft'.dirty)
  <2>1. Shows /\ TreeShows /\ (readOnly => ~openDraft.dirty)
    BY <1>5, <1>7 DEF Ready, Placed, InPlace
  <2>2. Shows'
    BY <1>5, <2>1, ShowsStays
  <2>3. TreeShows'
    <3>1. CASE at = "tree"
      BY <1>2, <1>3, <3>1, TreeOwed
    <3>2. CASE at # "tree"
      <4>1. flow[c].at \notin {"tree", "told"}
        BY <1>1 DEF Ready, Placed, Kept, RecordOK
      <4> QED BY <1>3, <1>5, <2>1, <3>2, <4>1, TreeStays DEF SameNotes
    <3> QED BY <3>1, <3>2
  <2> QED BY <1>5, <2>1, <2>2, <2>3
<1>8. ASSUME ~crossed'
      PROVE  Fits(record, tabs', selected', vault', stored'[vault'])
  <2>1. selected # NoNote => HasTab(tabs, selected)
    BY <1>5, <1>8 DEF Ready, Placed, InPlace, Shows
  <2> QED BY <1>2, <1>5, <2>1 DEF Fits, MayStart
<1> QED BY <1>3, <1>4, <1>5, <1>6, <1>7, <1>8, TurnPlaces DEF Ready, Placed, Kept

LEMMA FlowStartsPlaces == ASSUME NEW c \in Flow, Ready, FlowStarts(c), ~Unlock(c) PROVE Placed'
<1>1. CASE OpenPath(c)
  <2>1. PICK path, other : Starts(c, "open", "saving", path, NoNote, other) /\ treeFailed' = treeFailed
    BY <1>1 DEF OpenPath
  <2>2. MayStart("open", "saving", path, NoNote)
    BY <2>1 DEF MayStart
  <2> QED BY <2>1, <2>2, StartPlaces
<1>2. CASE CloseSelectedTab(c)
  <2>1. Starts(c, "close", "saving", selected, NoNote, FALSE) /\ treeFailed' = treeFailed
    BY <1>2 DEF CloseSelectedTab
  <2>2. MayStart("close", "saving", selected, NoNote)
    BY <2>1 DEF MayStart
  <2> QED BY <2>1, <2>2, StartPlaces
<1>3. CASE MoveNote(c)
  <2>1. PICK path, target : target \in Note /\ Starts(c, "move", "saving", path, target, FALSE) /\ treeFailed' = treeFailed
    BY <1>3 DEF MoveNote
  <2>2. MayStart("move", "saving", path, target)
    BY <2>1 DEF MayStart
  <2> QED BY <2>1, <2>2, StartPlaces
<1>4. CASE DeleteNote(c)
  <2>1. PICK path : Starts(c, "delete", "saving", path, NoNote, FALSE) /\ treeFailed' = treeFailed
    BY <1>4 DEF DeleteNote
  <2>2. MayStart("delete", "saving", path, NoNote)
    BY <2>1 DEF MayStart
  <2> QED BY <2>1, <2>2, StartPlaces
<1>5. CASE CreateNote(c)
  <2>1. PICK path \in Note : Starts(c, "create", "acting", path, NoNote, FALSE) /\ treeFailed' = treeFailed
    BY <1>5 DEF CreateNote
  <2>2. MayStart("create", "acting", path, NoNote)
    BY <2>1 DEF MayStart
  <2> QED BY <2>1, <2>2, StartPlaces
<1>6. CASE SwitchVault(c)
  <2>1. Starts(c, "switch", "saving", NoNote, NoNote, FALSE) /\ treeFailed' = treeFailed
    BY <1>6 DEF SwitchVault
  <2>2. MayStart("switch", "saving", NoNote, NoNote)
    BY <2>1 DEF MayStart
  <2> QED BY <2>1, <2>2, StartPlaces
<1>7. CASE CreateVault(c)
  <2>1. Starts(c, "vault", "acting", NoNote, NoNote, FALSE) /\ treeFailed' = treeFailed
    BY <1>7 DEF CreateVault
  <2>2. MayStart("vault", "acting", NoNote, NoNote)
    BY <2>1 DEF MayStart
  <2> QED BY <2>1, <2>2, StartPlaces
<1>8. CASE RefreshTree(c)
  <2>1. Starts(c, "refresh", "tree", NoNote, NoNote, FALSE)
    BY <1>8 DEF RefreshTree
  <2>2. MayStart("refresh", "tree", NoNote, NoNote)
    BY <2>1 DEF MayStart
  <2> QED BY <2>1, <2>2, StartPlaces
<1>9. CASE Lock(c)
  <2>1. Starts(c, "toggle", "saving", selected, NoNote, FALSE) /\ treeFailed' = treeFailed
    BY <1>9 DEF Lock
  <2>2. MayStart("toggle", "saving", selected, NoNote)
    BY <2>1 DEF MayStart
  <2> QED BY <2>1, <2>2, StartPlaces
<1> QED BY <1>1, <1>2, <1>3, <1>4, <1>5, <1>6, <1>7, <1>8, <1>9 DEF FlowStarts

\* The flows and the draft stay.
LEMMA TabsPlaced ==
  ASSUME NEW c \in Flow, NEW list \in Seq(Tab), NEW mode \in BOOLEAN, Ready,
         flow[c].op = "none", Rendered(c, list, selected, mode),
         SameNotes, UNCHANGED <<flow, openDraft>>,
         selected # NoNote /\ HasTab(tabs, selected) => HasTab(list, selected),
         selected # NoNote /\ HasTab(tabs, selected) /\ (ModeOf(tabs, selected) <=> readOnly) => (ModeOf(list, selected) <=> mode),
         mode => readOnly
  PROVE  Placed'
<1>1. Recorded(c) /\ tabs' = list /\ selected' = selected /\ readOnly' = mode
  BY RenderedRecords
<1>2. OthersRest(c) /\ flow'[c] = flow[c] /\ UNCHANGED <<stored, vault, tree, treeFailed>>
  BY DEF OthersRest, SameNotes
<1>3. RecordOK(flow'[c]) /\ ~Runs(flow'[c])
  BY <1>2 DEF Ready, Placed, Kept, Runs
<1>4. ASSUME ~crossed'
      PROVE  Shows' /\ TreeShows' /\ (readOnly' => ~openDraft'.dirty)
  <2>1. Shows /\ TreeShows /\ (readOnly => ~openDraft.dirty)
    BY <1>1, <1>4 DEF Ready, Placed, InPlace, Recorded
  <2>2. Shows'
    BY <1>1, <1>2, <2>1 DEF Shows
  <2>3. flow[c].at \notin {"tree", "told"}
    BY DEF Ready, Placed, Kept, RecordOK
  <2>4. TreeShows'
    BY <1>2, <2>1, <2>3, TreeStays DEF SameNotes
  <2> QED BY <1>1, <2>1, <2>2, <2>4
<1> QED BY <1>1, <1>2, <1>3, <1>4, TurnPlaces DEF Ready, Placed, Kept

LEMMA UnlockPlaces == ASSUME NEW c \in Flow, Ready, Unlock(c) PROVE Placed'
<1>1. /\ flow[c].op = "none" /\ Rendered(c, WithMode(tabs, selected, FALSE), selected, FALSE)
      /\ SameNotes /\ UNCHANGED <<flow, openDraft>>
  BY DEF Unlock
<1>2. tabs \in Seq(Tab)
  BY DEF Ready, Placed, Kept
<1>3. /\ WithMode(tabs, selected, FALSE) \in Seq(Tab)
      /\ HasTab(WithMode(tabs, selected, FALSE), selected) <=> HasTab(tabs, selected)
      /\ HasTab(tabs, selected) => (ModeOf(WithMode(tabs, selected, FALSE), selected) <=> FALSE)
  BY <1>2, WithModeFact
<1> QED BY <1>1, <1>3, TabsPlaced

LEMMA CloseOtherTabPlaces == ASSUME Ready, CloseOtherTab PROVE Placed'
<1>1. PICK i \in DOMAIN tabs :
        /\ tabs[i].path # selected
        /\ SameNotes /\ UNCHANGED <<openDraft, flow>>
        /\ \E c \in Flow : flow[c].op = "none" /\ Rendered(c, Without(tabs, tabs[i].path), selected, readOnly)
  BY DEF CloseOtherTab
<1>2. PICK c \in Flow : flow[c].op = "none" /\ Rendered(c, Without(tabs, tabs[i].path), selected, readOnly)
  BY <1>1
<1>3. tabs \in Seq(Tab) /\ readOnly \in BOOLEAN
  BY DEF Ready, Placed, Kept, ShellInv, WellFormed
<1> DEFINE left == Without(tabs, tabs[i].path)
<1>4. /\ left \in Seq(Tab)
      /\ HasTab(left, selected) <=> HasTab(tabs, selected)
      /\ ModeOf(left, selected) <=> ModeOf(tabs, selected)
  BY <1>1, <1>3, WithoutFact
<1> HIDE DEF left
<1> QED BY <1>1, <1>2, <1>3, <1>4, TabsPlaced DEF left

\* No flow and no tab moves: the draft and the timer.
LEMMA StillPlaces ==
  ASSUME Ready, UNCHANGED <<stored, vault, tree, treeFailed, tabs, selected, readOnly, crossed>>,
         openDraft'.of = openDraft.of,
         openDraft'.dirty => selected # NoNote,
         ~crossed /\ readOnly => ~openDraft'.dirty,
         \A d \in Flow : RecordOK(flow'[d]) /\ flow'[d].at = flow[d].at /\ (Runs(flow'[d]) => flow'[d] = flow[d])
  PROVE  Placed'
<1>1. Kept'
  BY DEF Ready, Placed, Kept
<1>2. ASSUME ~crossed'
      PROVE  InPlace'
  <2>1. InPlace
    BY <1>2 DEF Ready, Placed
  <2>2. Shows' /\ TreeShows'
    BY <2>1 DEF InPlace, Shows, TreeShows
  <2>3. FlowsFit'
    BY <2>1 DEF InPlace, FlowsFit
  <2> QED BY <1>2, <2>2, <2>3 DEF InPlace
<1> QED BY <1>1, <1>2 DEF Placed

LEMMA TypeInNotePlaces == ASSUME Ready, TypeInNote PROVE Placed'
<1>1. /\ openDraft' = [openDraft EXCEPT !.dirty = TRUE] /\ selected # NoNote /\ ~readOnly
      /\ UNCHANGED <<stored, vault, tree, treeFailed, tabs, selected, readOnly, crossed>>
      /\ flow' = [c \in Flow |-> IF flow[c].op = "lock" THEN [flow[c] EXCEPT !.typed = TRUE] ELSE flow[c]]
  BY DEF TypeInNote, SameNotes
<1>2. ASSUME NEW d \in Flow
      PROVE  RecordOK(flow'[d]) /\ flow'[d].at = flow[d].at /\ (Runs(flow'[d]) => flow'[d] = flow[d])
  <2>1. CASE flow[d].op # "lock"
    BY <1>1, <2>1 DEF Ready, Placed, Kept
  <2>2. CASE flow[d].op = "lock"
    <3> DEFINE e == [flow[d] EXCEPT !.typed = TRUE]
    <3>1. flow'[d] = e /\ DOMAIN flow[d] = Field
      BY <1>1, <2>2 DEF Ready, ShellInv, WellFormed, FlowsWellFormed
    <3>2. /\ e.op = flow[d].op /\ e.at = flow[d].at /\ e.of = flow[d].of /\ e.tabs = flow[d].tabs
          /\ e.then = flow[d].then /\ e.path = flow[d].path /\ e.target = flow[d].target
      BY <3>1 DEF Field
    <3> HIDE DEF e
    <3> QED BY <2>2, <3>1, <3>2 DEF Ready, Placed, Kept, RecordOK, Runs
  <2> QED BY <2>1, <2>2
<1>3. openDraft'.of = openDraft.of
  BY <1>1 DEF Ready, ShellInv, WellFormed
<1> QED BY <1>1, <1>2, <1>3, StillPlaces

LEMMA AutosavePlaces == ASSUME Ready, Autosave PROVE Placed'
<1>1. /\ openDraft' = [openDraft EXCEPT !.dirty = FALSE]
      /\ UNCHANGED <<stored, vault, tree, treeFailed, tabs, selected, readOnly, crossed, flow>>
  BY DEF Autosave, SamePlace
<1>2. openDraft'.of = openDraft.of /\ ~openDraft'.dirty
  BY <1>1 DEF Ready, ShellInv, WellFormed
<1> QED BY <1>1, <1>2, StillPlaces DEF Ready, Placed, Kept

LEMMA SetAutoLockPlaces == ASSUME Ready, SetAutoLock PROVE Placed'
<1>1. UNCHANGED <<stored, vault, tree, treeFailed, tabs, selected, readOnly, crossed, flow, openDraft>>
  BY DEF SetAutoLock, SameNotes
<1> QED BY <1>1, StillPlaces DEF Ready, Placed, Kept, InPlace

LEMMA LockExpiresPlaces == ASSUME NEW c \in Flow, Ready, LockExpires(c) PROVE Placed'
<1> DEFINE record == [NotRunning EXCEPT !.op = "lock", !.at = "saving", !.path = selected]
<1>1. /\ Becomes(c, record) /\ flow[c].op = "none" /\ SameNotes
      /\ UNCHANGED <<tabs, selected, readOnly, openDraft, crossed>>
  BY DEF LockExpires
<1>2. RecordOK(record) /\ ~Runs(record)
  BY NotRunningOK DEF NotRunning, RecordOK, Runs
<1> HIDE DEF record
<1>3. OthersRest(c) /\ flow'[c] = record
  BY <1>1, BecomesRests DEF Ready, ShellInv
<1>4. Recorded(c)
  BY <1>1 DEF Recorded, SameNotes
<1>5. ASSUME ~crossed'
      PROVE  Shows' /\ TreeShows' /\ (readOnly' => ~openDraft'.dirty)
  <2>1. InPlace
    BY <1>1, <1>5 DEF Ready, Placed
  <2>2. flow[c].at \notin {"tree", "told"}
    BY <1>1 DEF Ready, Placed, Kept, RecordOK
  <2>3. TreeShows'
    BY <1>1, <1>3, <2>1, <2>2, TreeStays DEF InPlace
  <2> QED BY <1>1, <2>1, <2>3 DEF InPlace, Shows, SameNotes
<1> QED BY <1>1, <1>2, <1>3, <1>4, <1>5, TurnPlaces DEF Ready, Placed, Kept, SameNotes

-----------------------------------------------------------------------------
(* saveDraft has returned. *)

\* The end of a flow, which leaves the draft and the vault.
LEMMA OverPlaces ==
  ASSUME NEW c \in Flow, Ready, Runs(flow[c]), Over(c), UNCHANGED <<openDraft, stored, vault>>,
         ~crossed' => TreeShows'
  PROVE  Placed'
<1>1. Becomes(c, NotRunning)
  BY DEF Over
<1>2. OthersRest(c) /\ RecordOK(flow'[c]) /\ ~Runs(flow'[c])
  BY <1>1, NotRunningOK, BecomesRests DEF Ready, ShellInv
<1>3. tabs \in Seq(Tab)
  BY DEF Ready, Placed, Kept
<1>4. CASE flow[c].then = "none"
  <2>1. Rendered(c, tabs, selected, readOnly)
    BY <1>4 DEF Over
  <2>2. Recorded(c) /\ UNCHANGED <<tabs, selected, readOnly>>
    BY <2>1, RenderedRecords
  <2>3. ~crossed' => Shows' /\ (readOnly' => ~openDraft'.dirty)
    BY <2>2, ShowsStays DEF Ready, Placed, InPlace, Recorded
  <2> QED BY <1>2, <1>3, <2>2, <2>3, TurnPlaces DEF Ready, Placed, Kept
<1>5. CASE flow[c].then # "none"
  <2> DEFINE mode == flow[c].then = "locked"
             list == WithMode(tabs, flow[c].path, mode)
  <2>1. Rendered(c, list, selected, mode) /\ mode \in BOOLEAN
    BY <1>5 DEF Over
  <2>2. list \in Seq(Tab)
    <3> HIDE DEF mode
    <3> QED BY <1>3, <2>1, WithModeFact
  <2> HIDE DEF mode, list
  <2>3. Recorded(c) /\ tabs' = list /\ selected' = selected
    BY <2>1, RenderedRecords
  <2>4. ~crossed' => selected = NoNote /\ ~openDraft.dirty
    BY <1>5, <2>3 DEF Ready, Placed, Kept, InPlace, FlowsFit, Fits, Recorded
  <2>5. ~crossed' => Shows'
    BY <2>3, <2>4 DEF Shows
  <2>6. openDraft'.dirty => selected' # NoNote
    BY <2>3 DEF Ready, Placed, Kept
  <2> QED BY <1>2, <2>2, <2>3, <2>4, <2>5, <2>6, TurnPlaces DEF Ready, Placed, Kept
<1> QED BY <1>4, <1>5

\* A flow goes on, or ends, after a turn that left the place, with the text saved.
LEMMA SavedPlaces ==
  ASSUME NEW c \in Flow, NEW record, Ready, flow[c].at = "saving",
         Becomes(c, record), Rendered(c, tabs, selected, readOnly),
         openDraft' = [openDraft EXCEPT !.dirty = FALSE], SameNotes,
         RecordOK(record),
         Runs(record) /\ InPlace => Fits(record, tabs, selected, vault, stored[vault])
  PROVE  Placed'
<1>1. OthersRest(c) /\ flow'[c] = record
  BY BecomesRests DEF Ready, ShellInv
<1>2. Recorded(c) /\ UNCHANGED <<tabs, selected, readOnly, stored, vault>>
  BY RenderedRecords DEF SameNotes
<1>3. openDraft'.of = openDraft.of /\ ~openDraft'.dirty
  BY DEF Ready, ShellInv, WellFormed
<1>4. ASSUME ~crossed'
      PROVE  InPlace /\ Shows' /\ TreeShows'
  <2>1. InPlace
    BY <1>2, <1>4 DEF Ready, Placed, Recorded
  <2>2. Shows'
    BY <1>2, <1>3, <2>1, ShowsStays DEF InPlace
  <2>3. TreeShows'
    BY <1>1, <2>1, TreeStays DEF InPlace
  <2> QED BY <2>1, <2>2, <2>3
<1> QED BY <1>1, <1>2, <1>3, <1>4, TurnPlaces DEF Ready, Placed, Kept

\* A flow ends by locking the note that is open, with the text saved.
LEMMA LocksPlaces ==
  ASSUME NEW c \in Flow, NEW path, Ready, flow[c].at = "saving",
         Becomes(c, NotRunning), Locks(c, path), SameNotes,
         openDraft' = [openDraft EXCEPT !.dirty = FALSE],
         InPlace /\ selected # NoNote => path = selected
  PROVE  Placed'
<1> DEFINE list == WithMode(tabs, path, TRUE)
<1>1. OthersRest(c) /\ RecordOK(flow'[c]) /\ ~Runs(flow'[c])
  BY NotRunningOK, BecomesRests DEF Ready, ShellInv
<1>2. tabs \in Seq(Tab) /\ TRUE \in BOOLEAN
  BY DEF Ready, Placed, Kept
<1>3. /\ list \in Seq(Tab)
      /\ \A q : HasTab(list, q) <=> HasTab(tabs, q)
      /\ HasTab(tabs, path) => (ModeOf(list, path) <=> TRUE)
  BY <1>2, WithModeFact
<1>4. Rendered(c, list, selected, TRUE)
  BY DEF Locks
<1> HIDE DEF list
<1>5. Recorded(c) /\ tabs' = list /\ selected' = selected /\ readOnly' = TRUE
  BY <1>4, RenderedRecords
<1>6. openDraft'.of = openDraft.of /\ ~openDraft'.dirty
  BY DEF Ready, ShellInv, WellFormed
<1>7. ASSUME ~crossed'
      PROVE  Shows' /\ TreeShows'
  <2>1. InPlace
    BY <1>5, <1>7 DEF Ready, Placed, Recorded
  <2>2. Shows'
    BY <1>3, <1>5, <1>6, <2>1 DEF InPlace, Shows, SameNotes
  <2>3. TreeShows'
    BY <1>1, <2>1, TreeStays DEF InPlace
  <2> QED BY <2>2, <2>3
<1> QED BY <1>1, <1>3, <1>5, <1>6, <1>7, TurnPlaces DEF Ready, Placed, Kept, SameNotes

\* A flow that is not the timer's when it was waiting for its save.
LEMMA Waiting ==
  ASSUME NEW c \in Flow, Ready, flow[c].at # "no", flow[c].op # "lock"
  PROVE  /\ Runs(flow[c]) /\ DOMAIN flow[c] = Field /\ RecordOK(flow[c])
         /\ InPlace => Fits(flow[c], tabs, selected, vault, stored[vault])
<1>1. Runs(flow[c])
  BY DEF Ready, Placed, Kept, RecordOK, Runs
<1> QED BY <1>1 DEF Ready, Placed, Kept, ShellInv, WellFormed, FlowsWellFormed, InPlace, FlowsFit

LEMMA OpenSavedPlaces ==
  ASSUME NEW c \in Flow, Ready, flow[c].at = "saving", flow[c].op \in {"open", "move", "delete", "switch"},
         NEW at \in {"loading", "acting"}, at = "loading" => flow[c].op = "open", at = "acting" => flow[c].op # "open",
         Becomes(c, [flow[c] EXCEPT !.at = at]), Rendered(c, tabs, selected, readOnly),
         openDraft' = [openDraft EXCEPT !.dirty = FALSE], SameNotes
  PROVE  Placed'
<1> DEFINE me == flow[c]
           record == [me EXCEPT !.at = at]
<1>1. /\ Runs(me) /\ DOMAIN me = Field /\ RecordOK(me)
      /\ InPlace => Fits(me, tabs, selected, vault, stored[vault])
  BY Waiting
<1>2. /\ record.at = at /\ record.op = me.op /\ record.path = me.path /\ record.target = me.target /\ record.other = me.other
      /\ record.then = me.then /\ record.read = me.read /\ record.of = me.of /\ record.tabs = me.tabs
      /\ record.selected = me.selected
  BY <1>1 DEF Field
<1> HIDE DEF record
<1>3. Becomes(c, record)
  BY DEF record
<1>4. RecordOK(record)
  BY <1>1, <1>2 DEF RecordOK, Runs
<1>5. InPlace => Fits(record, tabs, selected, vault, stored[vault])
  BY <1>1, <1>2 DEF Fits
<1> QED BY <1>3, <1>4, <1>5, SavedPlaces

\* The tab of the note is gone; the note beside it is opened.
LEMMA ClosedPlaces == ASSUME NEW c \in Flow, Ready, DraftSaved(c), flow[c].op = "close" PROVE Placed'
<1> DEFINE me == flow[c]
           left == Without(me.tabs, me.path)
           next == NextTab(left, IndexIn(me.tabs, me.path))
           e == [me EXCEPT !.op = "open", !.at = "loading", !.path = next]
           record == IF next = NoNote THEN NotRunning ELSE e
<1>1. /\ me.at = "saving" /\ SameNotes /\ Becomes(c, record) /\ openDraft' = NoOpenDraft
      /\ Rendered(c, left, NoNote, readOnly)
  BY DEF DraftSaved
<1>2. /\ DOMAIN me = Field /\ RecordOK(me)
      /\ InPlace => Fits(me, tabs, selected, vault, stored[vault])
  BY <1>1, Waiting
<1>3. left \in Seq(Tab) /\ (next # NoNote => HasTab(left, next))
  <2>1. me.tabs \in Seq(Tab)
    BY <1>2 DEF RecordOK
  <2>2. left \in Seq(Tab) /\ IndexIn(me.tabs, me.path) \in Nat \ {0}
    BY <2>1, WithoutFact, IndexInFact
  <2> HIDE DEF left
  <2> QED BY <2>2, NextTabFact
<1>4. /\ e.at = "loading" /\ e.op = "open" /\ e.path = next /\ e.target = me.target /\ e.other = me.other
      /\ e.then = me.then /\ e.read = me.read /\ e.of = me.of /\ e.tabs = me.tabs
      /\ e.selected = me.selected
  BY <1>2 DEF Field
<1> HIDE DEF left, next, e
<1>5. RecordOK(record)
  BY <1>2, <1>4, NotRunningOK DEF RecordOK, Runs
<1>6. InPlace /\ Runs(record) => Fits(record, left, NoNote, vault, stored[vault])
  BY <1>2, <1>3, <1>4, NotRunningOK DEF Fits
<1> HIDE DEF record
<1>7. OthersRest(c) /\ flow'[c] = record
  BY <1>1, BecomesRests DEF Ready, ShellInv
<1>8. Recorded(c) /\ tabs' = left /\ selected' = NoNote /\ readOnly' = readOnly
  BY <1>1, RenderedRecords
<1>9. ~openDraft'.dirty
  BY <1>1 DEF NoOpenDraft
<1>10. ASSUME ~crossed'
       PROVE  InPlace /\ Shows' /\ TreeShows'
  <2>1. InPlace
    BY <1>8, <1>10 DEF Ready, Placed, Recorded
  <2>2. TreeShows'
    BY <1>1, <1>7, <2>1, TreeStays DEF InPlace
  <2> QED BY <1>8, <2>1, <2>2 DEF Shows
<1> QED BY <1>1, <1>3, <1>5, <1>6, <1>7, <1>8, <1>9, <1>10, TurnPlaces DEF Ready, Placed, Kept, SameNotes

LEMMA DraftSavedPlaces == ASSUME NEW c \in Flow, Ready, DraftSaved(c) PROVE Placed'
<1> DEFINE me == flow[c]
           saved == [openDraft EXCEPT !.dirty = FALSE]
<1>1. me.at = "saving" /\ SameNotes
  BY DEF DraftSaved
<1>2. CASE me.op = "open"
  <2>1. Becomes(c, [me EXCEPT !.at = "loading"]) /\ openDraft' = saved /\ Rendered(c, tabs, selected, readOnly)
    BY <1>2 DEF DraftSaved
  <2> QED BY <1>1, <1>2, <2>1, OpenSavedPlaces
<1>3. CASE me.op = "close"
  BY <1>3, ClosedPlaces
<1>4. CASE me.op \in {"move", "delete", "switch"}
  <2>1. Becomes(c, [me EXCEPT !.at = "acting"]) /\ openDraft' = saved /\ Rendered(c, tabs, selected, readOnly)
    BY <1>4 DEF DraftSaved
  <2> QED BY <1>1, <1>4, <2>1, OpenSavedPlaces
<1>5. CASE me.op = "toggle"
  <2>1. Becomes(c, NotRunning) /\ openDraft' = saved /\ Locks(c, me.path)
    BY <1>5 DEF DraftSaved
  <2>2. InPlace => me.path = selected
    BY <1>1, <1>5, Waiting DEF Fits
  <2> QED BY <1>1, <2>1, <2>2, LocksPlaces
<1>6. CASE me.op = "lock" /\ openDraft.path = me.path /\ ~me.typed
  <2>1. Becomes(c, NotRunning) /\ openDraft' = saved /\ Locks(c, me.path)
    BY <1>6 DEF DraftSaved
  <2>2. me.path = selected
    BY <1>6 DEF Ready, ShellInv, OneNoteOpen
  <2> QED BY <1>1, <2>1, <2>2, LocksPlaces
<1>7. CASE me.op = "lock" /\ (openDraft.path # me.path \/ me.typed)
  <2>1. Becomes(c, NotRunning) /\ openDraft' = saved /\ Rendered(c, tabs, selected, readOnly)
    BY <1>7 DEF DraftSaved
  <2> QED BY <1>1, <2>1, NotRunningOK, SavedPlaces
<1> QED BY <1>2, <1>3, <1>4, <1>5, <1>6, <1>7 DEF DraftSaved

LEMMA DraftNotSavedPlaces == ASSUME NEW c \in Flow, Ready, DraftNotSaved(c) PROVE Placed'
<1>1. flow[c].at = "saving" /\ openDraft.dirty /\ SameNotes /\ UNCHANGED openDraft
  BY DEF DraftNotSaved
<1>2. CASE flow[c].op = "lock"
  <2>1. Becomes(c, NotRunning) /\ UNCHANGED <<tabs, selected, readOnly, crossed>>
    BY <1>2 DEF DraftNotSaved
  <2>2. OthersRest(c) /\ RecordOK(flow'[c]) /\ ~Runs(flow'[c])
    BY <2>1, NotRunningOK, BecomesRests DEF Ready, ShellInv
  <2>3. Recorded(c)
    BY <1>1, <2>1 DEF Recorded, SameNotes
  <2>4. ~crossed' => Shows' /\ TreeShows' /\ (readOnly' => ~openDraft'.dirty)
    BY <1>1, <2>1, <2>2, ShowsStays, TreeStays DEF Ready, Placed, InPlace, SameNotes
  <2> QED BY <1>1, <2>1, <2>2, <2>3, <2>4, TurnPlaces DEF Ready, Placed, Kept, SameNotes
<1>3. CASE flow[c].op # "lock"
  <2>1. Over(c)
    BY <1>3 DEF DraftNotSaved
  <2>2. Recorded(c)
    BY <2>1, RenderedRecords DEF Over
  <2>3. OthersRest(c)
    BY <2>1, BecomesRests DEF Over, Ready, ShellInv
  <2>4. ~crossed' => TreeShows'
    BY <1>1, <2>2, <2>3, TreeStays DEF Ready, Placed, InPlace, Recorded
  <2> QED BY <1>1, <1>3, <2>1, <2>4, Waiting, OverPlaces DEF SameNotes
<1> QED BY <1>2, <1>3

-----------------------------------------------------------------------------
(* Answers. *)

LEMMA Rebased ==
  ASSUME NEW c \in Flow, Ready, flow[c].at \notin {"no", "saving"}
  PROVE  /\ Runs(flow[c]) /\ DOMAIN flow[c] = Field /\ RecordOK(flow[c])
         /\ InPlace => Fits(flow[c], tabs, selected, vault, stored[vault])
<1>1. flow[c].op # "lock"
  BY DEF Ready, Placed, Kept, RecordOK
<1> QED BY <1>1, Waiting

LEMMA NoteArrivesPlaces == ASSUME NEW c \in Flow, Ready, NoteArrives(c) PROVE Placed'
<1> DEFINE me == flow[c]
           tab == [path |-> me.path, readOnly |-> FALSE]
           opened == IF HasTab(tabs, me.path) THEN tabs
                     ELSE IF me.other \/ me.selected = NoNote \/ tabs = <<>> THEN Append(tabs, tab)
                     ELSE Mapped(tabs, LAMBDA t : IF t.path = me.selected THEN tab ELSE t)
           mode == IF me.then = "none" THEN ModeOf(me.tabs, me.path) ELSE me.then = "locked"
           list == WithMode(opened, me.path, mode)
<1>1. PICK v \in {me.of, vault} :
        /\ me.path \in stored[v]
        /\ openDraft' = [path |-> me.path, of |-> v, dirty |-> FALSE]
  BY DEF NoteArrives
<1>2. /\ me.at = "loading" /\ SameNotes /\ Becomes(c, NotRunning)
      /\ Rendered(c, list, me.path, mode)
  BY DEF NoteArrives
<1>3. /\ RecordOK(me)
      /\ InPlace => Fits(me, tabs, selected, vault, stored[vault])
  BY <1>2, Rebased
<1>4. tabs \in Seq(Tab) /\ me.path \in Note /\ me.op = "open"
  BY <1>1, <1>2, <1>3 DEF Ready, Placed, Kept, RecordOK
<1>5. tab \in Tab /\ tab.path = me.path
  BY <1>4 DEF Tab
<1>6. mode \in BOOLEAN
  BY Zenon, ModeIsBoolean
<1> DEFINE added == Append(tabs, tab)
           replaced == Mapped(tabs, LAMBDA t : IF t.path = me.selected THEN tab ELSE t)
<1>13. added \in Seq(Tab) /\ HasTab(added, me.path)
  BY <1>4, <1>5, AppendedFact
<1>14. replaced \in Seq(Tab) /\ (HasTab(tabs, me.selected) => HasTab(replaced, me.path))
  <2>1. replaced = [i \in DOMAIN tabs |-> IF tabs[i].path = me.selected THEN tab ELSE tabs[i]]
    BY DEF Mapped
  <2> HIDE DEF replaced, tab
  <2> QED BY <1>4, <1>5, <2>1, ReplacedFact
<1>15. opened = IF HasTab(tabs, me.path) THEN tabs
                ELSE IF me.other \/ me.selected = NoNote \/ tabs = <<>> THEN added ELSE replaced
  OBVIOUS
<1> HIDE DEF mode, tab, opened, added, replaced
<1>7. opened \in Seq(Tab)
  BY <1>4, <1>13, <1>14, <1>15
<1>8. HasTab(tabs, me.path) \/ me.other \/ me.selected = NoNote \/ tabs = <<>> \/ HasTab(tabs, me.selected)
      => HasTab(opened, me.path)
  BY <1>13, <1>14, <1>15
<1>9. /\ list \in Seq(Tab)
      /\ HasTab(list, me.path) <=> HasTab(opened, me.path)
      /\ HasTab(opened, me.path) => (ModeOf(list, me.path) <=> mode)
  BY <1>6, <1>7, WithModeFact
<1> HIDE DEF list
<1>10. Recorded(c) /\ tabs' = list /\ selected' = me.path /\ readOnly' = mode
  BY <1>2, RenderedRecords
<1>11. OthersRest(c) /\ RecordOK(flow'[c]) /\ ~Runs(flow'[c])
  BY <1>2, NotRunningOK, BecomesRests DEF Ready, ShellInv
<1>12. ASSUME ~crossed'
       PROVE  Shows' /\ TreeShows'
  <2>1. InPlace
    BY <1>10, <1>12 DEF Ready, Placed, Recorded
  <2>2. me.path # NoNote
    BY <1>4, WorkspaceAssumption
  <2>5. me.of = vault /\ HasTab(opened, me.path)
    BY <1>3, <1>4, <1>8, <2>1, <2>2 DEF Fits
  <2>3. Shows'
    BY <1>1, <1>2, <1>9, <1>10, <2>5 DEF Shows, SameNotes
  <2>4. TreeShows'
    BY <1>2, <1>11, <2>1, TreeStays DEF InPlace
  <2> QED BY <2>3, <2>4
<1> QED BY <1>1, <1>2, <1>9, <1>10, <1>11, <1>12, TurnPlaces DEF Ready, Placed, Kept, SameNotes

\* A flow that reads no tree ends without changing a note.
LEMMA OverInVaultPlaces ==
  ASSUME NEW c \in Flow, Ready, flow[c].at \in {"loading", "acting"}, Over(c), SameNotes, UNCHANGED openDraft
  PROVE  Placed'
<1>1. Recorded(c)
  BY RenderedRecords DEF Over
<1>2. OthersRest(c)
  BY BecomesRests DEF Over, Ready, ShellInv
<1>3. ~crossed' => TreeShows'
  BY <1>1, <1>2, TreeStays DEF Ready, Placed, InPlace, Recorded
<1> QED BY <1>3, Rebased, OverPlaces DEF SameNotes

LEMMA NoteDoesNotArrivePlaces == ASSUME NEW c \in Flow, Ready, NoteDoesNotArrive(c) PROVE Placed'
  BY OverInVaultPlaces DEF NoteDoesNotArrive

LEMMA NotDonePlaces == ASSUME NEW c \in Flow, Ready, NotDone(c) PROVE Placed'
  BY OverInVaultPlaces DEF NotDone

\* A flow goes on by loading the tree.
LEMMA ReloadsPlaces ==
  ASSUME NEW c \in Flow, NEW opened, NEW then, NEW list \in Seq(Tab), NEW path, Ready,
         flow[c].at = "acting", Reloads(c, opened, then), Rendered(c, list, path, readOnly),
         stored' \in [Notebook -> SUBSET Note], vault' \in Notebook,
         flow[c].op \in {"move", "delete", "create", "switch", "vault"},
         flow[c].op \in {"switch", "vault"} => opened = NoNote,
         flow[c].op = "create" => opened \in Note,
         openDraft'.dirty => path # NoNote /\ openDraft.dirty,
         InPlace => /\ Shows'
                    /\ flow[c].op \in {"switch", "vault"} \/ vault' = vault
                    /\ then # "none" => path = NoNote
                    /\ opened # NoNote => \/ HasTab(list, opened) \/ flow[c].selected = NoNote
                                          \/ HasTab(list, flow[c].selected)
  PROVE  Placed'
<1> DEFINE me == flow[c]
           record == [me EXCEPT !.at = "tree", !.path = opened, !.then = then]
<1>1. /\ Runs(me) /\ DOMAIN me = Field /\ RecordOK(me)
      /\ InPlace => Fits(me, tabs, selected, vault, stored[vault])
  BY Rebased
<1>2. /\ record.at = "tree" /\ record.op = me.op /\ record.path = opened /\ record.target = me.target
      /\ record.other = me.other /\ record.then = then /\ record.of = me.of
      /\ record.tabs = me.tabs /\ record.selected = me.selected
  BY <1>1 DEF Field
<1> HIDE DEF record
<1>3. Becomes(c, record)
  BY DEF record, Reloads
<1>4. RecordOK(record)
  BY <1>1, <1>2 DEF RecordOK, Runs
<1>5. OthersRest(c) /\ flow'[c] = record
  BY <1>3, BecomesRests DEF Ready, ShellInv
<1>6. Recorded(c) /\ tabs' = list /\ selected' = path /\ readOnly' = readOnly
  BY RenderedRecords
<1>7. ASSUME ~crossed'
      PROVE  /\ Shows' /\ TreeShows' /\ (readOnly' => ~openDraft'.dirty)
             /\ Fits(record, tabs', selected', vault', stored'[vault'])
  <2>1. InPlace
    BY <1>6, <1>7 DEF Ready, Placed, Recorded
  <2>2. TreeShows'
    BY <1>2, <1>5, TreeOwed
  <2>5. /\ me.op \in {"switch", "vault"} \/ vault' = vault
        /\ then # "none" => path = NoNote
        /\ opened # NoNote => HasTab(list, opened) \/ me.selected = NoNote \/ HasTab(list, me.selected)
    BY <2>1, Zenon
  <2>3. Fits(record, tabs', selected', vault', stored'[vault'])
    <3>1. record.op \notin {"switch", "vault"} => record.of = vault'
      BY <1>1, <1>2, <2>1, <2>5 DEF Fits
    <3>2. record.op = "toggle" => record.path = record.selected
      BY <1>2
    <3> QED BY <1>2, <1>6, <2>5, <3>1, <3>2 DEF Fits
  <2>4. readOnly' => ~openDraft'.dirty
    BY <1>6, <2>1 DEF InPlace
  <2> QED BY <2>1, <2>2, <2>3, <2>4
<1> QED BY <1>4, <1>5, <1>6, <1>7, TurnPlaces DEF Ready

LEMMA NoteMovedPlaces == ASSUME NEW c \in Flow, Ready, NoteMoved(c) PROVE Placed'
<1> DEFINE me == flow[c]
           affected == me.selected = me.path
           opened == IF affected THEN me.target ELSE NoNote
           then == IF ~affected THEN "none" ELSE IF ModeOf(me.tabs, me.path) THEN "locked" ELSE "open"
           list == Renamed(tabs, me.path, me.target)
           path == IF affected THEN NoNote ELSE selected
<1>1. /\ me.at = "acting" /\ me.op = "move" /\ me.path \in stored[vault] /\ me.target \notin stored[vault]
      /\ stored' = [stored EXCEPT ![vault] = (@ \ {me.path}) \cup {me.target}] /\ vault' = vault
      /\ openDraft' = IF affected THEN NoOpenDraft ELSE openDraft
      /\ Reloads(c, opened, then) /\ Rendered(c, list, path, readOnly)
  BY DEF NoteMoved, Renamed
<1>2. /\ RecordOK(me) /\ me.target \in Note
      /\ InPlace => Fits(me, tabs, selected, vault, stored[vault])
  BY <1>1, Rebased DEF RecordOK
<1>3. /\ tabs \in Seq(Tab) /\ stored \in [Notebook -> SUBSET Note] /\ vault \in Notebook
      /\ me.path \in Note
  BY <1>1 DEF Ready, Placed, Kept
<1>4. /\ list \in Seq(Tab)
      /\ HasTab(tabs, me.path) => HasTab(list, me.target)
      /\ \A q : q # me.path /\ q # me.target => /\ HasTab(list, q) <=> HasTab(tabs, q)
                                                /\ ModeOf(list, q) <=> ModeOf(tabs, q)
  BY <1>2, <1>3, RenamedFact
<1> HIDE DEF list
<1>5. /\ stored' \in [Notebook -> SUBSET Note]
      /\ stored'[vault] = (stored[vault] \ {me.path}) \cup {me.target}
  BY <1>1, <1>2, <1>3
<1>6. openDraft'.dirty => path # NoNote /\ openDraft.dirty
  BY <1>1 DEF NoOpenDraft, Ready, Placed, Kept
<1>7. tabs' = list /\ selected' = path /\ readOnly' = readOnly
  BY <1>1, RenderedRecords
<1>8. ASSUME InPlace
      PROVE  /\ Shows' /\ (then # "none" => path = NoNote)
             /\ opened # NoNote => HasTab(list, opened)
  <2>1. me.selected = selected
    BY <1>1, <1>2, <1>8 DEF Fits
  <2>2. CASE affected
    <3>1. selected # NoNote
      BY <1>3, <2>1, <2>2, WorkspaceAssumption
    <3>2. HasTab(tabs, me.path)
      BY <1>8, <2>1, <2>2, <3>1 DEF InPlace, Shows
    <3> QED BY <1>4, <1>7, <2>2, <3>2 DEF Shows
  <2>3. CASE ~affected
    <3>1. opened = NoNote /\ then = "none" /\ path = selected
      BY <2>3
    <3>2. openDraft' = openDraft
      BY <1>1, <2>3
    <3>3. Shows'
      BY <1>1, <1>4, <1>5, <1>7, <1>8, <2>1, <2>3, <3>1, <3>2 DEF InPlace, Shows
    <3> QED BY <3>1, <3>3
  <2> QED BY <2>2, <2>3
<1> HIDE DEF opened, then, path
<1> QED BY <1>1, <1>3, <1>4, <1>5, <1>6, <1>8, ReloadsPlaces

LEMMA NoteDeletedPlaces == ASSUME NEW c \in Flow, Ready, NoteDeleted(c) PROVE Placed'
<1> DEFINE me == flow[c]
           affected == me.selected = me.path
           left == Without(me.tabs, me.path)
           next == NextTab(left, IndexIn(me.tabs, me.selected))
           opened == IF affected THEN next ELSE NoNote
           path == IF affected THEN NoNote ELSE selected
<1>1. /\ me.at = "acting" /\ me.op = "delete"
      /\ stored' = [stored EXCEPT ![vault] = @ \ {me.path}] /\ vault' = vault
      /\ openDraft' = IF affected THEN NoOpenDraft ELSE openDraft
      /\ Reloads(c, opened, "none") /\ Rendered(c, left, path, readOnly)
  BY DEF NoteDeleted
<1>2. /\ RecordOK(me) /\ me.tabs \in Seq(Tab)
      /\ InPlace => Fits(me, tabs, selected, vault, stored[vault])
  BY <1>1, Rebased DEF RecordOK
<1>3. tabs \in Seq(Tab) /\ stored \in [Notebook -> SUBSET Note] /\ vault \in Notebook
  BY <1>1 DEF Ready, Placed, Kept
<1>4. /\ left \in Seq(Tab) /\ IndexIn(me.tabs, me.selected) \in Nat \ {0}
      /\ \A q : q # me.path => /\ HasTab(left, q) <=> HasTab(me.tabs, q)
                               /\ ModeOf(left, q) <=> ModeOf(me.tabs, q)
  BY <1>2, WithoutFact, IndexInFact
<1> HIDE DEF left
<1>9. next # NoNote => HasTab(left, next)
  BY <1>4, NextTabFact
<1> HIDE DEF next
<1>5. /\ stored' \in [Notebook -> SUBSET Note]
      /\ stored'[vault] = stored[vault] \ {me.path}
  BY <1>1, <1>3
<1>6. openDraft'.dirty => path # NoNote /\ openDraft.dirty
  BY <1>1 DEF NoOpenDraft, Ready, Placed, Kept
<1>7. tabs' = left /\ selected' = path /\ readOnly' = readOnly
  BY <1>1, RenderedRecords
<1>8. ASSUME InPlace
      PROVE  Shows' /\ (opened # NoNote => HasTab(left, opened))
  <2>1. me.selected = selected /\ me.tabs = tabs
    BY <1>1, <1>2, <1>8 DEF Fits
  <2>2. CASE affected
    BY <1>7, <1>9, <2>2 DEF Shows
  <2>3. CASE ~affected
    <3>1. opened = NoNote /\ path = selected
      BY <2>3
    <3>2. openDraft' = openDraft
      BY <1>1, <2>3
    <3>3. Shows'
      BY <1>1, <1>4, <1>5, <1>7, <1>8, <2>1, <2>3, <3>1, <3>2 DEF InPlace, Shows
    <3> QED BY <3>1, <3>3
  <2> QED BY <2>2, <2>3
<1> HIDE DEF opened, path
<1> QED BY <1>1, <1>3, <1>4, <1>5, <1>6, <1>8, ReloadsPlaces

LEMMA CreatedPlaces == ASSUME NEW c \in Flow, Ready, Created(c) PROVE Placed'
<1> DEFINE me == flow[c]
<1>1. /\ me.at = "acting" /\ me.op = "create"
      /\ stored' = [stored EXCEPT ![vault] = @ \cup {me.path}] /\ UNCHANGED <<vault, openDraft>>
      /\ Reloads(c, me.path, "none") /\ Rendered(c, tabs, selected, readOnly)
  BY DEF Created
<1>2. /\ RecordOK(me) /\ me.path \in Note
      /\ InPlace => Fits(me, tabs, selected, vault, stored[vault])
  BY <1>1, Rebased DEF RecordOK
<1>3. tabs \in Seq(Tab) /\ stored \in [Notebook -> SUBSET Note] /\ vault \in Notebook
  BY <1>1 DEF Ready, Placed, Kept
<1>5. /\ stored' \in [Notebook -> SUBSET Note]
      /\ stored'[vault] = stored[vault] \cup {me.path}
  BY <1>1, <1>2, <1>3
<1>6. openDraft'.dirty => selected # NoNote /\ openDraft.dirty
  BY <1>1 DEF Ready, Placed, Kept
<1>7. UNCHANGED <<tabs, selected, readOnly>>
  BY <1>1, RenderedRecords
<1>8. ASSUME InPlace
      PROVE  Shows' /\ (me.selected = NoNote \/ HasTab(tabs, me.selected))
  <2>1. me.selected = selected
    BY <1>1, <1>2, <1>8 DEF Fits
  <2> QED BY <1>1, <1>5, <1>7, <1>8, <2>1 DEF InPlace, Shows
<1> QED BY <1>1, <1>2, <1>3, <1>5, <1>6, <1>8, ReloadsPlaces

LEMMA SwitchedPlaces == ASSUME NEW c \in Flow, Ready, Switched(c) PROVE Placed'
<1>1. /\ flow[c].at = "acting" /\ flow[c].op \in {"switch", "vault"} /\ vault' \in Notebook
      /\ openDraft' = NoOpenDraft /\ UNCHANGED stored
      /\ Reloads(c, NoNote, "none") /\ Rendered(c, <<>>, NoNote, readOnly)
  BY DEF Switched
<1>2. stored \in [Notebook -> SUBSET Note] /\ <<>> \in Seq(Tab)
  BY EmptySeq DEF Ready, Placed, Kept
<1>3. Shows'
  BY <1>1, RenderedRecords DEF Shows
<1>4. ~openDraft'.dirty
  BY <1>1 DEF NoOpenDraft
<1> QED BY <1>1, <1>2, <1>3, <1>4, ReloadsPlaces

LEMMA TreeReadPlaces == ASSUME NEW c \in Flow, Ready, TreeRead(c) PROVE Placed'
<1> DEFINE me == flow[c]
           record == [me EXCEPT !.at = "told", !.read = stored[vault]]
<1>1. /\ me.at = "tree" /\ Becomes(c, record) /\ SamePlace /\ UNCHANGED <<stored, openDraft>>
  BY DEF TreeRead
<1>2. /\ Runs(me) /\ DOMAIN me = Field /\ RecordOK(me)
      /\ InPlace => Fits(me, tabs, selected, vault, stored[vault])
  BY <1>1, Rebased
<1>3. /\ record.at = "told" /\ record.op = me.op /\ record.path = me.path /\ record.target = me.target
      /\ record.other = me.other /\ record.then = me.then /\ record.of = me.of
      /\ record.tabs = me.tabs /\ record.selected = me.selected /\ record.read = stored[vault]
  BY <1>2 DEF Field
<1> HIDE DEF record
<1>4. RecordOK(record)
  BY <1>1, <1>2, <1>3 DEF RecordOK, Runs
<1>5. OthersRest(c) /\ flow'[c] = record
  BY <1>1, BecomesRests DEF Ready, ShellInv
<1>6. UNCHANGED <<tabs, selected, readOnly, vault, stored, openDraft, crossed>>
  BY <1>1 DEF SamePlace
<1>7. Recorded(c)
  BY <1>6 DEF Recorded
<1>8. ASSUME ~crossed'
      PROVE  /\ Shows' /\ TreeShows' /\ (readOnly' => ~openDraft'.dirty)
             /\ Fits(record, tabs', selected', vault', stored'[vault'])
  <2>1. InPlace
    BY <1>6, <1>8 DEF Ready, Placed
  <2>2. TreeShows'
    BY <1>3, <1>5, TreeOwed
  <2>3. Fits(record, tabs', selected', vault', stored'[vault'])
    BY <1>1, <1>2, <1>3, <1>6, <2>1 DEF Fits
  <2> QED BY <1>6, <2>1, <2>2, <2>3, ShowsStays DEF InPlace
<1> QED BY <1>4, <1>5, <1>6, <1>7, <1>8, TurnPlaces DEF Ready, Placed, Kept

LEMMA TreeHeardPlaces == ASSUME NEW c \in Flow, Ready, TreeHeard(c) PROVE Placed'
<1> DEFINE me == flow[c]
<1>1. /\ me.at = "told" /\ UNCHANGED <<stored, vault, openDraft>>
      /\ tree' = me.read \/ treeFailed' = TRUE
  BY DEF TreeHeard
<1>2. /\ Runs(me) /\ DOMAIN me = Field /\ RecordOK(me)
      /\ InPlace => Fits(me, tabs, selected, vault, stored[vault])
  BY <1>1, Rebased
<1>3. InPlace => TreeShows'
  BY <1>1, <1>2 DEF Fits, TreeShows
<1>4. CASE me.path = NoNote \/ me.path = me.selected
  <2>1. Over(c)
    BY <1>4 DEF TreeHeard
  <2>2. Recorded(c)
    BY <2>1, RenderedRecords DEF Over
  <2>3. ~crossed' => TreeShows'
    BY <1>3, <2>2 DEF Ready, Placed, Recorded
  <2> QED BY <1>1, <1>2, <2>1, <2>3, OverPlaces
<1>5. CASE ~(me.path = NoNote \/ me.path = me.selected)
  <2> DEFINE record == [me EXCEPT !.op = "open", !.at = "saving", !.read = {}]
  <2>1. Becomes(c, record) /\ Rendered(c, tabs, selected, readOnly)
    BY <1>5 DEF TreeHeard
  <2>2. /\ record.at = "saving" /\ record.op = "open" /\ record.path = me.path /\ record.target = me.target
        /\ record.other = me.other /\ record.then = me.then /\ record.of = me.of
        /\ record.tabs = me.tabs /\ record.selected = me.selected
    BY <1>2 DEF Field
  <2> HIDE DEF record
  <2>3. RecordOK(record)
    BY <1>2, <2>2 DEF RecordOK, Runs
  <2>4. OthersRest(c) /\ flow'[c] = record
    BY <2>1, BecomesRests DEF Ready, ShellInv
  <2>5. Recorded(c) /\ UNCHANGED <<tabs, selected, readOnly>>
    BY <2>1, RenderedRecords
  <2>6. ASSUME ~crossed'
        PROVE  /\ Shows' /\ TreeShows' /\ (readOnly' => ~openDraft'.dirty)
               /\ Fits(record, tabs', selected', vault', stored'[vault'])
    <3>1. InPlace
      BY <2>5, <2>6 DEF Ready, Placed, Recorded
    <3>2. me.op \notin {"switch", "vault"}
      BY <1>2, <1>5 DEF RecordOK
    <3>3. Fits(record, tabs', selected', vault', stored'[vault'])
      BY <1>1, <1>2, <2>2, <2>5, <3>1, <3>2 DEF Fits
    <3> QED BY <1>1, <1>3, <2>5, <3>1, <3>3, ShowsStays DEF InPlace
  <2> QED BY <1>1, <2>3, <2>4, <2>5, <2>6, TurnPlaces DEF Ready, Placed, Kept
<1> QED BY <1>4, <1>5

-----------------------------------------------------------------------------
LEMMA PlacedAtFirst == WorkspaceInit => Placed
<1> SUFFICES ASSUME WorkspaceInit PROVE Placed
  OBVIOUS
<1>1. /\ stored = InitiallyStored /\ vault = FirstNotebook /\ tree = stored[vault]
      /\ openDraft = [path |-> selected, of |-> vault, dirty |-> FALSE]
      /\ flow = [c \in Flow |-> NotRunning]
      /\ readOnly = ModeOf(tabs, selected)
      /\ \A i \in DOMAIN tabs : tabs[i].path \in stored[vault]
      /\ selected = IF tabs = <<>> THEN NoNote ELSE tabs[1].path
      /\ tabs \in {<<>>} \cup {list \in [1..2 -> Tab] : list[1].path # list[2].path}
  BY DEF WorkspaceInit
<1>2. tabs = <<>> \/ tabs \in [1..2 -> Tab]
  BY <1>1
<1>3. tabs \in Seq(Tab)
  <2>1. 2 \in Nat
    OBVIOUS
  <2> QED BY <1>2, <2>1, EmptySeq, SeqDef
<1>4. Kept
  BY <1>1, <1>3, NotRunningOK, WorkspaceAssumption DEF Kept
<1>5. Shows
  <2>1. CASE tabs = <<>>
    BY <1>1, <2>1 DEF Shows
  <2>2. CASE tabs # <<>>
    <3>1. 1 \in DOMAIN tabs /\ selected = tabs[1].path
      BY <1>1, <1>2, <2>2
    <3>2. HasTab(tabs, selected) /\ selected \in stored[vault]
      BY <1>1, <3>1 DEF HasTab, TabOf
    <3> QED BY <1>1, <3>2 DEF Shows
  <2> QED BY <2>1, <2>2
<1>6. TreeShows /\ FlowsFit /\ ~openDraft.dirty
  BY <1>1, NotRunningOK DEF TreeShows, FlowsFit
<1> QED BY <1>4, <1>5, <1>6 DEF Placed, InPlace

LEMMA PlacedStays == Ready /\ [WorkspaceNext]_shellVars => Placed'
<1> SUFFICES ASSUME Ready, [WorkspaceNext]_shellVars PROVE Placed'
  OBVIOUS
<1>1. ASSUME NEW c \in Flow, FlowStarts(c) PROVE Placed'
  BY <1>1, FlowStartsPlaces, UnlockPlaces
<1>2. ASSUME NEW c \in Flow, Resumes(c) PROVE Placed'
  BY <1>2, DraftSavedPlaces, DraftNotSavedPlaces, NoteArrivesPlaces, NoteDoesNotArrivePlaces, NoteMovedPlaces,
     NoteDeletedPlaces, CreatedPlaces, SwitchedPlaces, NotDonePlaces, TreeReadPlaces, TreeHeardPlaces DEF Resumes
<1>3. CASE CloseOtherTab \/ TypeInNote \/ Autosave \/ SetAutoLock
  BY <1>3, CloseOtherTabPlaces, TypeInNotePlaces, AutosavePlaces, SetAutoLockPlaces
<1>4. CASE UNCHANGED shellVars
  BY <1>4, StillPlaces DEF shellVars, Ready, Placed, Kept, InPlace
<1> QED BY <1>1, <1>2, <1>3, <1>4, LockExpiresPlaces DEF WorkspaceNext

LEMMA AlwaysPlaced == WorkspaceSpec => []Placed
<1>1. ShellInv /\ Placed /\ [WorkspaceNext]_shellVars => ShellInv' /\ Placed'
  BY ShellStays, PlacedStays DEF Ready
<1> QED BY <1>1, ShellAtFirst, PlacedAtFirst, PTL DEF WorkspaceSpec

\* As long as nothing moved under a flow that was waiting, the selected note has
\* its tab and its mode and is of the active vault, and the tree shows the notes
\* there are, for any notes, vaults and flows.
THEOREM TabsFit == WorkspaceSpec => []NotesArePlaced
<1>1. ShellInv /\ Placed => NotesArePlaced
  <2> SUFFICES ASSUME ShellInv, Placed, ~crossed
               PROVE  /\ selected # NoNote => HasTab(tabs, selected) /\ ModeOf(tabs, selected) = readOnly /\ openDraft.of = vault
                      /\ (\A c \in Flow : flow[c].at \notin {"tree", "told"}) => tree = stored[vault] \/ treeFailed
    BY DEF NotesArePlaced
  <2>1. readOnly \in BOOLEAN /\ ModeOf(tabs, selected) \in BOOLEAN
    BY ModeIsBoolean DEF ShellInv, WellFormed
  <2>2. selected # NoNote => ModeOf(tabs, selected) = readOnly
    <3>1. selected # NoNote => (ModeOf(tabs, selected) <=> readOnly)
      BY DEF Placed, InPlace, Shows
    <3> QED BY <2>1, <3>1, Zenon
  <2> QED BY <2>2 DEF Placed, InPlace, Shows, TreeShows
<1>2. WorkspaceSpec => []ShellInv
  BY ShellAtFirst, ShellStays, PTL DEF WorkspaceSpec
<1> QED BY <1>1, <1>2, AlwaysPlaced, PTL

\* A note is locked only when all its text is saved, as long as nothing moved
\* under a flow that was waiting: whatever the timer, the button and the flows do.
THEOREM LockedIsSaved == WorkspaceSpec => []LockedTextIsSaved
<1>1. Placed => LockedTextIsSaved
  BY DEF Placed, InPlace, LockedTextIsSaved
<1> QED BY <1>1, AlwaysPlaced, PTL
=============================================================================
