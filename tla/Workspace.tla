------------------------------ MODULE Workspace ------------------------------
(***************************************************************************)
(* The workspace of the browser (frontend/src/App.tsx, app/autoLock.ts):   *)
(* tabs, the selected note and its mode, the tree, the vault, and the      *)
(* automatic lock.  What saving does is in DraftEditor; here saveDraft is  *)
(* a wait whose outcome is that all text is saved, or that it is not.      *)
(*                                                                         *)
(* A gesture starts a flow of calls that goes on after each await with     *)
(* the tabs, the selection and the mode of the render it started from: its *)
(* closure.  Setters given a function see the current tabs instead.        *)
(***************************************************************************)
EXTENDS Naturals, Sequences, FiniteSets

CONSTANTS
  Note, NoNote,    \* paths
  Notebook,        \* vaults, as the code calls them
  FirstNotebook,
  InitiallyStored, \* notebook -> its notes at first
  Flow,            \* slots for flows of calls
  MaxGestures      \* bound: gestures that start a flow

ASSUME WorkspaceAssumption ==
  /\ NoNote \notin Note
  /\ FirstNotebook \in Notebook
  /\ InitiallyStored \in [Notebook -> SUBSET Note]
  /\ MaxGestures \in Nat

VARIABLES
  stored,      \* the server: vault -> its notes
  vault,       \* activeNotebookID, and the vault the server has active
  tree,        \* entries
  treeFailed,  \* treeError
  tabs,
  selected,    \* selectedPath
  readOnly,
  openDraft,   \* activeDraft: the note, its vault, whether it has unsaved text
  noteLoading,
  autoLock,    \* autoLockMinutes is not 0
  armed,       \* the controller has a timer
  flow,
  gestures,
  crossed,     \* history: tabs, selection, mode or vault changed under a flow
  lockGaveUp   \* history: the timer ran out and the save that came first failed

shellVars == <<stored, vault, tree, treeFailed, tabs, selected, readOnly, openDraft, noteLoading,
               autoLock, armed, flow, gestures, crossed, lockGaveUp>>

-----------------------------------------------------------------------------
Tab == [path: Note, readOnly: BOOLEAN]
NoOpenDraft == [path |-> NoNote, of |-> CHOOSE v \in Notebook : TRUE, dirty |-> FALSE]

\* "saving": saveDraft.  "loading": GET of the note.  "acting": the request that
\* moves, deletes, creates or activates.  "tree", "told": loadTree, before and
\* after the server answered with read.  then: the mode that performMove gives the
\* note it opens again.  of, tabs, selected: the closure.
NotRunning == [op |-> "none", at |-> "no", path |-> NoNote, target |-> NoNote, other |-> FALSE, typed |-> FALSE,
               then |-> "none", read |-> {}, of |-> CHOOSE v \in Notebook : TRUE, tabs |-> <<>>, selected |-> NoNote]

TabOf(list, path) == {i \in DOMAIN list : list[i].path = path}
HasTab(list, path) == TabOf(list, path) # {}
ModeOf(list, path) == \E i \in TabOf(list, path) : list[i].readOnly

\* The tabs of the other notes, in their order: the k-th is the one with k - 1
\* before it.
Without(list, path) ==
  LET left == DOMAIN list \ TabOf(list, path)
      Before(i) == Cardinality({j \in left : j < i})
  IN  [k \in 1..Cardinality(left) |-> list[CHOOSE i \in left : Before(i) = k - 1]]

Mapped(list, Change(_)) == [i \in DOMAIN list |-> Change(list[i])]

\* Mutant: the mode is not kept in the tab.
MutWithMode(list, path, mode) == list

\* updateReadOnly's share in the tabs.
WithMode(list, path, mode) == Mapped(list, LAMBDA tab : IF tab.path = path THEN [tab EXCEPT !.readOnly = mode] ELSE tab)

\* The workspace at rest: no note is open, or two are.
WorkspaceInit ==
  /\ stored = InitiallyStored
  /\ vault = FirstNotebook
  /\ tree = stored[vault]
  /\ tabs \in {<<>>} \cup {list \in [1..2 -> Tab] : list[1].path # list[2].path}
  /\ \A i \in DOMAIN tabs : tabs[i].path \in stored[vault]
  /\ selected = IF tabs = <<>> THEN NoNote ELSE tabs[1].path
  /\ readOnly = ModeOf(tabs, selected)
  /\ openDraft = [path |-> selected, of |-> vault, dirty |-> FALSE]
  /\ autoLock = TRUE
  /\ armed = (autoLock /\ selected # NoNote /\ ~readOnly)
  /\ flow = [c \in Flow |-> NotRunning]
  /\ gestures = 0
  /\ noteLoading = FALSE /\ treeFailed = FALSE /\ crossed = FALSE /\ lockGaveUp = FALSE

-----------------------------------------------------------------------------
(* What a turn leaves behind. *)
Others(c) == \E d \in Flow \ {c} : flow[d].op \notin {"none", "lock"}

\* Tabs, selection and mode after a turn of flow c.  When the selection or the
\* mode changed, the controller is updated and starts its timer again.
Rendered(c, list, path, mode) ==
  /\ tabs' = list /\ selected' = path /\ readOnly' = mode
  /\ armed' = IF path # selected \/ mode # readOnly THEN autoLock /\ path # NoNote /\ ~mode ELSE armed
  /\ lockGaveUp' = (lockGaveUp /\ path = selected /\ mode = readOnly)
  /\ crossed' = (crossed \/ (Others(c) /\ <<list, path, mode, vault', stored'>> # <<tabs, selected, readOnly, vault, stored>>))

SamePlace == UNCHANGED <<vault, tabs, selected, readOnly, armed, crossed, lockGaveUp>>
SameNotes == UNCHANGED <<stored, vault, tree, treeFailed>>

Becomes(c, record) == flow' = [flow EXCEPT ![c] = record]

\* The flow is over.  performMove sets the mode even when openNote gave up.
Over(c) ==
  /\ Becomes(c, NotRunning)
  /\ IF flow[c].then = "none" THEN Rendered(c, tabs, selected, readOnly)
     ELSE Rendered(c, WithMode(tabs, flow[c].path, flow[c].then = "locked"), selected, flow[c].then = "locked")

\* A flow with nothing to save goes on in the turn it is in.
Settled == \A c \in Flow : flow[c].at = "saving" => openDraft.dirty

Starts(c, op, at, path, target, other) ==
  /\ Settled
  /\ flow[c].op = "none"
  /\ gestures < MaxGestures /\ gestures' = gestures + 1
  /\ Becomes(c, [NotRunning EXCEPT !.op = op, !.at = at, !.path = path, !.target = target, !.other = other,
                   !.of = vault, !.tabs = tabs, !.selected = selected])
  /\ SamePlace /\ UNCHANGED <<stored, tree, openDraft, noteLoading, autoLock>>

-----------------------------------------------------------------------------
(* Gestures. *)
\* The tree, a search result, a link or a tab.
OpenPath(c) == \E path \in tree \cup {tabs[i].path : i \in DOMAIN tabs}, other \in BOOLEAN :
  /\ path # selected
  /\ Starts(c, "open", "saving", path, NoNote, other) /\ UNCHANGED treeFailed

CloseSelectedTab(c) ==
  /\ HasTab(tabs, selected)
  /\ Starts(c, "close", "saving", selected, NoNote, FALSE) /\ UNCHANGED treeFailed

CloseOtherTab == \E i \in DOMAIN tabs :
  /\ Settled
  /\ tabs[i].path # selected
  /\ SameNotes /\ UNCHANGED <<openDraft, noteLoading, autoLock, flow, gestures>>
  /\ \E c \in Flow : flow[c].op = "none" /\ Rendered(c, Without(tabs, tabs[i].path), selected, readOnly)

\* A rename, a move, and a move confirmed after the preview of its links.
MoveNote(c) == \E path \in tree, target \in Note :
  path # target /\ Starts(c, "move", "saving", path, target, FALSE) /\ UNCHANGED treeFailed

DeleteNote(c) == \E path \in tree : Starts(c, "delete", "saving", path, NoNote, FALSE) /\ UNCHANGED treeFailed

CreateNote(c) == \E path \in Note : Starts(c, "create", "acting", path, NoNote, FALSE) /\ UNCHANGED treeFailed

SwitchVault(c) == \E v \in Notebook \ {vault} :
  /\ Starts(c, "switch", "saving", NoNote, NoNote, FALSE) /\ UNCHANGED treeFailed

\* Nothing is saved before a vault is created.
CreateVault(c) == Starts(c, "vault", "acting", NoNote, NoNote, FALSE) /\ UNCHANGED treeFailed

RefreshTree(c) == Starts(c, "refresh", "tree", NoNote, NoNote, FALSE) /\ treeFailed' = FALSE

\* Mutant: the note is locked before it is saved.
MutLock(c) ==
  /\ Settled
  /\ flow[c].op = "none" /\ selected # NoNote /\ ~readOnly
  /\ gestures < MaxGestures /\ gestures' = gestures + 1
  /\ SameNotes /\ UNCHANGED <<openDraft, noteLoading, autoLock, flow>>
  /\ Rendered(c, WithMode(tabs, selected, TRUE), selected, TRUE)

Lock(c) == selected # NoNote /\ ~readOnly /\ Starts(c, "toggle", "saving", selected, NoNote, FALSE) /\ UNCHANGED treeFailed

Unlock(c) ==
  /\ Settled
  /\ flow[c].op = "none" /\ selected # NoNote /\ readOnly
  /\ gestures < MaxGestures /\ gestures' = gestures + 1
  /\ SameNotes /\ UNCHANGED <<openDraft, noteLoading, autoLock, flow>>
  /\ Rendered(c, WithMode(tabs, selected, FALSE), selected, FALSE)

\* Mutant: typing is no activity for the automatic lock.
MutTypeInNote ==
  /\ Settled
  /\ selected # NoNote /\ ~readOnly /\ ~noteLoading
  /\ openDraft' = [openDraft EXCEPT !.dirty = TRUE]
  /\ flow' = [c \in Flow |-> IF flow[c].op = "lock" THEN [flow[c] EXCEPT !.typed = TRUE] ELSE flow[c]]
  /\ lockGaveUp' = FALSE
  /\ SameNotes /\ UNCHANGED <<tabs, selected, readOnly, armed, noteLoading, autoLock, gestures, crossed>>

TypeInNote ==
  /\ Settled
  /\ selected # NoNote /\ ~readOnly /\ ~noteLoading
  /\ openDraft' = [openDraft EXCEPT !.dirty = TRUE]
  /\ armed' = autoLock
  /\ flow' = [c \in Flow |-> IF flow[c].op = "lock" THEN [flow[c] EXCEPT !.typed = TRUE] ELSE flow[c]]
  /\ lockGaveUp' = FALSE
  /\ SameNotes /\ UNCHANGED <<tabs, selected, readOnly, noteLoading, autoLock, gestures, crossed>>

Autosave ==
  /\ Settled
  /\ openDraft.dirty
  /\ openDraft' = [openDraft EXCEPT !.dirty = FALSE]
  /\ SamePlace /\ UNCHANGED <<stored, tree, treeFailed, noteLoading, autoLock, flow, gestures>>

SetAutoLock ==
  /\ Settled
  /\ gestures < MaxGestures /\ gestures' = gestures + 1
  /\ autoLock' = ~autoLock
  /\ armed' = (autoLock' /\ selected # NoNote /\ ~readOnly)
  /\ lockGaveUp' = FALSE
  /\ SameNotes /\ UNCHANGED <<tabs, selected, readOnly, openDraft, noteLoading, flow, crossed>>

LockExpires(c) ==
  /\ Settled
  /\ armed /\ armed' = FALSE
  /\ flow[c].op = "none"
  /\ Becomes(c, [NotRunning EXCEPT !.op = "lock", !.at = "saving", !.path = selected])
  /\ SameNotes /\ UNCHANGED <<tabs, selected, readOnly, openDraft, noteLoading, autoLock, gestures, crossed, lockGaveUp>>

-----------------------------------------------------------------------------
(* saveDraft returned true: the rest of the turn. *)
NextTab(list, i) == IF list = <<>> THEN NoNote ELSE list[IF i > Len(list) THEN Len(list) ELSE i].path
IndexIn(list, path) == IF HasTab(list, path) THEN CHOOSE i \in TabOf(list, path) : TRUE ELSE 1

Locks(c, path) == Rendered(c, WithMode(tabs, path, TRUE), selected, TRUE)

DraftSaved(c) ==
  LET me == flow[c]
      left == Without(me.tabs, me.path)
      next == NextTab(left, IndexIn(me.tabs, me.path))
      saved == [openDraft EXCEPT !.dirty = FALSE]
  IN  /\ me.at = "saving"
      /\ SameNotes /\ UNCHANGED <<autoLock, gestures>>
      /\ \/ /\ me.op = "open"
            /\ Becomes(c, [me EXCEPT !.at = "loading"])
            /\ noteLoading' = TRUE /\ openDraft' = saved
            /\ Rendered(c, tabs, selected, readOnly)
         \/ /\ me.op = "close"
            /\ Becomes(c, IF next = NoNote THEN NotRunning ELSE [me EXCEPT !.op = "open", !.at = "loading", !.path = next])
            /\ noteLoading' = (noteLoading \/ next # NoNote) /\ openDraft' = NoOpenDraft
            /\ Rendered(c, left, NoNote, readOnly)
         \/ /\ me.op \in {"move", "delete", "switch"}
            /\ Becomes(c, [me EXCEPT !.at = "acting"])
            /\ openDraft' = saved /\ UNCHANGED noteLoading
            /\ Rendered(c, tabs, selected, readOnly)
         \/ /\ me.op = "toggle" \/ (me.op = "lock" /\ openDraft.path = me.path /\ ~me.typed)
            /\ Becomes(c, NotRunning)
            /\ openDraft' = saved /\ UNCHANGED noteLoading
            /\ Locks(c, me.path)
         \/ /\ me.op = "lock" /\ (openDraft.path # me.path \/ me.typed)
            /\ Becomes(c, NotRunning)
            /\ openDraft' = saved /\ UNCHANGED noteLoading
            /\ Rendered(c, tabs, selected, readOnly)

DraftNotSaved(c) ==
  /\ flow[c].at = "saving" /\ openDraft.dirty
  /\ SameNotes /\ UNCHANGED <<openDraft, noteLoading, autoLock, gestures>>
  /\ IF flow[c].op = "lock"
     THEN /\ Becomes(c, NotRunning)
          /\ lockGaveUp' = TRUE
          /\ UNCHANGED <<tabs, selected, readOnly, armed, crossed>>
     ELSE Over(c)

-----------------------------------------------------------------------------
(* Answers. *)
\* The vault the GET was answered for may be the one that was active before.
NoteArrives(c) == \E v \in {flow[c].of, vault} :
  LET me == flow[c]
      tab == [path |-> me.path, readOnly |-> FALSE]
      opened == IF HasTab(tabs, me.path) THEN tabs
                ELSE IF me.other \/ me.selected = NoNote \/ tabs = <<>> THEN Append(tabs, tab)
                ELSE Mapped(tabs, LAMBDA t : IF t.path = me.selected THEN tab ELSE t)
      mode == IF me.then = "none" THEN ModeOf(me.tabs, me.path) ELSE me.then = "locked"
  IN  /\ Settled
      /\ me.at = "loading"
      /\ me.path \in stored[v]
      /\ openDraft' = [path |-> me.path, of |-> v, dirty |-> FALSE]
      /\ noteLoading' = FALSE
      /\ Becomes(c, NotRunning)
      /\ SameNotes /\ UNCHANGED <<autoLock, gestures>>
      /\ Rendered(c, WithMode(opened, me.path, mode), me.path, mode)

NoteDoesNotArrive(c) ==
  /\ Settled
  /\ flow[c].at = "loading"
  /\ noteLoading' = FALSE
  /\ SameNotes /\ UNCHANGED <<openDraft, autoLock, gestures>>
  /\ Over(c)

\* loadTree after the request: opened (or nothing) is what follows it.
Reloads(c, opened, then) == Becomes(c, [flow[c] EXCEPT !.at = "tree", !.path = opened, !.then = then]) /\ treeFailed' = FALSE

NoteMoved(c) ==
  LET me == flow[c]
      affected == me.selected = me.path
  IN  /\ Settled
      /\ me.at = "acting" /\ me.op = "move"
      /\ me.path \in stored[vault] /\ me.target \notin stored[vault]
      /\ stored' = [stored EXCEPT ![vault] = (@ \ {me.path}) \cup {me.target}]
      /\ openDraft' = IF affected THEN NoOpenDraft ELSE openDraft
      /\ Reloads(c, IF affected THEN me.target ELSE NoNote,
                 IF ~affected THEN "none" ELSE IF ModeOf(me.tabs, me.path) THEN "locked" ELSE "open")
      /\ UNCHANGED <<vault, tree, noteLoading, autoLock, gestures>>
      /\ Rendered(c, Mapped(tabs, LAMBDA t : IF t.path = me.path THEN [t EXCEPT !.path = me.target] ELSE t),
                  IF affected THEN NoNote ELSE selected, readOnly)

NoteDeleted(c) ==
  LET me == flow[c]
      affected == me.selected = me.path
      left == Without(me.tabs, me.path)
  IN  /\ Settled
      /\ me.at = "acting" /\ me.op = "delete"
      /\ me.path \in stored[vault]
      /\ stored' = [stored EXCEPT ![vault] = @ \ {me.path}]
      /\ openDraft' = IF affected THEN NoOpenDraft ELSE openDraft
      /\ Reloads(c, IF affected THEN NextTab(left, IndexIn(me.tabs, me.selected)) ELSE NoNote, "none")
      /\ UNCHANGED <<vault, tree, noteLoading, autoLock, gestures>>
      /\ Rendered(c, left, IF affected THEN NoNote ELSE selected, readOnly)

Created(c) ==
  LET me == flow[c]
  IN  /\ Settled
      /\ me.at = "acting" /\ me.op = "create"
      /\ me.path \notin stored[vault]
      /\ stored' = [stored EXCEPT ![vault] = @ \cup {me.path}]
      /\ Reloads(c, me.path, "none")
      /\ UNCHANGED <<vault, tree, openDraft, noteLoading, autoLock, gestures>>
      /\ Rendered(c, tabs, selected, readOnly)

\* Mutant: the draft of the other vault stays.
MutSwitched(c) ==
  /\ Settled
  /\ flow[c].at = "acting" /\ flow[c].op \in {"switch", "vault"}
  /\ vault' \in Notebook \ {vault}
  /\ tree' = IF flow[c].op = "switch" THEN {} ELSE tree
  /\ Reloads(c, NoNote, "none")
  /\ UNCHANGED <<stored, openDraft, noteLoading, autoLock, gestures>>
  /\ Rendered(c, <<>>, NoNote, readOnly)

\* switchNotebook, or activateCreatedVault, which leaves the tree as it is until
\* the new one is loaded.
Switched(c) ==
  /\ Settled
  /\ flow[c].at = "acting" /\ flow[c].op \in {"switch", "vault"}
  /\ vault' \in Notebook \ {vault}
  /\ tree' = IF flow[c].op = "switch" THEN {} ELSE tree
  /\ openDraft' = NoOpenDraft
  /\ Reloads(c, NoNote, "none")
  /\ UNCHANGED <<stored, noteLoading, autoLock, gestures>>
  /\ Rendered(c, <<>>, NoNote, readOnly)

\* Refused, lost, or a move whose links are to be confirmed first.
NotDone(c) ==
  /\ Settled
  /\ flow[c].at = "acting"
  /\ SameNotes /\ UNCHANGED <<openDraft, noteLoading, autoLock, gestures>>
  /\ Over(c)

TreeRead(c) ==
  /\ Settled
  /\ flow[c].at = "tree"
  /\ Becomes(c, [flow[c] EXCEPT !.at = "told", !.read = stored[vault]])
  /\ SamePlace /\ UNCHANGED <<stored, tree, treeFailed, openDraft, noteLoading, autoLock, gestures>>

TreeHeard(c) ==
  LET me == flow[c]
  IN  /\ Settled
      /\ me.at = "told"
      /\ \/ tree' = me.read /\ UNCHANGED treeFailed
         \/ treeFailed' = TRUE /\ UNCHANGED tree
      /\ UNCHANGED <<stored, vault, openDraft, noteLoading, autoLock, gestures>>
      /\ IF me.path = NoNote \/ me.path = me.selected THEN Over(c)
         ELSE Becomes(c, [me EXCEPT !.op = "open", !.at = "saving", !.read = {}]) /\ Rendered(c, tabs, selected, readOnly)

-----------------------------------------------------------------------------
FlowStarts(c) ==
  \/ OpenPath(c) \/ CloseSelectedTab(c) \/ MoveNote(c) \/ DeleteNote(c) \/ CreateNote(c)
  \/ SwitchVault(c) \/ CreateVault(c) \/ RefreshTree(c) \/ Lock(c) \/ Unlock(c)

Resumes(c) ==
  \/ DraftSaved(c) \/ DraftNotSaved(c) \/ NoteArrives(c) \/ NoteDoesNotArrive(c)
  \/ NoteMoved(c) \/ NoteDeleted(c) \/ Created(c) \/ Switched(c) \/ NotDone(c)
  \/ TreeRead(c) \/ TreeHeard(c)

WorkspaceNext ==
  \/ CloseOtherTab \/ TypeInNote \/ Autosave \/ SetAutoLock
  \/ \E c \in Flow : FlowStarts(c) \/ Resumes(c) \/ LockExpires(c)

-----------------------------------------------------------------------------
\* The draft and the selection are a ref and a state set in many places: they
\* name the same note at the end of every turn, whatever flows overlap, so
\* that typing never goes to the draft of another note.
OneNoteOpen == openDraft.path = selected

\* As long as nothing moved under a flow that was waiting, the selected note
\* has its tab, the mode is the tab's, the note is one of the active vault, and
\* the tree shows the notes there are unless it says that loading it failed.
NotesArePlaced ==
  ~crossed =>
    /\ selected # NoNote => HasTab(tabs, selected) /\ ModeOf(tabs, selected) = readOnly /\ openDraft.of = vault
    /\ (\A c \in Flow : flow[c].at \notin {"tree", "told"}) => tree = stored[vault] \/ treeFailed

\* Locking goes after saving: text that is not saved is in a note that can be
\* edited and saved by hand.
LockedTextIsSaved == ~crossed /\ readOnly => ~openDraft.dirty

\* An open note that may be edited is going to be locked, however its
\* selection, its mode and the setting changed, unless the save before the last
\* attempt failed and nothing was typed since.
LockIsComing ==
  autoLock /\ selected # NoNote /\ ~readOnly =>
    armed \/ lockGaveUp \/ \E c \in Flow : flow[c].op = "lock"
=============================================================================
