----------------------------- MODULE DraftEditor -----------------------------
(***************************************************************************)
(* The note editor in the browser (frontend/src/App.tsx): the draft of the *)
(* open note, autosave, opening, closing, moving and deleting notes, and   *)
(* the choice after a conflict, against a server that compares versions.   *)
(*                                                                         *)
(* Every user gesture, timer and response starts a turn of the event loop. *)
(* A turn runs until everything it resumed awaits something again, and no  *)
(* other turn comes in between.  A chain of async calls is a task here; a  *)
(* step runs one task from one await to the next.                          *)
(*                                                                         *)
(* A text stands for the content of a note and for its version, which is   *)
(* its hash.  Typing and other sessions make texts never seen before.      *)
(* Milkdown tells of a change some time after the keystroke (its listener  *)
(* waits for a pause), and tells nothing once the editor is destroyed.     *)
(***************************************************************************)
EXTENDS Naturals

CONSTANTS
  Path, NoPath,
  Absent,     \* no file at the path
  Task,       \* slots for chains of async calls
  NoTask,
  MaxText,    \* bound: texts made after the first
  MaxChains   \* bound: chains of calls begun by gestures

ASSUME EditorAssumption ==
  /\ NoPath \notin Path
  /\ NoTask \notin Task
  /\ Absent \notin Nat
  /\ MaxText \in Nat
  /\ MaxChains \in Nat

VARIABLES
  file,      \* the server: path -> text or Absent
  draft,     \* activeDraft: path, content, and the saved content it is based on
  shown,     \* the text in the mounted editor
  heard,     \* the editor has told updateDraft of its text
  timer,     \* whether saveTimer is set
  saving,    \* the task whose request savePromise holds
  status,    \* saveStatus
  conflict,  \* saveConflict: path, text of the server, text of the browser
  loading,   \* noteLoading
  task,
  top,       \* the last text made
  begun,     \* the number of chains begun by gestures
  seen,      \* history: the texts the user has had on screen
  hidden,    \* history: the texts loaded under an editor that kept its own
  onlyHere,  \* history: texts typed that the server never stored
  gaveUp     \* history: saveDraft returned false since the draft was loaded or saved

draftVars == <<file, draft, shown, heard, timer, saving, status, conflict, loading, task, top, begun,
          seen, hidden, onlyHere, gaveUp>>

-----------------------------------------------------------------------------
Text == 0..MaxText

Draft == [path: Path \cup {NoPath}, content: Text, saved: Text]
NoDraft == [path |-> NoPath, content |-> 0, saved |-> 0]

Pending == [path: Path \cup {NoPath}, server: Text, yours: Text]
NoConflict == [path |-> NoPath, server |-> 0, yours |-> 0]

\* "check" and "go": resumed in this turn, after waiting for a save and after
\* saveDraft returned true.  "waiting": for the save of another task.  The
\* others await a response: to the PUT, to the GET after a conflict, to the GET
\* of a note, to a move or deletion, to the tree that is loaded after it, to
\* resolve-conflict, and to the GET when that failed.
DraftPC == {"idle", "check", "go", "waiting", "put", "read", "load", "act", "tree", "resolve", "reread"}

Requests == {"put", "read", "load", "act", "resolve", "reread"}

\* path, next: what the chain was asked to do.  affected: it concerns the note
\* that was open when it began.  note, text, base: what a save or a resolution
\* sends; yours: the browser text a resolution began with.  on: the save it
\* waits for.  answer, got: the response on its way.  late (history): the user
\* typed what its saveDraft could not save, or had not heard of.
TaskState ==
  [pc: DraftPC, op: {"none", "save", "open", "close", "move", "delete", "resolve"},
   path: Path \cup {NoPath}, next: Path \cup {NoPath}, affected: BOOLEAN,
   note: Path \cup {NoPath}, text: Text, base: Text, yours: Text, on: Task \cup {NoTask},
   answer: {"none", "ok", "conflict", "failed"}, got: Text, late: BOOLEAN]

Idle == [pc |-> "idle", op |-> "none", path |-> NoPath, next |-> NoPath, affected |-> FALSE,
         note |-> NoPath, text |-> 0, base |-> 0, yours |-> 0, on |-> NoTask,
         answer |-> "none", got |-> 0, late |-> FALSE]

DraftTypeOK ==
  /\ file \in [Path -> Text \cup {Absent}]
  /\ draft \in Draft
  /\ shown \in Text /\ heard \in BOOLEAN
  /\ timer \in BOOLEAN
  /\ saving \in Task \cup {NoTask}
  /\ status \in {"saved", "unsaved", "saving", "error", "conflict"}
  /\ conflict \in Pending
  /\ loading \in BOOLEAN
  /\ task \in [Task -> TaskState]
  /\ \A t \in Task : task[t].op = "open" => task[t].path \in Path
  /\ top \in Text
  /\ begun \in 0..MaxChains
  /\ seen \subseteq Text /\ hidden \subseteq Text /\ onlyHere \subseteq Text
  /\ gaveUp \in BOOLEAN

\* A note, and perhaps another; none is open.
DraftInit ==
  /\ file \in [Path -> {0, Absent}] /\ \E p \in Path : file[p] = 0
  /\ draft = NoDraft /\ shown = 0 /\ heard = TRUE
  /\ timer = FALSE /\ saving = NoTask /\ status = "saved"
  /\ conflict = NoConflict /\ loading = FALSE
  /\ task = [t \in Task |-> Idle]
  /\ top = 0 /\ begun = 0 /\ seen = {} /\ hidden = {} /\ onlyHere = {}
  /\ gaveUp = FALSE

-----------------------------------------------------------------------------
(* The event loop.                                                         *)

At(t, pc) == task[t].pc = pc

\* A turn has ended: the next gesture, timer or response may come.
Rest == \A t \in Task : task[t].pc \notin {"check", "go"}

Unsaved(d) == d.path # NoPath /\ d.content # d.saved

\* The editor is on the page; shown is 0 while it is not.
Mounted == draft.path # NoPath /\ ~loading

\* A component key that stays the same keeps the editor, its text and what it has
\* not told yet.  Another key mounts a new editor, and what the old one had not
\* told is gone.
Kept(p) == Mounted /\ draft.path = p
Show(p, text) ==
  IF Kept(p) THEN UNCHANGED <<shown, heard>> ELSE shown' = text /\ heard' = TRUE

Saw(text) == seen' = seen \cup {text}

Become(t, chain) == task' = [task EXCEPT ![t] = chain]

client == <<draft, shown, heard, timer, saving, status, conflict, loading, gaveUp>>
world == <<file, top, begun, seen, hidden, onlyHere>>

-----------------------------------------------------------------------------
(* saveDraft.                                                              *)

\* The PUT goes out with a snapshot of the draft d.
Put(chain, d) ==
  [chain EXCEPT !.pc = "put", !.note = d.path, !.text = d.content, !.base = d.saved,
                !.on = NoTask, !.answer = "none", !.late = FALSE]

\* saveDraft has returned true, of what it has heard of the draft d: the autosave
\* ends, the other callers go on.
Go(chain, d) ==
  IF chain.op = "save" THEN Idle
  ELSE [chain EXCEPT !.pc = "go", !.note = NoPath, !.text = 0, !.base = 0, !.on = NoTask,
                     !.answer = "none", !.late = @ \/ (d.path # NoPath /\ ~heard)]

\* saveDraft with the draft d as far as it gets at once.  It waits for a save
\* under way; one that reads the other version after a conflict has failed, so
\* that waiting for it returns false.
SaveDraft(chain, d) ==
  IF saving # NoTask
  THEN IF At(saving, "put") THEN [chain EXCEPT !.pc = "waiting", !.on = saving] ELSE Idle
  ELSE IF Unsaved(d) THEN Put(chain, d) ELSE Go(chain, d)

Reports(t, chain) ==
  /\ saving' = IF chain.pc = "put" THEN t ELSE saving
  /\ status' = IF chain.pc = "put" THEN "saving" ELSE IF chain.pc = "waiting" THEN status ELSE "saved"

\* A chain of calls begins, or goes on, with saveDraft.
Call(t, chain) ==
  LET then == SaveDraft([chain EXCEPT !.late = FALSE], draft)
      refused == saving # NoTask /\ ~At(saving, "put")
  IN
  /\ Become(t, then)
  /\ timer' = FALSE
  /\ gaveUp' = (gaveUp \/ refused)
  /\ IF refused THEN UNCHANGED <<saving, status>> ELSE Reports(t, then)
  /\ UNCHANGED <<draft, shown, heard, conflict, loading, file, top, seen, hidden, onlyHere>>

\* The save that was awaited is taken to have saved everything.
MutSaveCheck(t) ==
  /\ At(t, "check")
  /\ Become(t, Go(task[t], draft)) /\ Reports(t, Go(task[t], draft))
  /\ UNCHANGED <<draft, shown, heard, timer, conflict, loading, gaveUp, world>>

\* After the wait the draft is looked at again, but not savePromise.
SaveCheck(t) ==
  LET then == IF Unsaved(draft) THEN Put(task[t], draft) ELSE Go(task[t], draft) IN
  /\ At(t, "check")
  /\ Become(t, then) /\ Reports(t, then)
  /\ UNCHANGED <<draft, shown, heard, timer, conflict, loading, gaveUp, world>>

\* The save of t is over.  Tasks that wait for it resume, or return false, which
\* ends every chain.
Settle(t, own, resumed) ==
  task' = [u \in Task |->
    IF u = t THEN own
    ELSE IF ~(At(u, "waiting") /\ task[u].on = t) THEN task[u]
    ELSE IF resumed THEN [task[u] EXCEPT !.pc = "check", !.on = NoTask] ELSE Idle]

\* The end of a save clears the timer, of whichever note it is.
MutSaveSucceeds(t) ==
  LET same == draft.path = task[t].note
      after == IF same THEN [draft EXCEPT !.saved = task[t].text] ELSE draft
      again == same /\ Unsaved(after)
  IN
  /\ Rest
  /\ At(t, "put") /\ task[t].answer = "ok"
  /\ draft' = after /\ timer' = FALSE
  /\ gaveUp' = (gaveUp /\ ~same)
  /\ IF again
     THEN Settle(t, Put(task[t], after), TRUE) /\ saving' = t /\ status' = "saving"
     ELSE Settle(t, Go(task[t], draft), TRUE) /\ saving' = NoTask /\ status' = "saved"
  /\ UNCHANGED <<shown, heard, conflict, loading, world>>

\* The snapshot is the saved content now; if the draft has moved on, once more.
SaveSucceeds(t) ==
  LET same == draft.path = task[t].note
      after == IF same THEN [draft EXCEPT !.saved = task[t].text] ELSE draft
      again == same /\ Unsaved(after)
  IN
  /\ Rest
  /\ At(t, "put") /\ task[t].answer = "ok"
  /\ draft' = after
  /\ gaveUp' = (gaveUp /\ ~same)
  /\ IF again
     THEN Settle(t, Put(task[t], after), TRUE) /\ saving' = t /\ status' = "saving" /\ timer' = FALSE
     ELSE Settle(t, Go(task[t], draft), TRUE) /\ saving' = NoTask /\ status' = "saved" /\ UNCHANGED timer
  /\ UNCHANGED <<shown, heard, conflict, loading, world>>

\* 409: the text of the server is fetched before savePromise is cleared.
SaveConflicts(t) ==
  /\ Rest
  /\ At(t, "put") /\ task[t].answer = "conflict"
  /\ status' = "conflict" /\ gaveUp' = TRUE
  /\ Settle(t, [Idle EXCEPT !.pc = "read", !.op = "save", !.note = task[t].note,
                            !.text = task[t].text], FALSE)
  /\ UNCHANGED <<draft, shown, heard, timer, saving, conflict, loading, world>>

\* The version of the server is taken over for another try, and nobody is asked.
MutConflictRead(t) ==
  /\ Rest
  /\ At(t, "read") /\ task[t].answer # "none"
  /\ draft' = IF task[t].answer = "ok" THEN [draft EXCEPT !.saved = task[t].got] ELSE draft
  /\ saving' = NoTask
  /\ Become(t, Idle)
  /\ UNCHANGED <<shown, heard, timer, status, conflict, loading, gaveUp, world>>

ConflictRead(t) ==
  /\ Rest
  /\ At(t, "read") /\ task[t].answer # "none"
  /\ IF task[t].answer = "ok"
     THEN /\ conflict' = [path |-> task[t].note, server |-> task[t].got, yours |-> task[t].text]
          /\ Saw(task[t].got)
     ELSE UNCHANGED <<conflict, seen>>
  /\ saving' = NoTask
  /\ Become(t, Idle)
  /\ UNCHANGED <<draft, shown, heard, timer, status, loading, gaveUp, file, top, begun, hidden, onlyHere>>

SaveFails(t) ==
  /\ Rest
  /\ At(t, "put") /\ task[t].answer = "failed"
  /\ status' = "error" /\ saving' = NoTask /\ gaveUp' = TRUE
  /\ Settle(t, Idle, FALSE)
  /\ UNCHANGED <<draft, shown, heard, timer, conflict, loading, world>>

-----------------------------------------------------------------------------
(* After saveDraft has returned true.                                      *)

\* A caller goes on after every saveDraft that resumed with it.
Returns(t) == At(t, "go") /\ \A u \in Task : ~At(u, "check")

\* The editor goes with the draft.
DropDraft == draft' = NoDraft /\ shown' = 0 /\ heard' = TRUE

\* openNote fetches the note; there is no editor until it has come.
OpenNote(t) ==
  /\ Returns(t) /\ task[t].op = "open"
  /\ loading' = TRUE /\ shown' = 0 /\ heard' = TRUE
  /\ Become(t, [task[t] EXCEPT !.pc = "load"])
  /\ UNCHANGED <<draft, timer, saving, status, conflict, gaveUp, world>>

\* closeTab goes on with openNote for the tab beside it, if there is one.
CloseTab(t) ==
  LET p == task[t].next IN
  /\ Returns(t) /\ task[t].op = "close"
  /\ DropDraft /\ status' = "saved" /\ gaveUp' = FALSE
  /\ IF p = NoPath
     THEN Become(t, Idle) /\ UNCHANGED timer
     ELSE Become(t, SaveDraft([Idle EXCEPT !.op = "open", !.path = p], NoDraft)) /\ timer' = FALSE
  /\ UNCHANGED <<saving, conflict, loading, world>>

\* performMove and deleteEntry send their request.
Act(t) ==
  /\ Returns(t) /\ task[t].op \in {"move", "delete"}
  /\ Become(t, [task[t] EXCEPT !.pc = "act"])
  /\ UNCHANGED <<client, world>>

NoteLoaded(t) ==
  LET p == task[t].path IN
  /\ Rest
  /\ At(t, "load") /\ task[t].answer # "none"
  /\ loading' = FALSE
  /\ IF task[t].answer = "ok"
     THEN /\ draft' = [path |-> p, content |-> task[t].got, saved |-> task[t].got]
          /\ Show(p, task[t].got)
          /\ IF Kept(p) THEN hidden' = hidden \cup {task[t].got} /\ UNCHANGED seen
                       ELSE Saw(task[t].got) /\ UNCHANGED hidden
          /\ status' = "saved" /\ gaveUp' = FALSE
     ELSE /\ IF loading /\ draft.path # NoPath
             THEN shown' = draft.content /\ Saw(draft.content)
             ELSE UNCHANGED <<shown, seen>>
          /\ UNCHANGED <<draft, heard, status, hidden, gaveUp>>
  /\ Become(t, Idle)
  /\ UNCHANGED <<timer, saving, conflict, file, top, begun, onlyHere>>

\* The note that was open when the move or deletion began is closed.
ActDone(t) ==
  /\ Rest
  /\ At(t, "act") /\ task[t].answer # "none"
  /\ IF task[t].answer = "ok" /\ task[t].affected
     THEN /\ DropDraft /\ gaveUp' = FALSE
          /\ status' = IF task[t].op = "delete" THEN "saved" ELSE status
          /\ Become(t, [task[t] EXCEPT !.pc = "tree", !.answer = "none"])
     ELSE Become(t, Idle) /\ UNCHANGED <<draft, shown, heard, status, gaveUp>>
  /\ UNCHANGED <<timer, saving, conflict, loading, world>>

\* A tab is opened after a deletion even if none is left.
MutTreeLoaded(t) ==
  /\ Rest
  /\ At(t, "tree")
  /\ Call(t, [Idle EXCEPT !.op = "open", !.path = task[t].next])
  /\ UNCHANGED begun

\* The tree is loaded, then the moved note, or the tab beside a deleted one.
TreeLoaded(t) ==
  LET p == task[t].next IN
  /\ Rest
  /\ At(t, "tree")
  /\ IF p = NoPath THEN Become(t, Idle) /\ UNCHANGED <<client, world>>
     ELSE Call(t, [Idle EXCEPT !.op = "open", !.path = p]) /\ UNCHANGED begun

-----------------------------------------------------------------------------
(* The user and the timer.                                                 *)

\* A keystroke: the editor has the new text, the draft not yet.
Type ==
  LET text == top + 1 IN
  /\ Rest
  /\ Mounted /\ top < MaxText
  /\ top' = text /\ shown' = text /\ heard' = FALSE
  /\ Saw(text) /\ onlyHere' = onlyHere \cup {text}
  /\ task' = [t \in Task |->
       IF task[t].pc \in {"load", "act", "tree"} \/ (At(t, "put") /\ task[t].note # draft.path)
       THEN [task[t] EXCEPT !.late = TRUE] ELSE task[t]]
  /\ UNCHANGED <<file, draft, timer, saving, status, conflict, loading, begun, hidden, gaveUp>>

\* updateDraft, called by the listener.
Report ==
  /\ Rest /\ ~heard
  /\ heard' = TRUE
  /\ IF draft.content = shown THEN UNCHANGED <<draft, status, timer>>
     ELSE draft' = [draft EXCEPT !.content = shown] /\ status' = "unsaved" /\ timer' = TRUE
  /\ UNCHANGED <<shown, saving, conflict, loading, task, gaveUp, world>>

Begins(t) == At(t, "idle") /\ begun < MaxChains /\ begun' = begun + 1

\* Chains of calls begin with saveDraft.
Chain(t, op, p, next) ==
  /\ Rest
  /\ Begins(t)
  /\ Call(t, [Idle EXCEPT !.op = op, !.path = p, !.next = next,
                          !.affected = op \in {"move", "delete"} /\ draft.path = p])

TimerFires(t) ==
  /\ Rest
  /\ timer /\ At(t, "idle")
  /\ Call(t, [Idle EXCEPT !.op = "save"])
  /\ UNCHANGED begun

\* The Save button.
Save(t) == draft.path # NoPath /\ status \notin {"saved", "saving"} /\ Chain(t, "save", NoPath, NoPath)

Open(t, p) == p # draft.path /\ Chain(t, "open", p, NoPath)

Close(t, next) == draft.path \notin {NoPath, next} /\ Chain(t, "close", NoPath, next)

Move(t, p, q) == p # q /\ Chain(t, "move", p, q)

\* next: the tab to open if the note was the open one.
Delete(t, p, next) ==
  next # p /\ (next # NoPath => draft.path = p) /\ Chain(t, "delete", p, next)

Resolving == \E t \in Task : task[t].op = "resolve"

\* The resolved note is the draft, under the same editor if it was open.
Adopt(p, text) ==
  /\ draft' = [path |-> p, content |-> text, saved |-> text]
  /\ Show(p, text)
  /\ conflict' = NoConflict /\ status' = "saved" /\ gaveUp' = FALSE

UseServer ==
  /\ Rest
  /\ conflict # NoConflict /\ ~Resolving
  /\ Adopt(conflict.path, conflict.server)
  /\ UNCHANGED <<timer, saving, loading, task, world>>

\* "Save my version", or a combined one, which is a new text.
Resolve(t, combined) ==
  LET text == IF combined THEN top + 1 ELSE conflict.yours IN
  /\ Rest
  /\ conflict # NoConflict /\ ~Resolving
  /\ Begins(t)
  /\ combined => top < MaxText
  /\ top' = IF combined THEN text ELSE top
  /\ Become(t, [Idle EXCEPT !.pc = "resolve", !.op = "resolve", !.note = conflict.path, !.text = text,
                            !.base = conflict.server, !.yours = conflict.yours])
  /\ Saw(text)
  /\ UNCHANGED <<client, file, hidden, onlyHere>>

Resolved(t) ==
  /\ Rest
  /\ At(t, "resolve") /\ task[t].answer # "none"
  /\ IF task[t].answer = "ok"
     THEN Adopt(task[t].note, task[t].text) /\ Become(t, Idle)
     ELSE /\ Become(t, [task[t] EXCEPT !.pc = "reread", !.answer = "none", !.text = 0, !.base = 0])
          /\ UNCHANGED <<draft, shown, heard, conflict, status, gaveUp>>
  /\ UNCHANGED <<timer, saving, loading, world>>

Reread(t) ==
  /\ Rest
  /\ At(t, "reread") /\ task[t].answer # "none"
  /\ IF task[t].answer = "ok"
     THEN /\ conflict' = [path |-> task[t].note, server |-> task[t].got, yours |-> task[t].yours]
          /\ Saw(task[t].got)
     ELSE UNCHANGED <<conflict, seen>>
  /\ Become(t, Idle)
  /\ UNCHANGED <<draft, shown, heard, timer, saving, status, loading, gaveUp, file, top, begun, hidden, onlyHere>>

DecideLater ==
  /\ Rest
  /\ conflict # NoConflict /\ ~Resolving
  /\ conflict' = NoConflict
  /\ UNCHANGED <<draft, shown, heard, timer, saving, status, loading, gaveUp, task, world>>

-----------------------------------------------------------------------------
(* The server, and requests or responses that get lost.                    *)

Answer(t, outcome, text) ==
  /\ Rest
  /\ task[t].answer = "none"
  /\ Become(t, [task[t] EXCEPT !.answer = outcome, !.got = text])
  /\ UNCHANGED <<client, top, begun, seen, hidden>>

\* The version is compared and the file replaced.
Written(t, outcome) ==
  /\ task[t].pc \in {"put", "resolve"}
  /\ file[task[t].note] = task[t].base
  /\ file' = [file EXCEPT ![task[t].note] = task[t].text]
  /\ Answer(t, outcome, 0)
  /\ onlyHere' = onlyHere \ {task[t].text}

Refused(t) ==
  /\ task[t].pc \in {"put", "resolve"}
  /\ file[task[t].note] \notin {task[t].base, Absent}
  /\ Answer(t, "conflict", 0)
  /\ UNCHANGED <<file, onlyHere>>

NoteRead(t) ==
  LET p == IF At(t, "load") THEN task[t].path ELSE task[t].note IN
  /\ task[t].pc \in {"load", "read", "reread"}
  /\ file[p] # Absent
  /\ Answer(t, "ok", file[p])
  /\ UNCHANGED <<file, onlyHere>>

Moved(t, outcome) ==
  LET p == task[t].path  q == task[t].next IN
  /\ At(t, "act") /\ task[t].op = "move"
  /\ file[p] # Absent /\ file[q] = Absent
  /\ file' = [file EXCEPT ![p] = Absent, ![q] = file[p]]
  /\ Answer(t, outcome, 0)
  /\ UNCHANGED onlyHere

Deleted(t, outcome) ==
  /\ At(t, "act") /\ task[t].op = "delete"
  /\ file[task[t].path] # Absent
  /\ file' = [file EXCEPT ![task[t].path] = Absent]
  /\ Answer(t, outcome, 0)
  /\ UNCHANGED onlyHere

\* An error, a note that is gone, a target that exists, or no connection.
Failed(t) ==
  /\ task[t].pc \in Requests
  /\ Answer(t, "failed", 0)
  /\ UNCHANGED <<file, onlyHere>>

\* Another browser session, or a program on the server.
OtherSession(p) ==
  /\ Rest
  /\ file[p] # Absent /\ top < MaxText
  /\ top' = top + 1
  /\ file' = [file EXCEPT ![p] = top + 1]
  /\ UNCHANGED <<client, task, begun, seen, hidden, onlyHere>>

-----------------------------------------------------------------------------
Continues(t) == SaveCheck(t) \/ OpenNote(t) \/ CloseTab(t) \/ Act(t)

Responds(t) ==
  \/ SaveSucceeds(t) \/ SaveConflicts(t) \/ ConflictRead(t) \/ SaveFails(t)
  \/ NoteLoaded(t) \/ ActDone(t) \/ TreeLoaded(t) \/ Resolved(t) \/ Reread(t)

Gesture(t) ==
  \/ TimerFires(t) \/ Save(t)
  \/ \E p \in Path : Open(t, p)
  \/ \E p \in Path \cup {NoPath} : Close(t, p)
  \/ \E p \in Path : \E q \in Path : Move(t, p, q)
  \/ \E p \in Path : \E next \in Path \cup {NoPath} : Delete(t, p, next)
  \/ \E combined \in BOOLEAN : Resolve(t, combined)

Serves(t) ==
  \/ \E outcome \in {"ok", "failed"} : Written(t, outcome) \/ Moved(t, outcome) \/ Deleted(t, outcome)
  \/ Refused(t) \/ NoteRead(t) \/ Failed(t)

DraftNext ==
  \/ \E t \in Task : Continues(t) \/ Responds(t) \/ Gesture(t) \/ Serves(t)
  \/ Type \/ Report \/ UseServer \/ DecideLater
  \/ \E p \in Path : OtherSession(p)

DraftSpec == DraftInit /\ [][DraftNext]_draftVars

-----------------------------------------------------------------------------
(* Properties.                                                             *)

\* As long as saveDraft has not returned false since the note was loaded or last
\* saved, unsaved text has a save coming: the autosave timer runs, a PUT of this
\* note is under way, or saveDraft waits for another PUT before it saves.
SaveIsComing ==
  Rest /\ Unsaved(draft) /\ ~gaveUp =>
    \/ timer
    \/ \E t \in Task : At(t, "waiting") \/ (At(t, "put") /\ task[t].note = draft.path)

\* The continuations that take the draft, or the text of the editor, away.
Leaves(t) == OpenNote(t) \/ NoteLoaded(t) \/ CloseTab(t) \/ ActDone(t)

DropsDraft == Unsaved(draft) /\ draft.content \in onlyHere /\ draft'.content # draft.content

DropsText == ~heard /\ heard'

\* Opening, closing, moving and deleting a note save the draft first: text is
\* taken away unsaved, from the draft or from an editor that has not told of it,
\* only if it was typed when the chain had saved already, if saveDraft returned
\* before the listener told of it, or if it is in another note than the one whose
\* save the chain awaits.  What was in the draft when saveDraft looked is kept,
\* whatever other chains, answers and keystrokes come in between.
TypedTextIsKept ==
  [][\A t \in Task : Leaves(t) /\ (DropsDraft \/ DropsText) => task[t].late]_draftVars

\* KNOWN-LIMITATIONS.md:26-28: "Version checks reject stale writes and the owner
\* must select the browser draft, the current server file, or an edited combined
\* version".  The client never overwrites a text of another session that the user
\* has not had on screen, in the editor or in the conflict dialog.
NoBlindOverwrite ==
  [][\A t \in Task, outcome \in {"ok", "failed"} : Written(t, outcome) => file[task[t].note] \in seen]_draftVars

\* Only a note that was loaded again under an editor that kept its text is ever
\* overwritten with its text never on screen: saves, conflicts, choices, other
\* notes and lost answers, in any order, lead to no other such write.
OnlyReloadedIsOverwritten ==
  [][\A t \in Task, outcome \in {"ok", "failed"} :
       Written(t, outcome) => file[task[t].note] \in seen \cup hidden]_draftVars

\* "Saved on this server" is shown only for what the editor shows, once it has
\* told of its text.
NothingUnsavedIsReportedSaved ==
  Rest /\ Mounted /\ heard /\ status = "saved" => shown = draft.saved
=============================================================================
