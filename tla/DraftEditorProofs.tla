------------------------- MODULE DraftEditorProofs -------------------------
(***************************************************************************)
(* Theorems about DraftEditor, for any notes, any number of chains and any *)
(* number of texts: unsaved text has a save coming until one is given up,  *)
(* saves overwrite only what the user has seen or what was loaded under an *)
(* editor that kept its text, and text is dropped only if it was typed, or *)
(* told of, after the chain that drops it had saved.                       *)
(***************************************************************************)
EXTENDS DraftEditor, TLAPS

\* What a chain opens, moves or deletes, and what it sends a request about, is a
\* note.  Only the opening of a note loads one.
Addressed(chain) ==
  /\ chain.op \in {"open", "move", "delete"} => chain.path \in Path
  /\ chain.pc = "load" => chain.op = "open"
  /\ chain.pc \in {"put", "read", "resolve", "reread"} => chain.note \in Path

Chains == task \in [Task -> TaskState] /\ \A t \in Task : Addressed(task[t])

\* The invariant behind TypeCorrect: the model looks up files only at notes.
Typed == DraftTypeOK /\ Chains /\ (conflict # NoConflict => conflict.path \in Path)

\* A chain that will save the draft: it waits for another save, it is about to
\* look at the draft, or it awaits the answer to a PUT of this note.
Owes(t) ==
  At(t, "waiting") \/ At(t, "check") \/ (At(t, "put") /\ task[t].note = draft.path)

\* SaveIsComing, also in the middle of a turn.
SaveOwed == Unsaved(draft) /\ ~gaveUp => timer \/ \E t \in Task : Owes(t)

-----------------------------------------------------------------------------
(* The records of the model and their types.                               *)

\* The texts begin with 0 and are numbered.
LEMMA TextFacts == 0 \in Text /\ (top \in Text /\ top < MaxText => top + 1 \in Text)
  BY EditorAssumption DEF Text

\* Fields of a chain.
LEMMA ChainFields ==
  ASSUME NEW c \in TaskState
  PROVE  /\ c.path \in Path \cup {NoPath} /\ c.next \in Path \cup {NoPath}
         /\ c.note \in Path \cup {NoPath}
         /\ c.text \in Text /\ c.base \in Text /\ c.yours \in Text /\ c.got \in Text
  BY DEF TaskState

\* Fields of a draft, and a draft put together from its fields.
LEMMA DraftFields ==
  ASSUME NEW d \in Draft
  PROVE  d.path \in Path \cup {NoPath} /\ d.content \in Text /\ d.saved \in Text
  BY DEF Draft

LEMMA DraftMade ==
  ASSUME NEW p \in Path \cup {NoPath}, NEW x \in Text
  PROVE  /\ [path |-> p, content |-> x, saved |-> x] \in Draft
         /\ ~Unsaved([path |-> p, content |-> x, saved |-> x])
  BY DEF Draft, Unsaved

\* Editing the draft and saving it keep its path.
LEMMA DraftEdited ==
  ASSUME NEW d \in Draft, NEW x \in Text
  PROVE  /\ [d EXCEPT !.saved = x] \in Draft /\ [d EXCEPT !.saved = x].path = d.path
         /\ [d EXCEPT !.content = x] \in Draft
  BY DEF Draft

LEMMA NoDraftFact == NoDraft \in Draft /\ ~Unsaved(NoDraft)
  BY TextFacts DEF NoDraft, Draft, Unsaved

\* The choice after a conflict.
LEMMA PendingFacts ==
  /\ NoConflict \in Pending
  /\ \A c \in Pending : c.path \in Path \cup {NoPath} /\ c.server \in Text /\ c.yours \in Text
  /\ \A p \in Path \cup {NoPath}, x \in Text, y \in Text :
       [path |-> p, server |-> x, yours |-> y] \in Pending
  BY TextFacts DEF NoConflict, Pending

LEMMA IdleFact == Idle \in TaskState /\ Idle.pc = "idle" /\ Idle.op = "none" /\ Addressed(Idle)
  BY TextFacts DEF Idle, TaskState, DraftPC, Addressed

-----------------------------------------------------------------------------
(* The chains that saveDraft and its callers make.                         *)

\* A PUT of the draft.
LEMMA PutFact ==
  ASSUME NEW c \in TaskState, Addressed(c), NEW d \in Draft, d.path # NoPath
  PROVE  /\ Put(c, d) \in TaskState /\ Addressed(Put(c, d))
         /\ Put(c, d).pc = "put" /\ Put(c, d).note = d.path
<1>1. PICK p \in Path \cup {NoPath}, x \in Text, y \in Text :
        p = d.path /\ x = d.content /\ y = d.saved
  BY DraftFields
<1> DEFINE e == [c EXCEPT !.pc = "put", !.note = p, !.text = x, !.base = y,
                          !.on = NoTask, !.answer = "none", !.late = FALSE]
<1>2. e \in TaskState
  BY DEF TaskState, DraftPC
<1>3. e.pc = "put" /\ e.note = p
  BY DEF TaskState
<1>4. e.op = c.op /\ e.path = c.path
  BY DEF TaskState
<1>5. Put(c, d) = e
  BY <1>1 DEF Put
<1> HIDE DEF e
<1> QED BY <1>1, <1>2, <1>3, <1>4, <1>5 DEF Addressed

\* saveDraft has returned true.
LEMMA GoFact ==
  ASSUME NEW c \in TaskState, Addressed(c), NEW d
  PROVE  Go(c, d) \in TaskState /\ Addressed(Go(c, d)) /\ Go(c, d).pc \in {"go", "idle"}
<1>0. PICK b \in BOOLEAN : b = (c.late \/ (d.path # NoPath /\ ~heard))
  OBVIOUS
<1> DEFINE e == [c EXCEPT !.pc = "go", !.note = NoPath, !.text = 0, !.base = 0,
                          !.on = NoTask, !.answer = "none", !.late = b]
<1>1. e \in TaskState
  BY TextFacts DEF TaskState, DraftPC
<1>2. e.pc = "go" /\ e.op = c.op /\ e.path = c.path
  BY DEF TaskState
<1>3. Go(c, d) = IF c.op = "save" THEN Idle ELSE e
  BY <1>0 DEF Go
<1> HIDE DEF e
<1> QED BY <1>1, <1>2, <1>3, IdleFact DEF Addressed

\* Waiting for a save, and resuming.
LEMMA WaitFact ==
  ASSUME NEW c \in TaskState, Addressed(c), NEW u \in Task \cup {NoTask}
  PROVE  /\ [c EXCEPT !.pc = "waiting", !.on = u] \in TaskState
         /\ Addressed([c EXCEPT !.pc = "waiting", !.on = u])
         /\ [c EXCEPT !.pc = "waiting", !.on = u].pc = "waiting"
<1> DEFINE e == [c EXCEPT !.pc = "waiting", !.on = u]
<1>1. e \in TaskState
  BY DEF TaskState, DraftPC
<1>2. e.pc = "waiting" /\ e.op = c.op /\ e.path = c.path
  BY DEF TaskState
<1> HIDE DEF e
<1> QED BY <1>1, <1>2 DEF Addressed, e

LEMMA ResumeFact ==
  ASSUME NEW c \in TaskState, Addressed(c)
  PROVE  /\ [c EXCEPT !.pc = "check", !.on = NoTask] \in TaskState
         /\ Addressed([c EXCEPT !.pc = "check", !.on = NoTask])
         /\ [c EXCEPT !.pc = "check", !.on = NoTask].pc = "check"
<1> DEFINE e == [c EXCEPT !.pc = "check", !.on = NoTask]
<1>1. e \in TaskState
  BY DEF TaskState, DraftPC
<1>2. e.pc = "check" /\ e.op = c.op /\ e.path = c.path
  BY DEF TaskState
<1> HIDE DEF e
<1> QED BY <1>1, <1>2 DEF Addressed, e

\* A chain that goes from one await to the next, and one whose answer is there.
LEMMA MoveOnFact ==
  ASSUME NEW c \in TaskState, Addressed(c), NEW pc \in {"load", "act"}, pc = "load" => c.op = "open"
  PROVE  /\ [c EXCEPT !.pc = pc] \in TaskState /\ Addressed([c EXCEPT !.pc = pc])
         /\ [c EXCEPT !.pc = pc].pc = pc
<1> DEFINE e == [c EXCEPT !.pc = pc]
<1>1. e \in TaskState
  BY DEF TaskState, DraftPC
<1>2. e.pc = pc /\ e.op = c.op /\ e.path = c.path
  BY DEF TaskState
<1> HIDE DEF e
<1> QED BY <1>1, <1>2 DEF Addressed, e

LEMMA TreeFact ==
  ASSUME NEW c \in TaskState, Addressed(c)
  PROVE  /\ [c EXCEPT !.pc = "tree", !.answer = "none"] \in TaskState
         /\ Addressed([c EXCEPT !.pc = "tree", !.answer = "none"])
<1> DEFINE e == [c EXCEPT !.pc = "tree", !.answer = "none"]
<1>1. e \in TaskState
  BY DEF TaskState, DraftPC
<1>2. e.pc = "tree" /\ e.op = c.op /\ e.path = c.path
  BY DEF TaskState
<1> HIDE DEF e
<1> QED BY <1>1, <1>2 DEF Addressed, e

LEMMA RereadFact ==
  ASSUME NEW c \in TaskState, Addressed(c), c.pc = "resolve"
  PROVE  /\ [c EXCEPT !.pc = "reread", !.answer = "none", !.text = 0, !.base = 0] \in TaskState
         /\ Addressed([c EXCEPT !.pc = "reread", !.answer = "none", !.text = 0, !.base = 0])
<1> DEFINE e == [c EXCEPT !.pc = "reread", !.answer = "none", !.text = 0, !.base = 0]
<1>1. e \in TaskState
  BY TextFacts DEF TaskState, DraftPC
<1>2. e.pc = "reread" /\ e.op = c.op /\ e.path = c.path /\ e.note = c.note
  BY DEF TaskState
<1> HIDE DEF e
<1> QED BY <1>1, <1>2 DEF Addressed, e

Answered(c, o, x) == [c EXCEPT !.answer = o, !.got = x]

LEMMA AnswerFact ==
  ASSUME NEW c \in TaskState, Addressed(c),
         NEW o \in {"ok", "conflict", "failed"}, NEW x \in Text
  PROVE  /\ Answered(c, o, x) \in TaskState /\ Addressed(Answered(c, o, x))
         /\ Answered(c, o, x).pc = c.pc /\ Answered(c, o, x).note = c.note
<1> DEFINE e == [c EXCEPT !.answer = o, !.got = x]
<1>1. e \in TaskState
  BY DEF TaskState
<1>2. e.pc = c.pc /\ e.op = c.op /\ e.path = c.path /\ e.note = c.note
  BY DEF TaskState
<1>3. Answered(c, o, x) = e
  BY DEF Answered
<1> HIDE DEF e
<1> QED BY <1>1, <1>2, <1>3 DEF Addressed

LEMMA LateFact ==
  ASSUME NEW c \in TaskState, Addressed(c), NEW b \in BOOLEAN
  PROVE  [c EXCEPT !.late = b] \in TaskState /\ Addressed([c EXCEPT !.late = b])
<1> DEFINE e == [c EXCEPT !.late = b]
<1>1. e \in TaskState
  BY DEF TaskState
<1>2. e.pc = c.pc /\ e.op = c.op /\ e.path = c.path /\ e.note = c.note
  BY DEF TaskState
<1> HIDE DEF e
<1> QED BY <1>1, <1>2 DEF Addressed, e

\* Chains that begin, one that opens a note after another chain, one that reads
\* the other version, and a resolution.
LEMMA BeginFact ==
  ASSUME NEW op \in {"save", "open", "close", "move", "delete"},
         NEW p \in Path \cup {NoPath}, NEW next \in Path \cup {NoPath}, NEW b \in BOOLEAN,
         op \in {"open", "move", "delete"} => p \in Path
  PROVE  /\ [Idle EXCEPT !.op = op, !.path = p, !.next = next, !.affected = b] \in TaskState
         /\ Addressed([Idle EXCEPT !.op = op, !.path = p, !.next = next, !.affected = b])
<1> DEFINE e == [Idle EXCEPT !.op = op, !.path = p, !.next = next, !.affected = b]
<1>1. e \in TaskState
  BY TextFacts DEF Idle, TaskState, DraftPC
<1>2. e.pc = "idle" /\ e.op = op /\ e.path = p
  BY DEF Idle
<1> HIDE DEF e
<1> QED BY <1>1, <1>2 DEF Addressed, e

LEMMA OpenFact ==
  ASSUME NEW p \in Path
  PROVE  /\ [Idle EXCEPT !.op = "open", !.path = p] \in TaskState
         /\ Addressed([Idle EXCEPT !.op = "open", !.path = p])
<1> DEFINE e == [Idle EXCEPT !.op = "open", !.path = p]
<1>1. e \in TaskState
  BY TextFacts DEF Idle, TaskState, DraftPC
<1>2. e.pc = "idle" /\ e.op = "open" /\ e.path = p
  BY DEF Idle
<1> HIDE DEF e
<1> QED BY <1>1, <1>2 DEF Addressed, e

LEMMA ReadFact ==
  ASSUME NEW p \in Path, NEW x \in Text
  PROVE  /\ [Idle EXCEPT !.pc = "read", !.op = "save", !.note = p, !.text = x] \in TaskState
         /\ Addressed([Idle EXCEPT !.pc = "read", !.op = "save", !.note = p, !.text = x])
<1> DEFINE e == [Idle EXCEPT !.pc = "read", !.op = "save", !.note = p, !.text = x]
<1>1. e \in TaskState
  BY TextFacts DEF Idle, TaskState, DraftPC
<1>2. e.pc = "read" /\ e.op = "save" /\ e.note = p
  BY DEF Idle
<1> HIDE DEF e
<1> QED BY <1>1, <1>2 DEF Addressed, e

LEMMA AutosaveFact ==
  /\ [Idle EXCEPT !.op = "save"] \in TaskState /\ Addressed([Idle EXCEPT !.op = "save"])
  /\ \A k \in Nat : LET e == [Idle EXCEPT !.op = "save"] IN e.text \in 0..k /\ e.got \in 0..k /\ e.yours \in 0..k
<1> DEFINE e == [Idle EXCEPT !.op = "save"]
<1>1. e \in TaskState
  BY TextFacts DEF Idle, TaskState, DraftPC
<1>2. e.pc = "idle" /\ e.op = "save" /\ e.text = 0 /\ e.got = 0 /\ e.yours = 0
  BY DEF Idle
<1> HIDE DEF e
<1>3. e \in TaskState /\ Addressed(e) /\ \A k \in Nat : e.text \in 0..k /\ e.got \in 0..k /\ e.yours \in 0..k
  BY <1>1, <1>2 DEF Addressed
<1> QED BY <1>3 DEF e

LEMMA ResolveFact ==
  ASSUME NEW p \in Path, NEW x \in Text, NEW y \in Text, NEW z \in Text
  PROVE  /\ [Idle EXCEPT !.pc = "resolve", !.op = "resolve", !.note = p, !.text = x, !.base = y,
                          !.yours = z] \in TaskState
         /\ Addressed([Idle EXCEPT !.pc = "resolve", !.op = "resolve", !.note = p, !.text = x,
                                   !.base = y, !.yours = z])
<1> DEFINE e == [Idle EXCEPT !.pc = "resolve", !.op = "resolve", !.note = p, !.text = x, !.base = y,
                             !.yours = z]
<1>1. e \in TaskState
  BY TextFacts DEF Idle, TaskState, DraftPC
<1>2. e.pc = "resolve" /\ e.op = "resolve" /\ e.note = p
  BY DEF Idle
<1> HIDE DEF e
<1> QED BY <1>1, <1>2 DEF Addressed, e

\* saveDraft as far as it gets at once: refused, waiting, sent or done.
LEMMA SaveDraftFact ==
  ASSUME DraftTypeOK, NEW c \in TaskState, Addressed(c), NEW d \in Draft
  PROVE  /\ SaveDraft(c, d) \in TaskState /\ Addressed(SaveDraft(c, d))
         /\ Unsaved(d) =>
              \/ saving # NoTask /\ ~At(saving, "put")
              \/ SaveDraft(c, d).pc = "waiting"
              \/ SaveDraft(c, d).pc = "put" /\ SaveDraft(c, d).note = d.path
<1>1. saving \in Task \cup {NoTask}
  BY DEF DraftTypeOK
<1>2. CASE saving # NoTask /\ At(saving, "put")
  <2>1. PICK u \in Task \cup {NoTask} : u = saving
    BY <1>1
  <2> DEFINE e == [c EXCEPT !.pc = "waiting", !.on = u]
  <2>2. e \in TaskState /\ Addressed(e) /\ e.pc = "waiting"
    BY WaitFact
  <2>3. SaveDraft(c, d) = e
    BY <1>2, <2>1 DEF SaveDraft
  <2> HIDE DEF e
  <2> QED BY <2>2, <2>3
<1>3. CASE saving # NoTask /\ ~At(saving, "put")
  <2>1. SaveDraft(c, d) = Idle
    BY <1>3 DEF SaveDraft
  <2> QED BY <1>3, <2>1, IdleFact
<1>4. CASE saving = NoTask /\ Unsaved(d)
  <2>1. SaveDraft(c, d) = Put(c, d) /\ d.path # NoPath
    BY <1>4 DEF SaveDraft, Unsaved
  <2> QED BY <2>1, PutFact
<1>5. CASE saving = NoTask /\ ~Unsaved(d)
  <2>1. SaveDraft(c, d) = Go(c, d)
    BY <1>5 DEF SaveDraft
  <2> QED BY <1>5, <2>1, GoFact
<1> QED BY <1>2, <1>3, <1>4, <1>5

-----------------------------------------------------------------------------
(* Steps of the chains.                                                    *)

\* One chain changes.
LEMMA BecomeFact ==
  ASSUME Chains, NEW t \in Task, NEW c \in TaskState, Addressed(c), Become(t, c)
  PROVE  Chains' /\ task'[t] = c /\ \A u \in Task \ {t} : task'[u] = task[u]
<1>1. task' \in [Task -> TaskState]
  BY DEF Chains, Become
<1>2. task'[t] = c /\ \A u \in Task \ {t} : task'[u] = task[u]
  BY DEF Chains, Become
<1>3. \A u \in Task : Addressed(task'[u])
  BY <1>2 DEF Chains
<1> QED BY <1>1, <1>2, <1>3 DEF Chains

\* A save is over: those that waited for it look at the draft, or have ended.
LEMMA SettleFact ==
  ASSUME Chains, NEW t \in Task, NEW own \in TaskState, Addressed(own),
         NEW resumed \in BOOLEAN, Settle(t, own, resumed)
  PROVE  /\ Chains' /\ task'[t] = own
         /\ \A u \in Task \ {t} :
              \/ task'[u] = task[u]
              \/ resumed /\ task'[u].pc = "check"
              \/ ~resumed
<1> DEFINE next(u) ==
      IF u = t THEN own
      ELSE IF ~(At(u, "waiting") /\ task[u].on = t) THEN task[u]
      ELSE IF resumed THEN [task[u] EXCEPT !.pc = "check", !.on = NoTask] ELSE Idle
<1>1. task' = [u \in Task |-> next(u)]
  BY DEF Settle
<1>2. ASSUME NEW u \in Task
      PROVE  /\ next(u) \in TaskState /\ Addressed(next(u))
             /\ (u # t /\ resumed /\ next(u) # task[u] => next(u).pc = "check")
  <2>1. task[u] \in TaskState /\ Addressed(task[u])
    BY DEF Chains
  <2> DEFINE e == [task[u] EXCEPT !.pc = "check", !.on = NoTask]
  <2>2. e \in TaskState /\ Addressed(e) /\ e.pc = "check"
    BY <2>1, ResumeFact
  <2> HIDE DEF e
  <2>3. next(u) \in {own, task[u], Idle} \/ next(u) = e
    BY DEF e
  <2>4. ASSUME u # t, resumed, next(u) # task[u]
        PROVE  next(u) = e
    BY <2>4, Zenon DEF e
  <2> HIDE DEF next
  <2>5. next(u) \in TaskState /\ Addressed(next(u))
    BY <2>1, <2>2, <2>3, own \in TaskState, IdleFact
  <2>6. u # t /\ resumed /\ next(u) # task[u] => next(u).pc = "check"
    BY <2>2, <2>4
  <2> QED BY <2>5, <2>6
<1>3. next(t) = own
  OBVIOUS
<1> HIDE DEF next
<1>4. task' \in [Task -> TaskState] /\ \A u \in Task : task'[u] = next(u)
  BY <1>1, <1>2
<1>5. \A u \in Task : Addressed(task'[u])
  BY <1>2, <1>4
<1> QED BY <1>2, <1>3, <1>4, <1>5 DEF Chains

\* Chains that change only the history of late typing.
LEMMA LateChains ==
  ASSUME Chains,
         task' = [t \in Task |->
           IF task[t].pc \in {"load", "act", "tree"} \/ (At(t, "put") /\ task[t].note # draft.path)
           THEN [task[t] EXCEPT !.late = TRUE] ELSE task[t]]
  PROVE  Chains'
<1>1. ASSUME NEW t \in Task
      PROVE  task'[t] \in TaskState /\ Addressed(task'[t])
  <2>1. task[t] \in TaskState /\ Addressed(task[t])
    BY DEF Chains
  <2> DEFINE e == [task[t] EXCEPT !.late = TRUE]
  <2>2. e \in TaskState /\ Addressed(e)
    BY <2>1, LateFact
  <2>3. task'[t] = e \/ task'[t] = task[t]
    OBVIOUS
  <2> HIDE DEF e
  <2> QED BY <2>1, <2>2, <2>3
<1>2. task' = [t \in Task |-> task'[t]]
  OBVIOUS
<1> QED BY <1>1, <1>2 DEF Chains

\* A call of saveDraft.
LEMMA CallFact ==
  ASSUME Typed, NEW t \in Task, NEW c \in TaskState, Addressed(c), Call(t, c)
  PROVE  /\ Chains' /\ saving' \in Task \cup {NoTask}
         /\ status' \in {"saved", "unsaved", "saving", "error", "conflict"}
         /\ timer' = FALSE /\ gaveUp' \in BOOLEAN
         /\ Unsaved(draft) /\ ~gaveUp' => Owes(t)'
<1>1. PICK e \in TaskState : e = [c EXCEPT !.late = FALSE] /\ Addressed(e)
  BY LateFact
<1>2. PICK then : then = SaveDraft(e, draft)
  OBVIOUS
<1>3. draft \in Draft
  BY DEF Typed, DraftTypeOK
<1>4. /\ then \in TaskState /\ Addressed(then)
      /\ Unsaved(draft) =>
           \/ saving # NoTask /\ ~At(saving, "put")
           \/ then.pc = "waiting"
           \/ then.pc = "put" /\ then.note = draft.path
  BY <1>1, <1>2, <1>3, SaveDraftFact DEF Typed
<1>5. /\ Become(t, then) /\ timer' = FALSE /\ draft' = draft
      /\ gaveUp' = (gaveUp \/ (saving # NoTask /\ ~At(saving, "put")))
      /\ UNCHANGED <<saving, status>> \/ Reports(t, then)
  BY <1>1, <1>2 DEF Call
<1>6. Chains' /\ task'[t] = then
  BY <1>4, <1>5, BecomeFact DEF Typed
<1>7. /\ saving' \in Task \cup {NoTask}
      /\ status' \in {"saved", "unsaved", "saving", "error", "conflict"}
  BY <1>5 DEF Typed, DraftTypeOK, Reports
<1>8. ASSUME Unsaved(draft), ~gaveUp'
      PROVE  Owes(t)'
  <2>1. ~(saving # NoTask /\ ~At(saving, "put"))
    BY <1>5, <1>8
  <2> QED BY <1>4, <1>5, <1>6, <1>8, <2>1 DEF Owes, At
<1>9. gaveUp' \in BOOLEAN
  BY <1>5 DEF Typed, DraftTypeOK
<1> QED BY <1>5, <1>6, <1>7, <1>8, <1>9

\* One chain changes, and it still owes its save if it did.
LEMMA OwedKept ==
  ASSUME SaveOwed, NEW t \in Task, draft' = draft, timer' = timer, gaveUp' = gaveUp,
         \A u \in Task \ {t} : task'[u] = task[u],
         Owes(t) => Owes(t)'
  PROVE  SaveOwed'
<1>1. \A u \in Task : Owes(u) => Owes(u)'
  BY DEF Owes, At
<1> QED BY <1>1 DEF SaveOwed

\* A draft without unsaved text is owed nothing.
LEMMA CleanFact ==
  ASSUME ~Unsaved(draft')
  PROVE  SaveOwed'
BY DEF SaveOwed, Unsaved

\* A call of saveDraft leaves no unsaved text without a save.
LEMMA CallOwed ==
  ASSUME Typed, NEW t \in Task, NEW c \in TaskState, Addressed(c), Call(t, c)
  PROVE  SaveOwed'
<1>1. draft' = draft
  BY DEF Call
<1>2. Unsaved(draft) /\ ~gaveUp' => Owes(t)'
  BY CallFact
<1> QED BY <1>1, <1>2 DEF SaveOwed, Unsaved

LEMMA CallTyped ==
  ASSUME Typed, NEW t \in Task, NEW c \in TaskState, Addressed(c), Call(t, c), begun' \in 0..MaxChains
  PROVE  Typed'
<1>1. /\ Chains' /\ saving' \in Task \cup {NoTask}
      /\ status' \in {"saved", "unsaved", "saving", "error", "conflict"}
      /\ timer' = FALSE /\ gaveUp' \in BOOLEAN
  BY CallFact
<1>2. UNCHANGED <<draft, shown, heard, conflict, loading, file, top, seen, hidden, onlyHere>>
  BY DEF Call
<1>3. DraftTypeOK'
  BY <1>1, <1>2 DEF Typed, DraftTypeOK, Chains, Addressed
<1> QED BY <1>1, <1>2, <1>3 DEF Typed

\* The answer to a request arrives.
LEMMA AnswerStep ==
  ASSUME Typed, SaveOwed, NEW t \in Task, NEW o \in {"ok", "conflict", "failed"}, NEW x \in Text,
         Answer(t, o, x), file' \in [Path -> Text \cup {Absent}], onlyHere' \subseteq Text
  PROVE  Typed' /\ SaveOwed'
<1>1. task[t] \in TaskState /\ Addressed(task[t])
  BY DEF Typed, Chains
<1>2. PICK e \in TaskState : /\ e = Answered(task[t], o, x) /\ Addressed(e)
                             /\ e.pc = task[t].pc /\ e.note = task[t].note
  BY <1>1, AnswerFact
<1>3. Become(t, Answered(task[t], o, x)) /\ UNCHANGED <<client, top, begun, seen, hidden>>
  BY DEF Answer, Answered
<1>4. Become(t, e) /\ UNCHANGED <<client, top, begun, seen, hidden>>
  BY <1>2, <1>3
<1>5. Chains' /\ task'[t] = e /\ \A u \in Task \ {t} : task'[u] = task[u]
  BY <1>2, <1>4, BecomeFact DEF Typed
<1>6. Typed'
  BY <1>2, <1>4, <1>5 DEF Typed, DraftTypeOK, Chains, Addressed, client
<1>7. Owes(t) => Owes(t)'
  BY <1>2, <1>4, <1>5 DEF Owes, At, client
<1>8. SaveOwed'
  BY <1>2, <1>4, <1>5, <1>7, OwedKept DEF client
<1> QED BY <1>6, <1>8

-----------------------------------------------------------------------------
(* Every step keeps the types and the saves that are owed.                 *)

LEMMA ServesKept ==
  ASSUME Typed, SaveOwed, NEW t \in Task, Serves(t)
  PROVE  Typed' /\ SaveOwed'
<1>1. /\ task[t] \in TaskState /\ Addressed(task[t]) /\ task[t].text \in Text
      /\ file \in [Path -> Text \cup {Absent}] /\ onlyHere \subseteq Text /\ 0 \in Text
  BY TextFacts, ChainFields DEF Typed, DraftTypeOK, Chains
<1>2. ASSUME NEW outcome \in {"ok", "failed"}, Written(t, outcome)
      PROVE  Typed' /\ SaveOwed'
  <2>1. Answer(t, outcome, 0)
    BY <1>2 DEF Written
  <2>2. file' \in [Path -> Text \cup {Absent}] /\ onlyHere' \subseteq Text
    BY <1>1, <1>2 DEF Written
  <2> QED BY <1>1, <2>1, <2>2, AnswerStep
<1>3. ASSUME NEW outcome \in {"ok", "failed"}, Moved(t, outcome)
      PROVE  Typed' /\ SaveOwed'
  <2>1. Answer(t, outcome, 0) /\ task[t].path \in Path
    BY <1>1, <1>3 DEF Moved, At, Addressed
  <2>2. file' \in [Path -> Text \cup {Absent}] /\ onlyHere' \subseteq Text
    BY <1>1, <1>3, <2>1 DEF Moved
  <2> QED BY <1>1, <2>1, <2>2, AnswerStep
<1>4. ASSUME NEW outcome \in {"ok", "failed"}, Deleted(t, outcome)
      PROVE  Typed' /\ SaveOwed'
  <2>1. Answer(t, outcome, 0)
    BY <1>4 DEF Deleted
  <2>2. file' \in [Path -> Text \cup {Absent}] /\ onlyHere' \subseteq Text
    BY <1>1, <1>4 DEF Deleted
  <2> QED BY <1>1, <2>1, <2>2, AnswerStep
<1>5. CASE Refused(t)
  <2>1. Answer(t, "conflict", 0) /\ file' = file /\ onlyHere' = onlyHere
    BY <1>5 DEF Refused
  <2> QED BY <1>1, <2>1, AnswerStep
<1>6. CASE NoteRead(t)
  <2>1. PICK p \in Path : file[p] # Absent /\ Answer(t, "ok", file[p])
    BY <1>1, <1>6 DEF NoteRead, At, Addressed
  <2>2. file[p] \in Text /\ file' = file /\ onlyHere' = onlyHere
    BY <1>1, <1>6, <2>1 DEF NoteRead
  <2> QED BY <1>1, <2>1, <2>2, AnswerStep
<1>7. CASE Failed(t)
  <2>1. Answer(t, "failed", 0) /\ file' = file /\ onlyHere' = onlyHere
    BY <1>7 DEF Failed
  <2> QED BY <1>1, <2>1, AnswerStep
<1> QED BY <1>2, <1>3, <1>4, <1>5, <1>6, <1>7 DEF Serves

LEMMA ContinuesKept ==
  ASSUME Typed, SaveOwed, NEW t \in Task, Continues(t)
  PROVE  Typed' /\ SaveOwed'
<1>1. task[t] \in TaskState /\ Addressed(task[t]) /\ draft \in Draft
  BY DEF Typed, DraftTypeOK, Chains
<1>2. CASE SaveCheck(t)
  <2>1. PICK then : /\ then = IF Unsaved(draft) THEN Put(task[t], draft) ELSE Go(task[t], draft)
                    /\ Become(t, then) /\ Reports(t, then)
    BY <1>2 DEF SaveCheck
  <2>2. UNCHANGED <<draft, shown, heard, timer, conflict, loading, gaveUp, world>>
    BY <1>2 DEF SaveCheck
  <2>3. /\ then \in TaskState /\ Addressed(then)
        /\ Unsaved(draft) => then.pc = "put" /\ then.note = draft.path
    BY <1>1, <2>1, PutFact, GoFact DEF Unsaved
  <2>4. Chains' /\ task'[t] = then
    BY <2>1, <2>3, BecomeFact DEF Typed
  <2>5. Typed'
    BY <2>1, <2>2, <2>4 DEF Typed, DraftTypeOK, Chains, Addressed, Reports, world
  <2>6. Unsaved(draft) => Owes(t)'
    BY <2>2, <2>3, <2>4 DEF Owes, At
  <2>7. SaveOwed'
    BY <2>2, <2>6 DEF SaveOwed, Unsaved
  <2> QED BY <2>5, <2>7
<1>3. CASE OpenNote(t)
  <2>1. PICK then \in TaskState : /\ Become(t, then) /\ Addressed(then) /\ then.pc = "load"
    <3> DEFINE e == [task[t] EXCEPT !.pc = "load"]
    <3>1. e \in TaskState /\ Addressed(e) /\ e.pc = "load"
      BY <1>1, <1>3, MoveOnFact DEF OpenNote
    <3>2. Become(t, e)
      BY <1>3 DEF OpenNote
    <3> HIDE DEF e
    <3> QED BY <3>1, <3>2
  <2>2. Chains' /\ task'[t] = then /\ \A u \in Task \ {t} : task'[u] = task[u]
    BY <2>1, BecomeFact DEF Typed
  <2>3. /\ loading' = TRUE /\ shown' = 0 /\ heard' = TRUE
        /\ UNCHANGED <<draft, timer, saving, status, conflict, gaveUp, world>>
    BY <1>3 DEF OpenNote
  <2>4. Typed'
    BY <2>2, <2>3, TextFacts DEF Typed, DraftTypeOK, Chains, Addressed, world
  <2>5. ~Owes(t)
    BY <1>3 DEF OpenNote, Returns, Owes, At
  <2>6. SaveOwed'
    BY <2>2, <2>3, <2>5, OwedKept
  <2> QED BY <2>4, <2>6
<1>4. CASE CloseTab(t)
  <2>1. draft' = NoDraft /\ shown' = 0 /\ heard' = TRUE /\ status' = "saved" /\ gaveUp' = FALSE
    BY <1>4 DEF CloseTab, DropDraft
  <2>2. UNCHANGED <<saving, conflict, loading, world>> /\ timer' \in BOOLEAN
    BY <1>4 DEF CloseTab, Typed, DraftTypeOK
  <2>3. PICK then \in TaskState : Become(t, then) /\ Addressed(then)
    <3>1. task[t].next \in Path \cup {NoPath}
      BY <1>1, ChainFields
    <3>2. CASE task[t].next = NoPath
      BY <1>4, <3>2, IdleFact DEF CloseTab
    <3>3. CASE task[t].next \in Path
      <4>1. PICK p \in Path : p = task[t].next
        BY <3>3
      <4> DEFINE e == [Idle EXCEPT !.op = "open", !.path = p]
      <4>2. e \in TaskState /\ Addressed(e)
        BY OpenFact
      <4>3. Become(t, SaveDraft(e, NoDraft))
        BY <1>4, <4>1, EditorAssumption DEF CloseTab
      <4> HIDE DEF e
      <4> QED BY <4>2, <4>3, SaveDraftFact, NoDraftFact DEF Typed
    <3> QED BY <3>1, <3>2, <3>3
  <2>4. Chains'
    BY <2>3, BecomeFact DEF Typed
  <2>5. Typed'
    BY <2>1, <2>2, <2>4, NoDraftFact, TextFacts DEF Typed, DraftTypeOK, Chains, Addressed, world
  <2>6. SaveOwed'
    BY <2>1, NoDraftFact, CleanFact
  <2> QED BY <2>5, <2>6
<1>5. CASE Act(t)
  <2>1. PICK then \in TaskState : /\ Become(t, then) /\ Addressed(then)
    <3> DEFINE e == [task[t] EXCEPT !.pc = "act"]
    <3>1. e \in TaskState /\ Addressed(e)
      BY <1>1, MoveOnFact
    <3>2. Become(t, e)
      BY <1>5 DEF Act
    <3> HIDE DEF e
    <3> QED BY <3>1, <3>2
  <2>2. Chains' /\ task'[t] = then /\ \A u \in Task \ {t} : task'[u] = task[u]
    BY <2>1, BecomeFact DEF Typed
  <2>3. UNCHANGED <<client, world>>
    BY <1>5 DEF Act
  <2>4. Typed'
    BY <2>2, <2>3 DEF Typed, DraftTypeOK, Chains, Addressed, client, world
  <2>5. ~Owes(t)
    BY <1>5 DEF Act, Returns, Owes, At
  <2>6. SaveOwed'
    BY <2>2, <2>3, <2>5, OwedKept DEF client
  <2> QED BY <2>4, <2>6
<1> QED BY <1>2, <1>3, <1>4, <1>5 DEF Continues

\* The answers to a PUT: it is the snapshot that is saved now, and the draft may
\* have moved on or be another note's.
LEMMA SaveSucceedsKept ==
  ASSUME Typed, SaveOwed, NEW t \in Task, SaveSucceeds(t)
  PROVE  Typed' /\ SaveOwed'
<1>1. /\ task[t] \in TaskState /\ Addressed(task[t]) /\ task[t].text \in Text /\ draft \in Draft
      /\ task[t].pc = "put" /\ task[t].note \in Path
  BY ChainFields DEF Typed, DraftTypeOK, Chains, SaveSucceeds, At, Addressed
<1>2. PICK x \in Text : x = task[t].text
  BY <1>1
<1>3. CASE draft.path = task[t].note
  <2>1. PICK after \in Draft : after = [draft EXCEPT !.saved = x] /\ after.path = draft.path
    BY <1>1, DraftEdited
  <2>2. PICK own : /\ own = IF Unsaved(after) THEN Put(task[t], after) ELSE Go(task[t], draft)
                   /\ Settle(t, own, TRUE) /\ draft' = after
                   /\ Unsaved(after) => timer' = FALSE
                   /\ ~Unsaved(after) => timer' = timer
    BY <1>2, <1>3, <2>1 DEF SaveSucceeds
  <2>3. /\ gaveUp' = FALSE /\ saving' \in {t, NoTask} /\ status' \in {"saving", "saved"}
        /\ UNCHANGED <<shown, heard, conflict, loading, world>>
    BY <1>3 DEF SaveSucceeds, Typed, DraftTypeOK
  <2>4. /\ own \in TaskState /\ Addressed(own)
        /\ Unsaved(after) => own.pc = "put" /\ own.note = after.path
    BY <1>1, <2>2, PutFact, GoFact DEF Unsaved
  <2>5. Chains' /\ task'[t] = own
    BY <2>2, <2>4, SettleFact DEF Typed
  <2>6. timer' \in BOOLEAN
    BY <2>2 DEF Typed, DraftTypeOK
  <2>7. Typed'
    BY <2>2, <2>3, <2>5, <2>6 DEF Typed, DraftTypeOK, Chains, Addressed, world
  <2>8. Unsaved(draft') => Owes(t)'
    BY <2>2, <2>4, <2>5 DEF Owes, At
  <2>9. SaveOwed'
    BY <2>8 DEF SaveOwed, Unsaved
  <2> QED BY <2>7, <2>9
<1>4. CASE draft.path # task[t].note
  <2>1. /\ Settle(t, Go(task[t], draft), TRUE) /\ saving' = NoTask /\ status' = "saved"
        /\ gaveUp' = gaveUp
        /\ UNCHANGED <<draft, timer, shown, heard, conflict, loading, world>>
    BY <1>4 DEF SaveSucceeds, Typed, DraftTypeOK
  <2>2. Go(task[t], draft) \in TaskState /\ Addressed(Go(task[t], draft))
    BY <1>1, GoFact
  <2>3. /\ Chains'
        /\ \A u \in Task \ {t} : task'[u] = task[u] \/ task'[u].pc = "check"
    BY <2>1, <2>2, SettleFact DEF Typed
  <2>4. Typed'
    BY <2>1, <2>3 DEF Typed, DraftTypeOK, Chains, Addressed, world
  <2>5. ~Owes(t)
    BY <1>1, <1>4 DEF Owes, At
  <2>6. \A u \in Task : Owes(u) => Owes(u)'
    BY <2>1, <2>3, <2>5 DEF Owes, At
  <2>7. SaveOwed'
    BY <2>1, <2>6 DEF SaveOwed, Unsaved
  <2> QED BY <2>4, <2>7
<1> QED BY <1>3, <1>4

LEMMA SaveEndsKept ==
  ASSUME Typed, SaveOwed, NEW t \in Task, SaveConflicts(t) \/ SaveFails(t)
  PROVE  Typed' /\ SaveOwed'
<1>1. task[t] \in TaskState /\ task[t].text \in Text /\ (At(t, "put") => task[t].note \in Path)
  BY ChainFields DEF Typed, Chains, Addressed, At
<1>2. PICK own \in TaskState : Addressed(own) /\ Settle(t, own, FALSE)
  <2>1. CASE SaveConflicts(t)
    <3>1. PICK p \in Path, x \in Text : p = task[t].note /\ x = task[t].text
      BY <1>1, <2>1 DEF SaveConflicts
    <3> DEFINE e == [Idle EXCEPT !.pc = "read", !.op = "save", !.note = p, !.text = x]
    <3>2. e \in TaskState /\ Addressed(e)
      BY ReadFact
    <3>3. Settle(t, e, FALSE)
      BY <2>1, <3>1 DEF SaveConflicts
    <3> HIDE DEF e
    <3> QED BY <3>2, <3>3
  <2>2. CASE SaveFails(t)
    BY <2>2, IdleFact DEF SaveFails
  <2> QED BY <2>1, <2>2
<1>3. /\ gaveUp' = TRUE /\ saving' \in {saving, NoTask} /\ status' \in {"conflict", "error"}
      /\ UNCHANGED <<draft, shown, heard, timer, conflict, loading, world>>
  BY DEF SaveConflicts, SaveFails
<1>4. Chains'
  BY <1>2, SettleFact DEF Typed
<1>5. Typed'
  BY <1>3, <1>4 DEF Typed, DraftTypeOK, Chains, Addressed, world
<1>6. SaveOwed'
  BY <1>3 DEF SaveOwed
<1> QED BY <1>5, <1>6

\* The reads after a conflict leave the draft, and only offer a choice.
LEMMA ConflictReadKept ==
  ASSUME Typed, SaveOwed, NEW t \in Task, ConflictRead(t) \/ Reread(t)
  PROVE  Typed' /\ SaveOwed'
<1>1. /\ task[t] \in TaskState /\ task[t].note \in Path /\ ~Owes(t)
      /\ task[t].text \in Text /\ task[t].yours \in Text /\ task[t].got \in Text
  BY ChainFields DEF Typed, Chains, Addressed, At, ConflictRead, Reread, Owes
<1>2. /\ Become(t, Idle) /\ saving' \in {saving, NoTask}
      /\ UNCHANGED <<draft, shown, heard, timer, status, loading, gaveUp, file, top, begun, hidden, onlyHere>>
  BY DEF ConflictRead, Reread
<1>3. \/ UNCHANGED <<conflict, seen>>
      \/ /\ seen' = seen \cup {task[t].got}
         /\ \E y \in Text : conflict' = [path |-> task[t].note, server |-> task[t].got, yours |-> y]
  BY <1>1 DEF ConflictRead, Reread, Saw
<1>4. Chains' /\ task'[t] = Idle /\ \A u \in Task \ {t} : task'[u] = task[u]
  BY <1>2, IdleFact, BecomeFact DEF Typed
<1>5. /\ conflict' \in Pending /\ (conflict' # NoConflict => conflict'.path \in Path)
      /\ seen' \subseteq Text
  <2>1. CASE UNCHANGED <<conflict, seen>>
    BY <2>1 DEF Typed, DraftTypeOK
  <2>2. CASE ~UNCHANGED <<conflict, seen>>
    <3>1. PICK y \in Text : conflict' = [path |-> task[t].note, server |-> task[t].got, yours |-> y]
      BY <1>3, <2>2
    <3>2. conflict'.path = task[t].note
      BY <3>1
    <3>3. seen' = seen \cup {task[t].got}
      BY <1>3, <2>2
    <3> QED BY <1>1, <3>1, <3>2, <3>3, PendingFacts DEF Typed, DraftTypeOK
  <2> QED BY <2>1, <2>2
<1>6. Typed'
  BY <1>2, <1>4, <1>5 DEF Typed, DraftTypeOK, Chains, Addressed
<1>7. SaveOwed'
  BY <1>1, <1>2, <1>4, OwedKept
<1> QED BY <1>6, <1>7

\* A resolution or a note that was loaded becomes the draft, which is clean.
LEMMA AdoptFact ==
  ASSUME Typed, NEW p \in Path, NEW x \in Text, Adopt(p, x)
  PROVE  /\ draft' \in Draft /\ ~Unsaved(draft') /\ shown' \in Text /\ heard' \in BOOLEAN
         /\ conflict' = NoConflict /\ status' = "saved" /\ gaveUp' = FALSE
BY DraftMade DEF Adopt, Show, Typed, DraftTypeOK

LEMMA NoteLoadedKept ==
  ASSUME Typed, SaveOwed, NEW t \in Task, NoteLoaded(t)
  PROVE  Typed' /\ SaveOwed'
<1>1. /\ task[t].path \in Path /\ task[t].got \in Text /\ ~Owes(t)
  BY ChainFields DEF Typed, Chains, Addressed, At, NoteLoaded, Owes
<1>2. /\ Become(t, Idle) /\ loading' = FALSE
      /\ UNCHANGED <<timer, saving, conflict, file, top, begun, onlyHere>>
  BY DEF NoteLoaded
<1>3. Chains' /\ task'[t] = Idle /\ \A u \in Task \ {t} : task'[u] = task[u]
  BY <1>2, IdleFact, BecomeFact DEF Typed
<1>4. CASE task[t].answer = "ok"
  <2>1. PICK p \in Path, x \in Text : p = task[t].path /\ x = task[t].got
    BY <1>1
  <2>2. /\ draft' = [path |-> p, content |-> x, saved |-> x]
        /\ Show(p, x) /\ status' = "saved" /\ gaveUp' = FALSE
        /\ \/ seen' = seen \cup {x} /\ hidden' = hidden
           \/ seen' = seen /\ hidden' = hidden \cup {x}
    BY <1>4, <2>1 DEF NoteLoaded, Saw
  <2>3. draft' \in Draft /\ ~Unsaved(draft')
    BY <2>2, DraftMade
  <2>4. shown' \in Text /\ heard' \in BOOLEAN /\ seen' \subseteq Text /\ hidden' \subseteq Text
    BY <2>2 DEF Show, Typed, DraftTypeOK
  <2>5. Typed'
    BY <1>2, <1>3, <2>2, <2>3, <2>4 DEF Typed, DraftTypeOK, Chains, Addressed
  <2> QED BY <2>3, <2>5, CleanFact
<1>5. CASE task[t].answer # "ok"
  <2>1. /\ UNCHANGED <<draft, heard, status, hidden, gaveUp>>
        /\ \/ shown' = draft.content /\ seen' = seen \cup {draft.content}
           \/ shown' = shown /\ seen' = seen
    BY <1>5 DEF NoteLoaded, Saw
  <2>2. shown' \in Text /\ seen' \subseteq Text
    BY <2>1, DraftFields DEF Typed, DraftTypeOK
  <2>3. Typed'
    BY <1>2, <1>3, <2>1, <2>2 DEF Typed, DraftTypeOK, Chains, Addressed
  <2>4. SaveOwed'
    BY <1>1, <1>2, <1>3, <2>1, OwedKept
  <2> QED BY <2>3, <2>4
<1> QED BY <1>4, <1>5

LEMMA ActDoneKept ==
  ASSUME Typed, SaveOwed, NEW t \in Task, ActDone(t)
  PROVE  Typed' /\ SaveOwed'
<1>1. task[t] \in TaskState /\ Addressed(task[t]) /\ ~Owes(t)
  BY DEF Typed, Chains, At, ActDone, Owes
<1>2. UNCHANGED <<timer, saving, conflict, loading, world>>
  BY DEF ActDone
<1>3. CASE task[t].answer = "ok" /\ task[t].affected
  <2>1. /\ draft' = NoDraft /\ shown' = 0 /\ heard' = TRUE /\ gaveUp' = FALSE /\ status' \in {"saved", status}
    BY <1>3 DEF ActDone, DropDraft
  <2> DEFINE e == [task[t] EXCEPT !.pc = "tree", !.answer = "none"]
  <2>2. e \in TaskState /\ Addressed(e)
    BY <1>1, TreeFact
  <2>3. Become(t, e)
    BY <1>3 DEF ActDone
  <2> HIDE DEF e
  <2>4. Chains'
    BY <2>2, <2>3, BecomeFact DEF Typed
  <2>5. Typed'
    BY <1>2, <2>1, <2>4, NoDraftFact, TextFacts DEF Typed, DraftTypeOK, Chains, Addressed, world
  <2> QED BY <2>1, <2>5, NoDraftFact, CleanFact
<1>4. CASE ~(task[t].answer = "ok" /\ task[t].affected)
  <2>1. Become(t, Idle) /\ UNCHANGED <<draft, shown, heard, status, gaveUp>>
    BY <1>4 DEF ActDone
  <2>2. Chains' /\ task'[t] = Idle /\ \A u \in Task \ {t} : task'[u] = task[u]
    BY <2>1, IdleFact, BecomeFact DEF Typed
  <2>3. Typed'
    BY <1>2, <2>1, <2>2 DEF Typed, DraftTypeOK, Chains, Addressed, world
  <2>4. SaveOwed'
    BY <1>1, <1>2, <2>1, <2>2, OwedKept
  <2> QED BY <2>3, <2>4
<1> QED BY <1>3, <1>4

LEMMA TreeLoadedKept ==
  ASSUME Typed, SaveOwed, NEW t \in Task, TreeLoaded(t)
  PROVE  Typed' /\ SaveOwed'
<1>1. task[t].next \in Path \cup {NoPath} /\ ~Owes(t)
  BY ChainFields DEF Typed, Chains, At, TreeLoaded, Owes
<1>2. CASE task[t].next = NoPath
  <2>1. Become(t, Idle) /\ UNCHANGED <<client, world>>
    BY <1>2 DEF TreeLoaded
  <2>2. Chains' /\ task'[t] = Idle /\ \A u \in Task \ {t} : task'[u] = task[u]
    BY <2>1, IdleFact, BecomeFact DEF Typed
  <2>3. Typed'
    BY <2>1, <2>2 DEF Typed, DraftTypeOK, Chains, Addressed, client, world
  <2>4. SaveOwed'
    BY <1>1, <2>1, <2>2, OwedKept DEF client
  <2> QED BY <2>3, <2>4
<1>3. CASE task[t].next # NoPath
  <2>1. PICK p \in Path : p = task[t].next
    BY <1>1, <1>3
  <2> DEFINE e == [Idle EXCEPT !.op = "open", !.path = p]
  <2>2. e \in TaskState /\ Addressed(e)
    BY OpenFact
  <2>3. Call(t, e) /\ begun' = begun
    BY <1>3, <2>1 DEF TreeLoaded
  <2> HIDE DEF e
  <2>4. begun' \in 0..MaxChains
    BY <2>3 DEF Typed, DraftTypeOK
  <2> QED BY <2>2, <2>3, <2>4, CallTyped, CallOwed
<1> QED BY <1>2, <1>3

LEMMA ResolvedKept ==
  ASSUME Typed, SaveOwed, NEW t \in Task, Resolved(t)
  PROVE  Typed' /\ SaveOwed'
<1>1. /\ task[t] \in TaskState /\ Addressed(task[t]) /\ task[t].pc = "resolve"
      /\ task[t].note \in Path /\ task[t].text \in Text /\ ~Owes(t)
  BY ChainFields DEF Typed, Chains, Addressed, At, Resolved, Owes
<1>2. UNCHANGED <<timer, saving, loading, world>>
  BY DEF Resolved
<1>3. CASE task[t].answer = "ok"
  <2>1. Adopt(task[t].note, task[t].text) /\ Become(t, Idle)
    BY <1>3 DEF Resolved
  <2>2. /\ draft' \in Draft /\ ~Unsaved(draft') /\ shown' \in Text /\ heard' \in BOOLEAN
        /\ conflict' = NoConflict /\ status' = "saved" /\ gaveUp' = FALSE
    BY <1>1, <2>1, AdoptFact
  <2>3. Chains'
    BY <2>1, IdleFact, BecomeFact DEF Typed
  <2>4. Typed'
    BY <1>2, <2>2, <2>3, PendingFacts DEF Typed, DraftTypeOK, Chains, Addressed, world
  <2> QED BY <2>2, <2>4, CleanFact
<1>4. CASE task[t].answer # "ok"
  <2> DEFINE e == [task[t] EXCEPT !.pc = "reread", !.answer = "none", !.text = 0, !.base = 0]
  <2>1. e \in TaskState /\ Addressed(e)
    BY <1>1, RereadFact
  <2>2. Become(t, e) /\ UNCHANGED <<draft, shown, heard, conflict, status, gaveUp>>
    BY <1>4 DEF Resolved
  <2> HIDE DEF e
  <2>3. Chains' /\ task'[t] = e /\ \A u \in Task \ {t} : task'[u] = task[u]
    BY <2>1, <2>2, BecomeFact DEF Typed
  <2>4. Typed'
    BY <1>2, <2>2, <2>3 DEF Typed, DraftTypeOK, Chains, Addressed, world
  <2>5. SaveOwed'
    BY <1>1, <1>2, <2>2, <2>3, OwedKept
  <2> QED BY <2>4, <2>5
<1> QED BY <1>3, <1>4

LEMMA ChainKept ==
  ASSUME Typed, NEW t \in Task, NEW op \in {"save", "open", "close", "move", "delete"},
         NEW p \in Path \cup {NoPath}, NEW next \in Path \cup {NoPath},
         op \in {"open", "move", "delete"} => p \in Path, Chain(t, op, p, next)
  PROVE  Typed' /\ SaveOwed'
<1>1. PICK b \in BOOLEAN : b = (op \in {"move", "delete"} /\ draft.path = p)
  OBVIOUS
<1> DEFINE e == [Idle EXCEPT !.op = op, !.path = p, !.next = next, !.affected = b]
<1>2. e \in TaskState /\ Addressed(e)
  BY BeginFact
<1>3. Call(t, e) /\ begun < MaxChains /\ begun' = begun + 1
  BY <1>1 DEF Chain, Begins
<1> HIDE DEF e
<1>4. begun' \in 0..MaxChains
  BY <1>3, EditorAssumption DEF Typed, DraftTypeOK
<1> QED BY <1>2, <1>3, <1>4, CallTyped, CallOwed

LEMMA TimerKept ==
  ASSUME Typed, NEW t \in Task, TimerFires(t)
  PROVE  Typed' /\ SaveOwed'
<1>1. PICK c \in TaskState : Addressed(c) /\ Call(t, c)
  BY AutosaveFact DEF TimerFires
<1>2. begun' \in 0..MaxChains
  BY DEF TimerFires, Typed, DraftTypeOK
<1> QED BY <1>1, <1>2, CallTyped, CallOwed

LEMMA ResolveKept ==
  ASSUME Typed, SaveOwed, NEW t \in Task, NEW combined \in BOOLEAN, Resolve(t, combined)
  PROVE  Typed' /\ SaveOwed'
<1>1. /\ conflict.path \in Path /\ conflict.server \in Text /\ conflict.yours \in Text /\ ~Owes(t)
  BY PendingFacts DEF Typed, DraftTypeOK, Resolve, Begins, At, Owes
<1>2. PICK x : x = IF combined THEN top + 1 ELSE conflict.yours
  OBVIOUS
<1>3. x \in Text /\ top' \in Text
  BY <1>1, <1>2, TextFacts DEF Resolve, Typed, DraftTypeOK
<1>4. PICK p \in Path, y \in Text, z \in Text :
        p = conflict.path /\ y = conflict.server /\ z = conflict.yours
  BY <1>1
<1> DEFINE e == [Idle EXCEPT !.pc = "resolve", !.op = "resolve", !.note = p, !.text = x, !.base = y,
                             !.yours = z]
<1>5. e \in TaskState /\ Addressed(e)
  BY <1>3, ResolveFact
<1>6. Become(t, e)
  BY <1>2, <1>4 DEF Resolve
<1> HIDE DEF e
<1>7. /\ seen' = seen \cup {x} /\ begun' = begun + 1 /\ begun < MaxChains
      /\ UNCHANGED <<client, file, hidden, onlyHere>>
  BY <1>2 DEF Resolve, Saw, Begins
<1>8. Chains' /\ task'[t] = e /\ \A u \in Task \ {t} : task'[u] = task[u]
  BY <1>5, <1>6, BecomeFact DEF Typed
<1>9. seen' \subseteq Text /\ begun' \in 0..MaxChains
  BY <1>3, <1>7, EditorAssumption DEF Typed, DraftTypeOK
<1>10. Typed'
  BY <1>3, <1>7, <1>8, <1>9 DEF Typed, DraftTypeOK, Chains, Addressed, client
<1>11. SaveOwed'
  BY <1>1, <1>7, <1>8, OwedKept DEF client
<1> QED BY <1>10, <1>11

LEMMA GestureKept ==
  ASSUME Typed, SaveOwed, NEW t \in Task, Gesture(t)
  PROVE  Typed' /\ SaveOwed'
<1>1. CASE TimerFires(t) \/ Save(t)
  BY <1>1, TimerKept, ChainKept DEF Save
<1>2. CASE \E p \in Path : Open(t, p)
  BY <1>2, ChainKept DEF Open
<1>3. CASE \E p \in Path \cup {NoPath} : Close(t, p)
  BY <1>3, ChainKept DEF Close
<1>4. CASE \E p \in Path : \E q \in Path : Move(t, p, q)
  BY <1>4, ChainKept DEF Move
<1>5. CASE \E p \in Path : \E next \in Path \cup {NoPath} : Delete(t, p, next)
  BY <1>5, ChainKept DEF Delete
<1>6. CASE \E combined \in BOOLEAN : Resolve(t, combined)
  BY <1>6, ResolveKept
<1> QED BY <1>1, <1>2, <1>3, <1>4, <1>5, <1>6 DEF Gesture

\* Typing is nothing to the draft yet.
LEMMA TypeKept ==
  ASSUME Typed, SaveOwed, Type
  PROVE  Typed' /\ SaveOwed'
<1>1. PICK x \in Text : x = top + 1
  BY TextFacts DEF Type, Typed, DraftTypeOK
<1>2. /\ top' = x /\ shown' = x /\ heard' = FALSE
      /\ seen' = seen \cup {x} /\ onlyHere' = onlyHere \cup {x}
      /\ UNCHANGED <<file, draft, timer, saving, status, conflict, loading, begun, hidden, gaveUp>>
  BY <1>1 DEF Type, Saw
<1>3. Chains'
  BY LateChains DEF Type, Typed
<1>4. Typed'
  BY <1>2, <1>3 DEF Typed, DraftTypeOK, Chains, Addressed
<1>5. ASSUME NEW t \in Task PROVE Owes(t) => Owes(t)'
  <2>1. task[t] \in TaskState
    BY DEF Typed, Chains
  <2>2. task'[t].pc = task[t].pc /\ task'[t].note = task[t].note
    BY <2>1 DEF Type, TaskState
  <2> QED BY <1>2, <2>2 DEF Owes, At
<1>6. SaveOwed'
  BY <1>2, <1>5 DEF SaveOwed, Unsaved
<1> QED BY <1>4, <1>6

\* A report that changes the draft sets the timer.
LEMMA ReportKept ==
  ASSUME Typed, SaveOwed, Report
  PROVE  Typed' /\ SaveOwed'
<1>1. heard' = TRUE /\ UNCHANGED <<shown, saving, conflict, loading, task, gaveUp, world>>
  BY DEF Report
<1>2. CASE draft.content = shown
  <2>1. UNCHANGED <<draft, status, timer>>
    BY <1>2 DEF Report
  <2>2. Typed'
    BY <1>1, <2>1 DEF Typed, DraftTypeOK, Chains, Addressed, world
  <2>3. SaveOwed'
    BY <1>1, <2>1 DEF SaveOwed, Owes, At, Unsaved
  <2> QED BY <2>2, <2>3
<1>3. CASE draft.content # shown
  <2>1. draft' = [draft EXCEPT !.content = shown] /\ status' = "unsaved" /\ timer' = TRUE
    BY <1>3 DEF Report
  <2>2. draft' \in Draft
    BY <2>1, DraftEdited DEF Typed, DraftTypeOK
  <2>3. Typed'
    BY <1>1, <2>1, <2>2 DEF Typed, DraftTypeOK, Chains, Addressed, world
  <2>4. SaveOwed'
    BY <2>1 DEF SaveOwed
  <2> QED BY <2>3, <2>4
<1> QED BY <1>2, <1>3

\* The steps that change no chain.
LEMMA ChoiceKept ==
  ASSUME Typed, SaveOwed, UseServer \/ DecideLater
  PROVE  Typed' /\ SaveOwed'
<1>1. CASE UseServer
  <2>1. conflict.path \in Path /\ conflict.server \in Text
    BY <1>1, PendingFacts DEF UseServer, Typed, DraftTypeOK
  <2>2. Adopt(conflict.path, conflict.server) /\ UNCHANGED <<timer, saving, loading, task, world>>
    BY <1>1 DEF UseServer
  <2>3. /\ draft' \in Draft /\ ~Unsaved(draft') /\ shown' \in Text /\ heard' \in BOOLEAN
        /\ conflict' = NoConflict /\ status' = "saved" /\ gaveUp' = FALSE
    BY <2>1, <2>2, AdoptFact
  <2>4. Typed'
    BY <2>2, <2>3, PendingFacts DEF Typed, DraftTypeOK, Chains, Addressed, world
  <2> QED BY <2>3, <2>4, CleanFact
<1>2. CASE DecideLater
  <2>1. /\ conflict' = NoConflict
        /\ UNCHANGED <<draft, shown, heard, timer, saving, status, loading, gaveUp, task, world>>
    BY <1>2 DEF DecideLater
  <2>2. Typed'
    BY <2>1, PendingFacts DEF Typed, DraftTypeOK, Chains, Addressed, world
  <2>3. SaveOwed'
    BY <2>1 DEF SaveOwed, Owes, At, Unsaved
  <2> QED BY <2>2, <2>3
<1> QED BY <1>1, <1>2

LEMMA OtherSessionKept ==
  ASSUME Typed, SaveOwed, NEW p \in Path, OtherSession(p)
  PROVE  Typed' /\ SaveOwed'
<1>1. PICK x \in Text : x = top + 1
  BY TextFacts DEF OtherSession, Typed, DraftTypeOK
<1>2. /\ top' = x /\ file' = [file EXCEPT ![p] = x]
      /\ UNCHANGED <<client, task, begun, seen, hidden, onlyHere>>
  BY <1>1 DEF OtherSession
<1>3. file' \in [Path -> Text \cup {Absent}]
  BY <1>2 DEF Typed, DraftTypeOK
<1>4. Typed'
  BY <1>2, <1>3 DEF Typed, DraftTypeOK, Chains, Addressed, client
<1>5. SaveOwed'
  BY <1>2 DEF SaveOwed, Owes, At, Unsaved, client
<1> QED BY <1>4, <1>5

-----------------------------------------------------------------------------
(* What the texts that are stored, shown and on their way can be.  h: the    *)
(* editor has told of its text; O: the typed texts the server never stored;  *)
(* S: the texts the client has had; k: the last text made.                   *)

Had == seen \cup hidden

Small(c, k) == c.text \in 0..k /\ c.got \in 0..k /\ c.yours \in 0..k

\* A request sends a text and a version that the client has had; what the server
\* confirmed or sent is stored; and a chain that goes on after saving leaves no
\* text of the draft d unsaved and none untold, unless it is late.
Fits(c, d, h, O, S, k) ==
  /\ Small(c, k)
  /\ c.pc \in {"put", "resolve"} => c.text \in S /\ c.base \in S
  /\ c.pc \in {"put", "resolve"} /\ c.answer = "ok" => c.text \notin O
  /\ c.pc \in {"load", "read", "reread"} /\ c.answer = "ok" => c.got \notin O
  /\ c.pc = "go" => c.answer = "none"
  /\ ~c.late /\ c.pc \in {"go", "load", "act", "tree"} => d.content \notin O /\ h
  /\ ~c.late /\ c.pc = "put" /\ c.note # d.path => d.content \notin O /\ h

\* The client has had the text of a draft, and what it is based on is stored.
DraftFits(d, O, S, k) ==
  /\ d.content \in 0..k /\ d.saved \in 0..k /\ d.saved \notin O
  /\ d.path # NoPath => d.content \in S /\ d.saved \in S
  /\ d.path = NoPath => d.content = 0

ConflictFits ==
  /\ conflict.server \in 0..top /\ conflict.yours \in 0..top /\ conflict.server \notin onlyHere
  /\ conflict # NoConflict => conflict.server \in Had

FilesFit == \A p \in Path : file[p] # Absent => file[p] \in 0..top /\ file[p] \notin onlyHere

ChainsFit == \A t \in Task : Fits(task[t], draft, heard, onlyHere, Had, top)

\* An editor that has not told of its text is on the page.
UnheardFits == ~heard => Mounted /\ shown \in Had /\ shown \in 0..top

\* The invariant behind OnlyReloadedIsOverwritten and TypedTextIsKept.
Known ==
  /\ ChainsFit
  /\ DraftFits(draft, onlyHere, Had, top)
  /\ ConflictFits
  /\ FilesFit
  /\ UnheardFits
  /\ onlyHere \subseteq 1..top

\* Texts are natural numbers.
LEMMA TopFact == Text \subseteq Nat /\ (Typed => top \in Nat /\ top \in Text)
  BY EditorAssumption DEF Text, Typed, DraftTypeOK

\* A draft without unsaved text is stored.
LEMMA CleanIsStored ==
  ASSUME NEW d, NEW O, NEW S, NEW k \in Nat, DraftFits(d, O, S, k), O \subseteq 1..k, ~Unsaved(d)
  PROVE  d.content \notin O
<1>1. 0 \notin O
  OBVIOUS
<1> QED BY <1>1 DEF DraftFits, Unsaved

LEMMA NoDraftFits ==
  ASSUME NEW O, NEW S, NEW k \in Nat, O \subseteq 1..k
  PROVE  DraftFits(NoDraft, O, S, k) /\ NoDraft.content \notin O
<1>1. 0 \notin O /\ 0 \in 0..k
  OBVIOUS
<1> QED BY <1>1 DEF DraftFits, NoDraft

LEMMA IdleFits ==
  ASSUME NEW d, NEW h, NEW O, NEW S, NEW k \in Nat
  PROVE  Fits(Idle, d, h, O, S, k)
BY DEF Idle, Fits, Small

LEMMA PutFits ==
  ASSUME NEW c \in TaskState, NEW d \in Draft, NEW h, NEW O, NEW S, NEW k \in Nat,
         Small(c, k), DraftFits(d, O, S, k), d.path # NoPath
  PROVE  Fits(Put(c, d), d, h, O, S, k)
<1>1. PICK p \in Path \cup {NoPath}, x \in Text, y \in Text :
        p = d.path /\ x = d.content /\ y = d.saved
  BY DraftFields
<1> DEFINE e == [c EXCEPT !.pc = "put", !.note = p, !.text = x, !.base = y,
                          !.on = NoTask, !.answer = "none", !.late = FALSE]
<1>2. /\ e.pc = "put" /\ e.note = p /\ e.text = x /\ e.base = y /\ e.answer = "none"
      /\ e.got = c.got /\ e.yours = c.yours
  BY DEF TaskState
<1>3. Put(c, d) = e
  BY <1>1 DEF Put
<1> HIDE DEF e
<1> QED BY <1>1, <1>2, <1>3 DEF Fits, Small, DraftFits

LEMMA GoFits ==
  ASSUME NEW c \in TaskState, NEW d, NEW h, NEW O, NEW S, NEW k \in Nat,
         Small(c, k), c.late \/ d.content \notin O,
         (c.late \/ (d.path # NoPath /\ ~heard)) \/ h
  PROVE  Fits(Go(c, d), d, h, O, S, k)
<1>0. PICK b \in BOOLEAN : b = (c.late \/ (d.path # NoPath /\ ~heard))
  OBVIOUS
<1> DEFINE e == [c EXCEPT !.pc = "go", !.note = NoPath, !.text = 0, !.base = 0,
                          !.on = NoTask, !.answer = "none", !.late = b]
<1>1. /\ e.pc = "go" /\ e.text = 0 /\ e.got = c.got /\ e.yours = c.yours /\ e.late = b
      /\ e.answer = "none"
  BY DEF TaskState
<1>2. Go(c, d) = IF c.op = "save" THEN Idle ELSE e
  BY <1>0 DEF Go
<1>3. b \/ (d.content \notin O /\ h)
  BY <1>0
<1> HIDE DEF e
<1>4. Fits(e, d, h, O, S, k)
  BY <1>1, <1>3 DEF Fits, Small
<1> QED BY <1>2, <1>4, IdleFits

LEMMA WaitFits ==
  ASSUME NEW c \in TaskState, NEW u \in Task \cup {NoTask}, NEW d, NEW h, NEW O, NEW S, NEW k \in Nat,
         Small(c, k), NEW pc \in {"waiting", "check"}
  PROVE  Fits([c EXCEPT !.pc = pc, !.on = u], d, h, O, S, k)
<1> DEFINE e == [c EXCEPT !.pc = pc, !.on = u]
<1>1. e.pc = pc /\ e.text = c.text /\ e.got = c.got /\ e.yours = c.yours
  BY DEF TaskState
<1> HIDE DEF e
<1>2. Fits(e, d, h, O, S, k)
  BY <1>1 DEF Fits, Small
<1> QED BY <1>2 DEF e

LEMMA MoveOnFits ==
  ASSUME NEW c \in TaskState, NEW d, NEW h, NEW O, NEW S, NEW k, Fits(c, d, h, O, S, k),
         NEW pc \in {"load", "act"}, c.pc = "go"
  PROVE  Fits([c EXCEPT !.pc = pc], d, h, O, S, k)
<1> DEFINE e == [c EXCEPT !.pc = pc]
<1>1. /\ e.pc = pc /\ e.text = c.text /\ e.got = c.got /\ e.yours = c.yours
      /\ e.late = c.late /\ e.answer = c.answer
  BY DEF TaskState
<1> HIDE DEF e
<1>2. Fits(e, d, h, O, S, k)
  BY <1>1 DEF Fits, Small
<1> QED BY <1>2 DEF e

LEMMA TreeFits ==
  ASSUME NEW c \in TaskState, NEW d, NEW O, NEW S, NEW k, Small(c, k), d.content \notin O
  PROVE  Fits([c EXCEPT !.pc = "tree", !.answer = "none"], d, TRUE, O, S, k)
<1> DEFINE e == [c EXCEPT !.pc = "tree", !.answer = "none"]
<1>1. e.pc = "tree" /\ e.text = c.text /\ e.got = c.got /\ e.yours = c.yours
  BY DEF TaskState
<1> HIDE DEF e
<1>2. Fits(e, d, TRUE, O, S, k)
  BY <1>1 DEF Fits, Small
<1> QED BY <1>2 DEF e

LEMMA RereadFits ==
  ASSUME NEW c \in TaskState, NEW d, NEW h, NEW O, NEW S, NEW k \in Nat, Small(c, k)
  PROVE  Fits([c EXCEPT !.pc = "reread", !.answer = "none", !.text = 0, !.base = 0], d, h, O, S, k)
<1> DEFINE e == [c EXCEPT !.pc = "reread", !.answer = "none", !.text = 0, !.base = 0]
<1>1. e.pc = "reread" /\ e.text = 0 /\ e.got = c.got /\ e.yours = c.yours /\ e.answer = "none"
  BY DEF TaskState
<1> HIDE DEF e
<1>2. Fits(e, d, h, O, S, k)
  BY <1>1 DEF Fits, Small
<1> QED BY <1>2 DEF e

\* An answer with a text; what "ok" confirms or sends is stored.
LEMMA AnswerFits ==
  ASSUME NEW c \in TaskState, NEW d, NEW h, NEW O, NEW S, NEW k \in Nat, Fits(c, d, h, O, S, k),
         NEW o \in {"ok", "conflict", "failed"}, NEW x \in 0..k, c.pc # "go",
         o = "ok" /\ c.pc \in {"put", "resolve"} => c.text \notin O,
         o = "ok" /\ c.pc \in {"load", "read", "reread"} => x \notin O
  PROVE  Fits(Answered(c, o, x), d, h, O, S, k)
<1> DEFINE e == [c EXCEPT !.answer = o, !.got = x]
<1>1. /\ e.pc = c.pc /\ e.text = c.text /\ e.base = c.base /\ e.got = x /\ e.yours = c.yours
      /\ e.late = c.late /\ e.answer = o /\ e.note = c.note
  BY DEF TaskState
<1>2. Answered(c, o, x) = e
  BY DEF Answered
<1> HIDE DEF e
<1> QED BY <1>1, <1>2 DEF Fits, Small

LEMMA BeginFits ==
  ASSUME NEW op, NEW p, NEW next, NEW b, NEW k \in Nat
  PROVE  Small([Idle EXCEPT !.op = op, !.path = p, !.next = next, !.affected = b], k)
BY DEF Idle, Small

LEMMA OpenFits ==
  ASSUME NEW p, NEW k \in Nat
  PROVE  Small([Idle EXCEPT !.op = "open", !.path = p], k)
BY DEF Idle, Small

LEMMA ReadFits ==
  ASSUME NEW p, NEW k \in Nat, NEW x \in 0..k, NEW d, NEW h, NEW O, NEW S
  PROVE  Fits([Idle EXCEPT !.pc = "read", !.op = "save", !.note = p, !.text = x], d, h, O, S, k)
BY DEF Idle, Fits, Small

LEMMA ResolveFits ==
  ASSUME NEW p, NEW k \in Nat, NEW x \in 0..k, NEW y, NEW z \in 0..k, NEW d, NEW h, NEW O, NEW S,
         x \in S, y \in S
  PROVE  Fits([Idle EXCEPT !.pc = "resolve", !.op = "resolve", !.note = p, !.text = x, !.base = y,
                           !.yours = z], d, h, O, S, k)
BY DEF Idle, Fits, Small

\* saveDraft: a chain that goes on has no text of the draft unsaved.  No draft is
\* looked at only when the editor goes with it.
LEMMA SaveDraftFits ==
  ASSUME DraftTypeOK, NEW c \in TaskState, NEW d \in Draft, NEW h, NEW O, NEW S, NEW k \in Nat,
         Small(c, k), DraftFits(d, O, S, k), O \subseteq 1..k, h \/ (~heard /\ d.path # NoPath)
  PROVE  Fits(SaveDraft(c, d), d, h, O, S, k)
<1>1. saving \in Task \cup {NoTask}
  BY DEF DraftTypeOK
<1>2. CASE saving # NoTask /\ At(saving, "put")
  <2>1. PICK u \in Task \cup {NoTask} : u = saving
    BY <1>1
  <2> DEFINE e == [c EXCEPT !.pc = "waiting", !.on = u]
  <2>2. Fits(e, d, h, O, S, k)
    BY WaitFits
  <2>3. SaveDraft(c, d) = e
    BY <1>2, <2>1 DEF SaveDraft
  <2> HIDE DEF e
  <2> QED BY <2>2, <2>3
<1>3. CASE saving # NoTask /\ ~At(saving, "put")
  <2>1. SaveDraft(c, d) = Idle
    BY <1>3 DEF SaveDraft
  <2> QED BY <2>1, IdleFits
<1>4. CASE saving = NoTask /\ Unsaved(d)
  <2>1. SaveDraft(c, d) = Put(c, d) /\ d.path # NoPath
    BY <1>4 DEF SaveDraft, Unsaved
  <2> QED BY <2>1, PutFits
<1>5. CASE saving = NoTask /\ ~Unsaved(d)
  <2>1. SaveDraft(c, d) = Go(c, d)
    BY <1>5 DEF SaveDraft
  <2>2. d.content \notin O
    BY <1>5, CleanIsStored
  <2> QED BY <2>1, <2>2, GoFits
<1> QED BY <1>2, <1>3, <1>4, <1>5

-----------------------------------------------------------------------------
(* A chain that takes no part in a step.                                   *)

\* A draft that keeps its note and its text, or has a stored text, and an editor
\* that has told of its text, or has still not and shows the same note.
Follows(d, h, e, g, O) ==
  /\ (e.path = d.path /\ e.content = d.content) \/ e.content \notin O
  /\ g \/ (~h /\ e.path = d.path)

\* Texts are stored, seen and made while the draft d becomes e.
LEMMA Widen ==
  ASSUME NEW c, NEW d, NEW h, NEW O, NEW S, NEW k \in Nat, Fits(c, d, h, O, S, k),
         NEW e, NEW g, NEW P, NEW T, NEW j \in Nat,
         Follows(d, h, e, g, P), P \subseteq O, S \subseteq T, k <= j
  PROVE  Fits(c, e, g, P, T, j)
<1>1. 0..k \subseteq 0..j
  OBVIOUS
<1>2. Small(c, j)
  BY <1>1 DEF Fits, Small
<1>3. d.content \notin O => e.content \notin P
  BY DEF Follows
<1> QED BY <1>2, <1>3 DEF Fits, Follows

\* The variables that Fits speaks of only change as Widen allows.
Widens ==
  /\ top' \in Nat /\ top <= top'
  /\ onlyHere' \subseteq onlyHere /\ Had \subseteq Had'
  /\ Follows(draft, heard, draft', heard', onlyHere')

\* The editor stays as it is, or has told of its text.
EditorStays == heard' = TRUE \/ (heard' = heard /\ shown' = shown /\ (loading' => loading))

LEMMA OneChainFits ==
  ASSUME Typed, ChainsFit, Widens, NEW t \in Task, NEW c,
         task'[t] = c /\ \A u \in Task \ {t} : task'[u] = task[u],
         Fits(c, draft', heard', onlyHere', Had', top')
  PROVE  ChainsFit'
<1>1. ASSUME NEW u \in Task
      PROVE  Fits(task'[u], draft', heard', onlyHere', Had', top')
  <2>1. CASE u = t
    BY <2>1
  <2>2. CASE u # t
    <3>1. task'[u] = task[u] /\ Fits(task[u], draft, heard, onlyHere, Had, top) /\ top \in Nat
      BY <2>2, TopFact DEF ChainsFit
    <3> QED BY <3>1, Widen DEF Widens
  <2> QED BY <2>1, <2>2
<1> QED BY <1>1 DEF ChainsFit

LEMMA SettleFits ==
  ASSUME Typed, ChainsFit, Widens, NEW t \in Task, NEW own, NEW resumed \in BOOLEAN,
         Settle(t, own, resumed), Fits(own, draft', heard', onlyHere', Had', top')
  PROVE  ChainsFit'
<1> DEFINE next(u) ==
      IF u = t THEN own
      ELSE IF ~(At(u, "waiting") /\ task[u].on = t) THEN task[u]
      ELSE IF resumed THEN [task[u] EXCEPT !.pc = "check", !.on = NoTask] ELSE Idle
<1>1. \A u \in Task : task'[u] = next(u)
  BY DEF Settle
<1>2. ASSUME NEW u \in Task
      PROVE  Fits(next(u), draft', heard', onlyHere', Had', top')
  <2>1. /\ task[u] \in TaskState /\ Fits(task[u], draft, heard, onlyHere, Had, top)
        /\ top \in Nat /\ top' \in Nat
    BY TopFact DEF ChainsFit, Typed, Chains, Widens
  <2>2. Fits(task[u], draft', heard', onlyHere', Had', top')
    BY <2>1, Widen DEF Widens
  <2> DEFINE e == [task[u] EXCEPT !.pc = "check", !.on = NoTask]
  <2>3. Fits(e, draft', heard', onlyHere', Had', top')
    BY <2>1, <2>2, WaitFits DEF Fits
  <2>4. next(u) \in {own, task[u], Idle, e}
    OBVIOUS
  <2> HIDE DEF e, next
  <2> QED BY <2>1, <2>2, <2>3, <2>4, IdleFits
<1> HIDE DEF next
<1> QED BY <1>1, <1>2 DEF ChainsFit

\* The files and the conflict stay.
LEMMA OthersFit ==
  ASSUME Typed, Known, Widens, file' = file
  PROVE  /\ FilesFit' /\ onlyHere' \subseteq 1..top'
         /\ conflict' = conflict => ConflictFits'
<1>1. top \in Nat /\ top' \in Nat /\ top <= top'
  BY TopFact DEF Widens
<1>2. 0..top \subseteq 0..top' /\ 1..top \subseteq 1..top'
  BY <1>1
<1> QED BY <1>2 DEF Known, ConflictFits, FilesFit, Widens

\* A draft that stays.
LEMMA DraftStays ==
  ASSUME Typed, Known, Widens, draft' = draft
  PROVE  DraftFits(draft', onlyHere', Had', top')
<1>1. top \in Nat /\ top' \in Nat /\ top <= top'
  BY TopFact DEF Widens
<1>2. 0..top \subseteq 0..top'
  BY <1>1
<1> QED BY <1>2 DEF Known, DraftFits, Widens

\* A stored text on screen becomes the draft.
LEMMA StoredFits ==
  ASSUME NEW p, NEW x, NEW O, NEW S, NEW k, x \in 0..k, x \in S, x \notin O, p # NoPath
  PROVE  /\ DraftFits([path |-> p, content |-> x, saved |-> x], O, S, k)
         /\ [path |-> p, content |-> x, saved |-> x].content \notin O
BY DEF DraftFits

\* Nothing but the texts seen or made grows.
LEMMA Unchanging ==
  ASSUME Typed, UNCHANGED <<draft, top, onlyHere>>, Had \subseteq Had', EditorStays
  PROVE  Widens
BY TopFact DEF Widens, Follows, EditorStays

\* An editor that has not told of its text stays on the page.
LEMMA UnheardStays ==
  ASSUME Typed, Known, Widens, EditorStays
  PROVE  UnheardFits'
<1>1. CASE heard' = TRUE
  BY <1>1 DEF UnheardFits
<1>2. CASE heard' # TRUE
  <2>1. heard' = heard /\ shown' = shown /\ (loading' => loading) /\ heard \in BOOLEAN
    BY <1>2 DEF EditorStays, Typed, DraftTypeOK
  <2>2. ~heard /\ ~heard'
    BY <1>2, <2>1
  <2>3. draft.path # NoPath /\ ~loading /\ shown \in Had /\ shown \in 0..top
    BY <2>2 DEF Known, UnheardFits, Mounted
  <2>4. draft'.path = draft.path
    BY <2>2 DEF Widens, Follows
  <2>5. shown \in 0..top' /\ shown \in Had'
    <3>1. top \in Nat /\ top' \in Nat /\ top <= top' /\ Had \subseteq Had'
      BY TopFact DEF Widens
    <3> QED BY <2>3, <3>1
  <2> QED BY <2>1, <2>3, <2>4, <2>5 DEF UnheardFits, Mounted
<1> QED BY <1>1, <1>2

-----------------------------------------------------------------------------
(* Every step keeps what is known of the texts.                            *)

LEMMA CallKnown ==
  ASSUME Typed, Known, NEW t \in Task, NEW c \in TaskState, Addressed(c), Small(c, top), Call(t, c)
  PROVE  Known'
<1>1. /\ UNCHANGED <<draft, shown, heard, loading, conflict, file, top, onlyHere>>
      /\ draft \in Draft /\ top \in Nat /\ Had' = Had /\ EditorStays
  BY TopFact DEF Call, Typed, DraftTypeOK, Had, EditorStays
<1>2. PICK e \in TaskState : e = [c EXCEPT !.late = FALSE] /\ Addressed(e)
  BY LateFact
<1>3. Small(e, top)
  <2>1. e.text = c.text /\ e.got = c.got /\ e.yours = c.yours
    BY <1>2 DEF TaskState
  <2> QED BY <2>1 DEF Small
<1>4. Become(t, SaveDraft(e, draft))
  BY <1>2 DEF Call
<1>5. Fits(SaveDraft(e, draft), draft, heard, onlyHere, Had, top) /\ SaveDraft(e, draft) \in TaskState
      /\ Addressed(SaveDraft(e, draft))
  <2>1. heard \/ (~heard /\ draft.path # NoPath)
    BY DEF Known, UnheardFits, Mounted
  <2>2. Fits(SaveDraft(e, draft), draft, heard, onlyHere, Had, top)
    BY <1>1, <1>3, <2>1, SaveDraftFits DEF Known, Typed
  <2> QED BY <1>1, <1>2, <2>2, SaveDraftFact DEF Typed
<1>6. task'[t] = SaveDraft(e, draft) /\ \A u \in Task \ {t} : task'[u] = task[u]
  BY <1>4, <1>5, BecomeFact DEF Typed
<1>7. Widens
  BY <1>1, Unchanging
<1>8. ChainsFit'
  BY <1>1, <1>5, <1>6, <1>7, OneChainFits DEF Known
<1> QED BY <1>1, <1>7, <1>8, OthersFit, DraftStays, UnheardStays DEF Known

\* An answer, with the file changed or not.
LEMMA AnswerKnown ==
  ASSUME Typed, Known, NEW t \in Task, NEW o \in {"ok", "conflict", "failed"}, NEW x \in 0..top,
         task[t].pc # "go", Answer(t, o, x), onlyHere' \subseteq onlyHere, FilesFit',
         o = "ok" /\ task[t].pc \in {"put", "resolve"} => task[t].text \notin onlyHere',
         o = "ok" /\ task[t].pc \in {"load", "read", "reread"} => x \notin onlyHere'
  PROVE  Known'
<1>1. /\ UNCHANGED <<draft, shown, heard, loading, conflict, top>> /\ top \in Nat /\ x \in Text
      /\ Had' = Had /\ EditorStays
      /\ task[t] \in TaskState /\ Addressed(task[t])
      /\ Become(t, Answered(task[t], o, x))
  BY TopFact, EditorAssumption DEF Answer, Answered, client, Typed, DraftTypeOK, Chains, Text,
     Had, EditorStays
<1>2. Widens
  BY <1>1 DEF Widens, Follows
<1>3. Fits(task[t], draft, heard, onlyHere', Had, top)
  BY <1>1, <1>2, Widen DEF Known, ChainsFit, Widens
<1>4. Fits(Answered(task[t], o, x), draft, heard, onlyHere', Had, top)
  BY <1>1, <1>3, AnswerFits
<1>5. Answered(task[t], o, x) \in TaskState /\ Addressed(Answered(task[t], o, x))
  BY <1>1, AnswerFact
<1>6. task'[t] = Answered(task[t], o, x) /\ \A u \in Task \ {t} : task'[u] = task[u]
  BY <1>1, <1>5, BecomeFact DEF Typed
<1>7. ChainsFit'
  BY <1>1, <1>2, <1>4, <1>6, OneChainFits DEF Known
<1>8. DraftFits(draft, onlyHere, Had, top)'
  BY <1>1, <1>2, DraftStays
<1>9. ConflictFits'
  BY <1>1 DEF Known, ConflictFits
<1>10. onlyHere' \subseteq 1..top'
  BY <1>1 DEF Known
<1>11. UnheardFits'
  BY <1>1, <1>2, UnheardStays
<1> QED BY <1>7, <1>8, <1>9, <1>10, <1>11 DEF Known

LEMMA ServesKnown ==
  ASSUME Typed, Known, NEW t \in Task, Serves(t)
  PROVE  Known'
<1>1. /\ task[t] \in TaskState /\ Addressed(task[t]) /\ Fits(task[t], draft, heard, onlyHere, Had, top)
      /\ file \in [Path -> Text \cup {Absent}] /\ top \in Nat /\ 0 \in 0..top /\ task[t].text \in 0..top
  BY TopFact DEF Typed, DraftTypeOK, Chains, Known, ChainsFit, Fits, Small
<1>2. top' = top
  BY DEF Serves, Written, Moved, Deleted, Refused, NoteRead, Failed, Answer
<1>3. ASSUME NEW outcome \in {"ok", "failed"}, Written(t, outcome)
      PROVE  Known'
  <2>1. /\ Answer(t, outcome, 0) /\ onlyHere' = onlyHere \ {task[t].text}
        /\ file' = [file EXCEPT ![task[t].note] = task[t].text]
        /\ task[t].pc \notin {"load", "read", "reread", "go"}
    BY <1>3 DEF Written
  <2>2. \A p \in Path : file'[p] = file[p] \/ file'[p] = task[t].text
    BY <1>1, <2>1
  <2>3. FilesFit'
    BY <1>1, <1>2, <2>1, <2>2 DEF Known, FilesFit
  <2> QED BY <1>1, <2>1, <2>3, AnswerKnown
<1>4. ASSUME NEW outcome \in {"ok", "failed"}, Moved(t, outcome)
      PROVE  Known'
  <2>1. /\ Answer(t, outcome, 0) /\ onlyHere' = onlyHere /\ task[t].pc = "act"
        /\ task[t].path \in Path /\ file[task[t].path] # Absent
        /\ file' = [file EXCEPT ![task[t].path] = Absent, ![task[t].next] = file[task[t].path]]
    BY <1>1, <1>4 DEF Moved, At, Addressed
  <2>2. \A p \in Path : file'[p] \in {file[p], Absent, file[task[t].path]}
    BY <1>1, <2>1
  <2>3. file[task[t].path] \in 0..top /\ file[task[t].path] \notin onlyHere
    BY <2>1 DEF Known, FilesFit
  <2>4. ASSUME NEW p \in Path, file'[p] # Absent
        PROVE  file'[p] \in 0..top /\ file'[p] \notin onlyHere
    <3>1. file[p] # Absent => file[p] \in 0..top /\ file[p] \notin onlyHere
      BY DEF Known, FilesFit
    <3>2. file'[p] = file[p] \/ file'[p] = file[task[t].path]
      BY <2>2, <2>4
    <3> QED BY <2>3, <2>4, <3>1, <3>2
  <2>5. FilesFit'
    BY <1>2, <2>1, <2>4 DEF FilesFit
  <2> QED BY <1>1, <2>1, <2>5, AnswerKnown
<1>5. ASSUME NEW outcome \in {"ok", "failed"}, Deleted(t, outcome)
      PROVE  Known'
  <2>1. /\ Answer(t, outcome, 0) /\ onlyHere' = onlyHere /\ task[t].pc = "act"
        /\ file' = [file EXCEPT ![task[t].path] = Absent]
    BY <1>5 DEF Deleted, At
  <2>2. \A p \in Path : file'[p] \in {file[p], Absent}
    BY <1>1, <2>1
  <2>3. FilesFit'
    BY <1>2, <2>1, <2>2 DEF Known, FilesFit
  <2> QED BY <1>1, <2>1, <2>3, AnswerKnown
<1>6. CASE Refused(t)
  <2>1. Answer(t, "conflict", 0) /\ file' = file /\ onlyHere' = onlyHere /\ task[t].pc # "go"
    BY <1>6 DEF Refused
  <2>2. FilesFit'
    BY <1>2, <2>1 DEF Known, FilesFit
  <2> QED BY <1>1, <2>1, <2>2, AnswerKnown
<1>7. CASE NoteRead(t)
  <2>1. PICK p \in Path : file[p] # Absent /\ Answer(t, "ok", file[p])
    BY <1>1, <1>7 DEF NoteRead, At, Addressed
  <2>2. file' = file /\ onlyHere' = onlyHere /\ task[t].pc \notin {"put", "resolve", "go"}
    BY <1>7 DEF NoteRead
  <2>3. FilesFit' /\ file[p] \in 0..top /\ file[p] \notin onlyHere
    BY <1>2, <2>1, <2>2 DEF Known, FilesFit
  <2> QED BY <1>1, <2>1, <2>2, <2>3, AnswerKnown
<1>8. CASE Failed(t)
  <2>1. Answer(t, "failed", 0) /\ file' = file /\ onlyHere' = onlyHere /\ task[t].pc # "go"
    BY <1>8 DEF Failed, Requests
  <2>2. FilesFit'
    BY <1>2, <2>1 DEF Known, FilesFit
  <2> QED BY <1>1, <2>1, <2>2, AnswerKnown
<1> QED BY <1>3, <1>4, <1>5, <1>6, <1>7, <1>8 DEF Serves

\* One chain moves on and the draft stays.
LEMMA MoveKnown ==
  ASSUME Typed, Known, NEW t \in Task, NEW c \in TaskState, Addressed(c), Become(t, c),
         UNCHANGED <<draft, top, onlyHere, file>>, Had \subseteq Had', EditorStays,
         conflict' = conflict \/ ConflictFits',
         Fits(c, draft, heard', onlyHere, Had', top)
  PROVE  Known'
<1>1. task'[t] = c /\ \A u \in Task \ {t} : task'[u] = task[u]
  BY BecomeFact DEF Typed
<1>2. Widens
  BY Unchanging
<1>3. ChainsFit'
  BY <1>1, <1>2, OneChainFits DEF Known
<1> QED BY <1>2, <1>3, OthersFit, DraftStays, UnheardStays DEF Known

\* One chain moves on and a stored text, or none, is the draft.
LEMMA LoadKnown ==
  ASSUME Typed, Known, NEW t \in Task, NEW c \in TaskState, Addressed(c), Become(t, c),
         UNCHANGED <<top, onlyHere, file>>, Had \subseteq Had', EditorStays,
         heard' = TRUE \/ draft'.path = draft.path,
         conflict' = conflict \/ conflict' = NoConflict,
         DraftFits(draft', onlyHere, Had', top), draft'.content \notin onlyHere,
         Fits(c, draft', heard', onlyHere, Had', top)
  PROVE  Known'
<1>1. task'[t] = c /\ \A u \in Task \ {t} : task'[u] = task[u]
  BY BecomeFact DEF Typed
<1>2. Widens
  BY TopFact DEF Widens, Follows, EditorStays
<1>3. ChainsFit'
  BY <1>1, <1>2, OneChainFits DEF Known
<1>4. ConflictFits'
  <2>1. CASE conflict' = conflict
    BY <1>2, <2>1, OthersFit
  <2>2. CASE conflict' = NoConflict
    <3>1. NoConflict.server = 0 /\ NoConflict.yours = 0 /\ top \in Nat
      BY TopFact DEF NoConflict
    <3>2. 0 \notin onlyHere
      BY <3>1 DEF Known
    <3> QED BY <2>2, <3>1, <3>2 DEF ConflictFits
  <2> QED BY <2>1, <2>2
<1> QED BY <1>2, <1>3, <1>4, OthersFit, UnheardStays DEF Known

LEMMA ContinuesKnown ==
  ASSUME Typed, Known, NEW t \in Task, Continues(t)
  PROVE  Known'
<1>1. /\ task[t] \in TaskState /\ Addressed(task[t]) /\ draft \in Draft /\ top \in Nat
      /\ Fits(task[t], draft, heard, onlyHere, Had, top) /\ Small(task[t], top)
      /\ DraftFits(draft, onlyHere, Had, top) /\ onlyHere \subseteq 1..top
  BY TopFact DEF Typed, DraftTypeOK, Chains, Known, ChainsFit, Fits
<1>2. CASE SaveCheck(t)
  <2>1. PICK then : /\ then = IF Unsaved(draft) THEN Put(task[t], draft) ELSE Go(task[t], draft)
                    /\ Become(t, then)
    BY <1>2 DEF SaveCheck
  <2>2. then \in TaskState /\ Addressed(then)
    BY <1>1, <2>1, PutFact, GoFact DEF Unsaved
  <2>3. /\ UNCHANGED <<draft, heard, conflict, file, top, onlyHere>> /\ Had' = Had /\ EditorStays
    BY <1>2 DEF SaveCheck, world, Had, EditorStays
  <2>4. Fits(then, draft, heard, onlyHere, Had, top)
    <3>1. CASE Unsaved(draft)
      BY <1>1, <2>1, <3>1, PutFits DEF Unsaved
    <3>2. CASE ~Unsaved(draft)
      <4>1. (task[t].late \/ (draft.path # NoPath /\ ~heard)) \/ heard
        BY DEF Known, UnheardFits, Mounted
      <4>2. draft.content \notin onlyHere
        BY <1>1, <3>2, CleanIsStored
      <4> QED BY <1>1, <2>1, <3>2, <4>1, <4>2, GoFits
    <3> QED BY <3>1, <3>2
  <2> QED BY <2>1, <2>2, <2>3, <2>4, MoveKnown
<1>3. CASE OpenNote(t) \/ Act(t)
  <2>1. PICK pc \in {"load", "act"} : /\ Become(t, [task[t] EXCEPT !.pc = pc])
                                      /\ pc = "load" => task[t].op = "open"
    BY <1>3 DEF OpenNote, Act
  <2> DEFINE e == [task[t] EXCEPT !.pc = pc]
  <2>2. e \in TaskState /\ Addressed(e)
    BY <1>1, <2>1, MoveOnFact
  <2>3. Fits(e, draft, heard, onlyHere, Had, top)
    BY <1>1, <1>3, MoveOnFits DEF OpenNote, Act, Returns, At
  <2>4. /\ Become(t, e) /\ UNCHANGED <<draft, conflict, file, top, onlyHere>> /\ Had' = Had
        /\ EditorStays
    BY <1>3, <2>1 DEF OpenNote, Act, client, world, Had, EditorStays
  <2> HIDE DEF e
  <2>5. Fits(e, draft, heard', onlyHere, Had, top)
    BY <2>3, <2>4 DEF Fits, EditorStays
  <2> QED BY <2>2, <2>4, <2>5, MoveKnown
<1>4. CASE CloseTab(t)
  <2>1. /\ draft' = NoDraft /\ heard' = TRUE /\ UNCHANGED <<conflict, file, top, onlyHere>>
        /\ Had' = Had /\ EditorStays
    BY <1>4 DEF CloseTab, DropDraft, world, Had, EditorStays
  <2>2. DraftFits(NoDraft, onlyHere, Had, top) /\ NoDraft.content \notin onlyHere
    BY <1>1, NoDraftFits
  <2>3. PICK then \in TaskState : /\ Become(t, then) /\ Addressed(then)
                                  /\ Fits(then, NoDraft, TRUE, onlyHere, Had, top)
    <3>1. task[t].next \in Path \cup {NoPath}
      BY <1>1, ChainFields
    <3>2. CASE task[t].next = NoPath
      BY <1>1, <1>4, <3>2, IdleFact, IdleFits DEF CloseTab
    <3>3. CASE task[t].next \in Path
      <4>1. PICK p \in Path : p = task[t].next
        BY <3>3
      <4> DEFINE e == [Idle EXCEPT !.op = "open", !.path = p]
      <4>2. e \in TaskState /\ Addressed(e) /\ Small(e, top)
        BY <1>1, OpenFact, OpenFits
      <4>3. Become(t, SaveDraft(e, NoDraft))
        BY <1>4, <4>1, EditorAssumption DEF CloseTab
      <4> HIDE DEF e
      <4> QED BY <1>1, <2>2, <4>2, <4>3, SaveDraftFact, SaveDraftFits, NoDraftFact DEF Typed
    <3> QED BY <3>1, <3>2, <3>3
  <2> QED BY <2>1, <2>2, <2>3, LoadKnown
<1> QED BY <1>2, <1>3, <1>4 DEF Continues

\* What a PUT saved is the saved content, and is stored.
LEMMA SaveSucceedsKnown ==
  ASSUME Typed, Known, NEW t \in Task, SaveSucceeds(t)
  PROVE  Known'
<1>1. /\ task[t] \in TaskState /\ Addressed(task[t]) /\ task[t].text \in Text /\ draft \in Draft
      /\ top \in Nat /\ task[t].pc = "put" /\ task[t].answer = "ok" /\ task[t].note \in Path
  BY ChainFields, TopFact DEF Typed, DraftTypeOK, Chains, SaveSucceeds, At, Addressed
<1>2. /\ Fits(task[t], draft, heard, onlyHere, Had, top) /\ Small(task[t], top)
      /\ task[t].text \in Had /\ task[t].text \notin onlyHere /\ task[t].text \in 0..top
  BY <1>1 DEF Known, ChainsFit, Fits, Small
<1>3. /\ UNCHANGED <<heard, conflict, file, top, onlyHere>> /\ Had' = Had /\ EditorStays
      /\ heard \/ (~heard /\ draft.path # NoPath)
  BY DEF SaveSucceeds, world, Had, EditorStays, Known, UnheardFits, Mounted
<1>4. CASE draft.path = task[t].note
  <2>1. PICK x \in Text : x = task[t].text
    BY <1>1
  <2>2. PICK after \in Draft : after = [draft EXCEPT !.saved = x] /\ after.path = draft.path
    BY <1>1, DraftEdited
  <2>3. after.content = draft.content /\ after.saved = x
    BY <1>1, <2>2 DEF Draft
  <2>4. PICK own : /\ own = IF Unsaved(after) THEN Put(task[t], after) ELSE Go(task[t], draft)
                   /\ Settle(t, own, TRUE) /\ draft' = after
    BY <1>4, <2>1, <2>2 DEF SaveSucceeds
  <2>5. DraftFits(after, onlyHere, Had, top)
    BY <1>1, <1>2, <1>4, <2>1, <2>2, <2>3, EditorAssumption DEF Known, DraftFits
  <2>6. Widens
    BY <1>1, <1>3, <2>2, <2>3, <2>4 DEF Widens, Follows
  <2>7. Fits(own, after, heard, onlyHere, Had, top)
    <3>1. CASE Unsaved(after)
      BY <1>1, <1>2, <2>4, <2>5, <3>1, PutFits DEF Unsaved
    <3>2. CASE ~Unsaved(after)
      <4>1. own = Go(task[t], after)
        BY <2>2, <2>4, <3>2 DEF Go
      <4>2. after.content \notin onlyHere
        BY <1>1, <2>5, <3>2, CleanIsStored DEF Known
      <4>3. (task[t].late \/ (after.path # NoPath /\ ~heard)) \/ heard
        BY <1>3, <2>2
      <4> QED BY <1>1, <1>2, <4>1, <4>2, <4>3, GoFits
    <3> QED BY <3>1, <3>2
  <2>8. ChainsFit'
    BY <1>3, <2>4, <2>6, <2>7, SettleFits DEF Known
  <2> QED BY <1>3, <2>4, <2>5, <2>6, <2>8, OthersFit, UnheardStays DEF Known
<1>5. CASE draft.path # task[t].note
  <2>1. Settle(t, Go(task[t], draft), TRUE) /\ draft' = draft
    BY <1>5 DEF SaveSucceeds
  <2>2. task[t].late \/ draft.content \notin onlyHere
    BY <1>1, <1>2, <1>5 DEF Fits
  <2>3. Fits(Go(task[t], draft), draft, heard, onlyHere, Had, top)
    <3>1. (task[t].late \/ (draft.path # NoPath /\ ~heard)) \/ heard
      BY <1>3
    <3> QED BY <1>1, <1>2, <2>2, <3>1, GoFits
  <2>4. Widens
    BY <1>3, <2>1, Unchanging
  <2>5. ChainsFit'
    BY <1>3, <2>1, <2>3, <2>4, SettleFits DEF Known
  <2> QED BY <1>3, <2>1, <2>4, <2>5, OthersFit, DraftStays, UnheardStays DEF Known
<1> QED BY <1>4, <1>5

LEMMA SaveEndsKnown ==
  ASSUME Typed, Known, NEW t \in Task, SaveConflicts(t) \/ SaveFails(t)
  PROVE  Known'
<1>1. task[t].text \in 0..top /\ top \in Nat
  BY TopFact DEF Known, ChainsFit, Fits, Small
<1>2. PICK own : Settle(t, own, FALSE) /\ Fits(own, draft, heard, onlyHere, Had, top)
  <2>1. CASE SaveConflicts(t)
    <3> DEFINE e == [Idle EXCEPT !.pc = "read", !.op = "save", !.note = task[t].note,
                                 !.text = task[t].text]
    <3>1. Fits(e, draft, heard, onlyHere, Had, top)
      BY <1>1, ReadFits
    <3>2. Settle(t, e, FALSE)
      BY <2>1 DEF SaveConflicts
    <3> HIDE DEF e
    <3> QED BY <3>1, <3>2
  <2>2. CASE SaveFails(t)
    BY <1>1, <2>2, IdleFits DEF SaveFails
  <2> QED BY <2>1, <2>2
<1>3. /\ UNCHANGED <<draft, heard, conflict, file, top, onlyHere>> /\ Had' = Had /\ EditorStays
  <2>1. UNCHANGED <<draft, shown, heard, loading, conflict, file, top, seen, hidden, onlyHere>>
    BY DEF SaveConflicts, SaveFails, world
  <2> QED BY <2>1 DEF Had, EditorStays
<1>4. Widens
  BY <1>3, Unchanging
<1>5. ChainsFit'
  BY <1>2, <1>3, <1>4, SettleFits DEF Known
<1> QED BY <1>3, <1>4, <1>5, OthersFit, DraftStays, UnheardStays DEF Known

\* The user is shown the text of the server.
LEMMA ConflictReadKnown ==
  ASSUME Typed, Known, NEW t \in Task, ConflictRead(t) \/ Reread(t)
  PROVE  Known'
<1>1. /\ Become(t, Idle) /\ UNCHANGED <<draft, file, top, hidden, onlyHere>> /\ top \in Nat
      /\ task[t].pc \in {"read", "reread"} /\ Fits(task[t], draft, heard, onlyHere, Had, top)
      /\ EditorStays
  BY TopFact DEF ConflictRead, Reread, At, Known, ChainsFit, EditorStays
<1>2. CASE UNCHANGED <<conflict, seen>>
  <2>1. Had' = Had
    BY <1>1, <1>2 DEF Had
  <2> QED BY <1>1, <1>2, <2>1, IdleFact, IdleFits, MoveKnown
<1>3. CASE ~UNCHANGED <<conflict, seen>>
  <2>1. /\ task[t].answer = "ok" /\ seen' = seen \cup {task[t].got}
        /\ \E y \in {task[t].text, task[t].yours} :
             conflict' = [path |-> task[t].note, server |-> task[t].got, yours |-> y]
    BY <1>3 DEF ConflictRead, Reread, Saw
  <2>2. task[t].got \notin onlyHere /\ task[t].got \in 0..top
        /\ task[t].text \in 0..top /\ task[t].yours \in 0..top
    BY <1>1, <2>1 DEF Fits, Small
  <2>3. Had \subseteq Had' /\ task[t].got \in Had'
    BY <1>1, <2>1 DEF Had
  <2>4. ConflictFits'
    BY <1>1, <2>1, <2>2, <2>3 DEF ConflictFits
  <2> QED BY <1>1, <2>3, <2>4, IdleFact, IdleFits, MoveKnown
<1> QED BY <1>2, <1>3

LEMMA NoteLoadedKnown ==
  ASSUME Typed, Known, NEW t \in Task, NoteLoaded(t)
  PROVE  Known'
<1>1. /\ Become(t, Idle) /\ UNCHANGED <<conflict, file, top, onlyHere>> /\ top \in Nat
      /\ task[t].pc = "load" /\ task[t].path \in Path
      /\ Fits(task[t], draft, heard, onlyHere, Had, top)
  BY TopFact DEF NoteLoaded, At, Known, ChainsFit, Typed, Chains, Addressed
<1>2. CASE task[t].answer = "ok"
  <2>1. /\ draft' = [path |-> task[t].path, content |-> task[t].got, saved |-> task[t].got]
        /\ Had \subseteq Had' /\ task[t].got \in Had'
    BY <1>2 DEF NoteLoaded, Saw, Had
  <2>2. task[t].got \notin onlyHere /\ task[t].got \in 0..top
    BY <1>1, <1>2 DEF Fits, Small
  <2>3. DraftFits(draft', onlyHere, Had', top) /\ draft'.content \notin onlyHere
    BY <1>1, <2>1, <2>2, StoredFits, EditorAssumption
  <2>4. EditorStays /\ (heard' = TRUE \/ draft'.path = draft.path)
    <3>1. loading' = FALSE /\ Show(task[t].path, task[t].got)
      BY <1>2 DEF NoteLoaded
    <3>2. CASE Kept(task[t].path)
      BY <2>1, <3>1, <3>2 DEF Show, Kept, EditorStays
    <3>3. CASE ~Kept(task[t].path)
      BY <3>1, <3>3 DEF Show, EditorStays
    <3> QED BY <3>2, <3>3
  <2> QED BY <1>1, <2>1, <2>3, <2>4, IdleFact, IdleFits, LoadKnown
<1>3. CASE task[t].answer # "ok"
  <2>1. draft' = draft /\ heard' = heard /\ Had \subseteq Had'
    BY <1>3 DEF NoteLoaded, Saw, Had
  <2>2. EditorStays
    <3>1. CASE loading
      <4>1. heard
        BY <3>1 DEF Known, UnheardFits, Mounted
      <4>2. heard \in BOOLEAN
        BY DEF Typed, DraftTypeOK
      <4> QED BY <2>1, <4>1, <4>2 DEF EditorStays
    <3>2. CASE ~loading
      BY <1>3, <2>1, <3>2 DEF NoteLoaded, EditorStays
    <3> QED BY <3>1, <3>2
  <2> QED BY <1>1, <2>1, <2>2, IdleFact, IdleFits, MoveKnown
<1> QED BY <1>2, <1>3

LEMMA ActDoneKnown ==
  ASSUME Typed, Known, NEW t \in Task, ActDone(t)
  PROVE  Known'
<1>1. /\ UNCHANGED <<conflict, file, top, onlyHere>> /\ top \in Nat /\ onlyHere \subseteq 1..top
      /\ task[t] \in TaskState /\ Addressed(task[t]) /\ Small(task[t], top) /\ Had' = Had
  BY TopFact DEF ActDone, Known, ChainsFit, Fits, Typed, Chains, world, Had
<1>2. CASE task[t].answer = "ok" /\ task[t].affected
  <2>1. draft' = NoDraft /\ heard' = TRUE /\ EditorStays
    BY <1>2 DEF ActDone, DropDraft, EditorStays
  <2>2. DraftFits(NoDraft, onlyHere, Had, top) /\ NoDraft.content \notin onlyHere
    BY <1>1, NoDraftFits
  <2> DEFINE e == [task[t] EXCEPT !.pc = "tree", !.answer = "none"]
  <2>3. e \in TaskState /\ Addressed(e) /\ Fits(e, NoDraft, TRUE, onlyHere, Had, top)
    BY <1>1, <2>2, TreeFact, TreeFits
  <2>4. Become(t, e)
    BY <1>2 DEF ActDone
  <2> HIDE DEF e
  <2> QED BY <1>1, <2>1, <2>2, <2>3, <2>4, LoadKnown
<1>3. CASE ~(task[t].answer = "ok" /\ task[t].affected)
  <2>1. Become(t, Idle) /\ draft' = draft /\ EditorStays
    BY <1>3 DEF ActDone, EditorStays
  <2> QED BY <1>1, <2>1, IdleFact, IdleFits, MoveKnown
<1> QED BY <1>2, <1>3

LEMMA TreeLoadedKnown ==
  ASSUME Typed, Known, NEW t \in Task, TreeLoaded(t)
  PROVE  Known'
<1>1. task[t].next \in Path \cup {NoPath} /\ top \in Nat
  BY ChainFields, TopFact DEF Typed, Chains
<1>2. CASE task[t].next = NoPath
  <2>1. /\ Become(t, Idle) /\ UNCHANGED <<draft, conflict, file, top, onlyHere>>
        /\ Had' = Had /\ EditorStays
    BY <1>2 DEF TreeLoaded, client, world, Had, EditorStays
  <2> QED BY <1>1, <2>1, IdleFact, IdleFits, MoveKnown
<1>3. CASE task[t].next # NoPath
  <2>1. PICK p \in Path : p = task[t].next
    BY <1>1, <1>3
  <2> DEFINE e == [Idle EXCEPT !.op = "open", !.path = p]
  <2>2. e \in TaskState /\ Addressed(e) /\ Small(e, top)
    BY <1>1, OpenFact, OpenFits
  <2>3. Call(t, e)
    BY <1>3, <2>1 DEF TreeLoaded
  <2> HIDE DEF e
  <2> QED BY <2>2, <2>3, CallKnown
<1> QED BY <1>2, <1>3

LEMMA AdoptStays ==
  ASSUME NEW p, NEW x, Adopt(p, x), loading' = loading
  PROVE  EditorStays /\ (heard' = TRUE \/ draft'.path = draft.path)
<1>1. CASE Kept(p)
  BY <1>1 DEF Adopt, Show, Kept, EditorStays
<1>2. CASE ~Kept(p)
  BY <1>2 DEF Adopt, Show, EditorStays
<1> QED BY <1>1, <1>2

LEMMA ResolvedKnown ==
  ASSUME Typed, Known, NEW t \in Task, Resolved(t)
  PROVE  Known'
<1>1. /\ UNCHANGED <<loading, file, top, onlyHere>> /\ Had' = Had /\ top \in Nat
      /\ task[t] \in TaskState /\ Addressed(task[t]) /\ task[t].pc = "resolve" /\ task[t].note \in Path
      /\ Fits(task[t], draft, heard, onlyHere, Had, top) /\ Small(task[t], top)
  BY TopFact DEF Resolved, At, Known, ChainsFit, Fits, Typed, Chains, Addressed, world, Had
<1>2. CASE task[t].answer = "ok"
  <2>1. /\ draft' = [path |-> task[t].note, content |-> task[t].text, saved |-> task[t].text]
        /\ conflict' = NoConflict /\ Become(t, Idle)
    BY <1>2 DEF Resolved, Adopt
  <2>2. task[t].text \in Had /\ task[t].text \notin onlyHere /\ task[t].text \in 0..top
    BY <1>1, <1>2 DEF Fits, Small
  <2>3. DraftFits(draft', onlyHere, Had, top) /\ draft'.content \notin onlyHere
    BY <1>1, <2>1, <2>2, StoredFits, EditorAssumption
  <2>4. Adopt(task[t].note, task[t].text)
    BY <1>2 DEF Resolved
  <2>5. EditorStays /\ (heard' = TRUE \/ draft'.path = draft.path)
    BY <1>1, <2>4, AdoptStays
  <2> QED BY <1>1, <2>1, <2>3, <2>5, IdleFact, IdleFits, LoadKnown
<1>3. CASE task[t].answer # "ok"
  <2> DEFINE e == [task[t] EXCEPT !.pc = "reread", !.answer = "none", !.text = 0, !.base = 0]
  <2>1. e \in TaskState /\ Addressed(e) /\ Fits(e, draft, heard, onlyHere, Had, top)
    BY <1>1, RereadFact, RereadFits
  <2>2. Become(t, e) /\ UNCHANGED <<draft, heard, conflict>> /\ EditorStays
    BY <1>1, <1>3 DEF Resolved, EditorStays
  <2> HIDE DEF e
  <2> QED BY <1>1, <2>1, <2>2, MoveKnown
<1> QED BY <1>2, <1>3

LEMMA ChainKnown ==
  ASSUME Typed, Known, NEW t \in Task, NEW op \in {"save", "open", "close", "move", "delete"},
         NEW p \in Path \cup {NoPath}, NEW next \in Path \cup {NoPath},
         op \in {"open", "move", "delete"} => p \in Path, Chain(t, op, p, next)
  PROVE  Known'
<1>1. PICK b \in BOOLEAN : b = (op \in {"move", "delete"} /\ draft.path = p)
  OBVIOUS
<1> DEFINE e == [Idle EXCEPT !.op = op, !.path = p, !.next = next, !.affected = b]
<1>2. e \in TaskState /\ Addressed(e) /\ Small(e, top)
  BY BeginFact, BeginFits, TopFact
<1>3. Call(t, e)
  BY <1>1 DEF Chain
<1> HIDE DEF e
<1> QED BY <1>2, <1>3, CallKnown

\* A combined text is new, and nobody has typed it into the editor.
LEMMA ResolveKnown ==
  ASSUME Typed, Known, NEW t \in Task, NEW combined \in BOOLEAN, Resolve(t, combined)
  PROVE  Known'
<1>1. /\ conflict.path \in Path /\ conflict.server \in Text /\ conflict.yours \in Text
      /\ conflict.server \in 0..top /\ conflict.yours \in 0..top /\ conflict.server \in Had
      /\ top \in Nat
  BY PendingFacts, TopFact DEF Typed, DraftTypeOK, Resolve, Known, ConflictFits
<1>2. PICK x : x = IF combined THEN top + 1 ELSE conflict.yours
  OBVIOUS
<1>3. /\ x \in Text /\ top' = (IF combined THEN x ELSE top)
      /\ UNCHANGED <<draft, shown, heard, loading, conflict, file, onlyHere>>
      /\ Had \subseteq Had' /\ x \in Had' /\ EditorStays
  BY <1>1, <1>2, TextFacts DEF Resolve, Typed, DraftTypeOK, Saw, client, Had, EditorStays
<1>4. x \in 0..top' /\ top' \in Nat /\ top <= top' /\ conflict.yours \in 0..top'
  BY <1>1, <1>2, <1>3
<1>5. PICK p \in Path, y \in Text, z \in Text :
        p = conflict.path /\ y = conflict.server /\ z = conflict.yours
  BY <1>1
<1> DEFINE e == [Idle EXCEPT !.pc = "resolve", !.op = "resolve", !.note = p, !.text = x, !.base = y,
                             !.yours = z]
<1>6. e \in TaskState /\ Addressed(e)
  BY <1>3, ResolveFact
<1>7. Fits(e, draft', heard', onlyHere', Had', top')
  BY <1>1, <1>3, <1>4, <1>5, ResolveFits
<1>8. Become(t, e)
  BY <1>2, <1>5 DEF Resolve
<1> HIDE DEF e
<1>9. task'[t] = e /\ \A u \in Task \ {t} : task'[u] = task[u]
  BY <1>6, <1>8, BecomeFact DEF Typed
<1>10. Widens
  BY <1>3, <1>4 DEF Widens, Follows
<1>11. ChainsFit'
  BY <1>7, <1>9, <1>10, OneChainFits DEF Known
<1> QED BY <1>3, <1>10, <1>11, OthersFit, DraftStays, UnheardStays DEF Known

LEMMA GestureKnown ==
  ASSUME Typed, Known, NEW t \in Task, Gesture(t)
  PROVE  Known'
<1>0. CASE TimerFires(t)
  <2>1. Small([Idle EXCEPT !.op = "save"], top)
    BY AutosaveFact, TopFact DEF Small
  <2> QED BY <1>0, <2>1, AutosaveFact, CallKnown DEF TimerFires
<1>1. CASE Save(t)
  BY <1>1, ChainKnown DEF Save
<1>2. CASE \E p \in Path : Open(t, p)
  BY <1>2, ChainKnown DEF Open
<1>3. CASE \E p \in Path \cup {NoPath} : Close(t, p)
  BY <1>3, ChainKnown DEF Close
<1>4. CASE \E p \in Path : \E q \in Path : Move(t, p, q)
  BY <1>4, ChainKnown DEF Move
<1>5. CASE \E p \in Path : \E next \in Path \cup {NoPath} : Delete(t, p, next)
  BY <1>5, ChainKnown DEF Delete
<1>6. CASE \E combined \in BOOLEAN : Resolve(t, combined)
  BY <1>6, ResolveKnown
<1> QED BY <1>0, <1>1, <1>2, <1>3, <1>4, <1>5, <1>6 DEF Gesture

\* A chain that has saved what there was to save is late for the new text, unless
\* it will look at the draft again.
LEMMA TypeKnown ==
  ASSUME Typed, Known, Type
  PROVE  Known'
<1>1. PICK x : x = top + 1
  OBVIOUS
<1>2. /\ top' = x /\ shown' = x /\ heard' = FALSE /\ onlyHere' = onlyHere \cup {x}
      /\ Had \subseteq Had' /\ x \in Had' /\ UNCHANGED <<file, draft, loading, conflict>>
      /\ draft.path # NoPath /\ ~loading /\ Rest
  BY <1>1 DEF Type, Saw, Mounted, Had
<1>3. top \in Nat /\ x \in Nat /\ x > top /\ 0..top \subseteq 0..x /\ x \notin 0..top /\ x \in 0..x
  BY <1>1, TopFact DEF Typed
<1>4. DraftFits(draft, onlyHere, Had, top)'
  BY <1>2, <1>3 DEF Known, DraftFits
<1>5. ConflictFits' /\ FilesFit'
  BY <1>2, <1>3 DEF Known, ConflictFits, FilesFit
<1>6. onlyHere' \subseteq 1..top'
  BY <1>2, <1>3 DEF Known
<1>7. UnheardFits'
  BY <1>2, <1>3 DEF UnheardFits, Mounted
<1>8. ASSUME NEW t \in Task
      PROVE  Fits(task'[t], draft', heard', onlyHere', Had', top')
  <2>1. task[t] \in TaskState /\ Fits(task[t], draft, heard, onlyHere, Had, top)
    BY DEF Typed, Chains, Known, ChainsFit
  <2> DEFINE e == [task[t] EXCEPT !.late = TRUE]
  <2>2. /\ e.pc = task[t].pc /\ e.text = task[t].text /\ e.base = task[t].base /\ e.got = task[t].got
        /\ e.yours = task[t].yours /\ e.answer = task[t].answer /\ e.late = TRUE
    BY <2>1 DEF TaskState
  <2>3. task'[t] = IF task[t].pc \in {"load", "act", "tree"} \/ (At(t, "put") /\ task[t].note # draft.path)
                   THEN e ELSE task[t]
    BY DEF Type
  <2> HIDE DEF e
  <2>4. task[t].pc # "go"
    BY <1>2 DEF Rest
  <2>5. task[t].text # x /\ task[t].got # x
    BY <1>3, <2>1 DEF Fits, Small
  <2>6. CASE task'[t] = e
    BY <1>2, <1>3, <2>1, <2>2, <2>4, <2>5, <2>6 DEF Fits, Small
  <2>7. CASE task'[t] # e
    <3>1. /\ task'[t] = task[t] /\ task[t].pc \notin {"load", "act", "tree"}
          /\ ~(task[t].pc = "put" /\ task[t].note # draft.path)
      BY <2>3, <2>7 DEF At
    <3> QED BY <1>2, <1>3, <2>1, <2>4, <2>5, <3>1 DEF Fits, Small
  <2> QED BY <2>6, <2>7
<1>9. ChainsFit'
  BY <1>8 DEF ChainsFit
<1> QED BY <1>4, <1>5, <1>6, <1>7, <1>9 DEF Known

\* Until the editor tells of its text, only late chains go on without a save.
LEMMA ReportKnown ==
  ASSUME Typed, Known, Report
  PROVE  Known'
<1>1. /\ ~heard /\ heard' = TRUE /\ Rest /\ UNCHANGED <<conflict, file, top, onlyHere, task>>
      /\ Had' = Had /\ top \in Nat
  BY TopFact DEF Report, world, Had
<1>2. draft.path # NoPath /\ shown \in Had /\ shown \in 0..top
  BY <1>1 DEF Known, UnheardFits, Mounted
<1>3. /\ draft'.path = draft.path /\ draft'.saved = draft.saved
      /\ draft'.content \in {draft.content, shown}
  <2>1. draft \in Draft
    BY DEF Typed, DraftTypeOK
  <2>2. draft' = draft \/ draft' = [draft EXCEPT !.content = shown]
    BY DEF Report
  <2> QED BY <2>1, <2>2 DEF Draft
<1>4. DraftFits(draft, onlyHere, Had, top)'
  BY <1>1, <1>2, <1>3 DEF Known, DraftFits
<1>5. ASSUME NEW t \in Task
      PROVE  Fits(task[t], draft', heard', onlyHere, Had, top)
  <2>1. Fits(task[t], draft, heard, onlyHere, Had, top) /\ task[t].pc # "go"
    BY <1>1 DEF Known, ChainsFit, Rest
  <2> QED BY <1>1, <1>3, <2>1 DEF Fits
<1>6. ChainsFit'
  BY <1>1, <1>5 DEF ChainsFit
<1>7. ConflictFits' /\ FilesFit' /\ UnheardFits'
  BY <1>1 DEF Known, ConflictFits, FilesFit, UnheardFits
<1>8. onlyHere' \subseteq 1..top'
  BY <1>1 DEF Known
<1> QED BY <1>4, <1>6, <1>7, <1>8 DEF Known

LEMMA ChoiceKnown ==
  ASSUME Typed, Known, UseServer \/ DecideLater
  PROVE  Known'
<1>1. /\ UNCHANGED <<task, top, onlyHere, file>> /\ Had' = Had /\ top \in Nat /\ conflict' = NoConflict
      /\ loading' = loading
  BY TopFact DEF UseServer, DecideLater, Adopt, world, Had
<1>2. Widens /\ EditorStays /\ DraftFits(draft', onlyHere', Had', top')
  <2>1. CASE UseServer
    <3>1. /\ draft' = [path |-> conflict.path, content |-> conflict.server, saved |-> conflict.server]
          /\ conflict.path \in Path /\ conflict.server \in 0..top
          /\ conflict.server \in Had /\ conflict.server \notin onlyHere
      BY <2>1 DEF UseServer, Adopt, Typed, Known, ConflictFits
    <3>2. DraftFits(draft', onlyHere, Had, top) /\ draft'.content \notin onlyHere
      BY <3>1, StoredFits, EditorAssumption
    <3>3. EditorStays /\ (heard' = TRUE \/ draft'.path = draft.path)
      BY <1>1, <2>1, AdoptStays DEF UseServer
    <3>4. Follows(draft, heard, draft', heard', onlyHere')
      BY <1>1, <3>2, <3>3 DEF Follows, EditorStays
    <3> QED BY <1>1, <3>2, <3>3, <3>4 DEF Widens
  <2>2. CASE DecideLater
    <3>1. draft' = draft /\ EditorStays
      BY <2>2 DEF DecideLater, EditorStays
    <3>2. Widens
      BY <1>1, <3>1, Unchanging
    <3> QED BY <3>1, <3>2, DraftStays
  <2> QED BY <2>1, <2>2
<1>3. ChainsFit'
  <2>1. \A t \in Task : Fits(task[t], draft, heard, onlyHere, Had, top)
    BY DEF Known, ChainsFit
  <2>2. \A t \in Task : Fits(task[t], draft', heard', onlyHere', Had', top')
    BY <1>1, <1>2, <2>1, Widen DEF Widens
  <2> QED BY <1>1, <2>2 DEF ChainsFit
<1>4. ConflictFits'
  <2>1. NoConflict.server = 0 /\ NoConflict.yours = 0
    BY DEF NoConflict
  <2>2. 0 \notin onlyHere
    BY <1>1 DEF Known
  <2> QED BY <1>1, <2>1, <2>2 DEF ConflictFits
<1> QED BY <1>1, <1>2, <1>3, <1>4, OthersFit, UnheardStays DEF Known

\* The texts of other sessions are new.
LEMMA OtherSessionKnown ==
  ASSUME Typed, Known, NEW p \in Path, OtherSession(p)
  PROVE  Known'
<1>1. /\ top' = top + 1 /\ file' = [file EXCEPT ![p] = top + 1]
      /\ UNCHANGED <<draft, shown, heard, loading, conflict, task, onlyHere>> /\ top \in Nat
      /\ file \in [Path -> Text \cup {Absent}] /\ Had' = Had /\ EditorStays
  BY TopFact DEF OtherSession, Typed, DraftTypeOK, client, Had, EditorStays
<1>2. Widens
  BY <1>1 DEF Widens, Follows
<1>3. ChainsFit'
  <2>1. \A t \in Task : Fits(task[t], draft, heard, onlyHere, Had, top)
    BY DEF Known, ChainsFit
  <2>2. \A t \in Task : Fits(task[t], draft', heard', onlyHere', Had', top')
    BY <1>1, <1>2, <2>1, Widen DEF Widens
  <2> QED BY <1>1, <2>2 DEF ChainsFit
<1>4. onlyHere' \subseteq 1..top' /\ 0..top \subseteq 0..top'
      /\ top + 1 \notin onlyHere' /\ top + 1 \in 0..top'
  BY <1>1 DEF Known
<1>5. FilesFit'
  <2>1. \A q \in Path : file'[q] = file[q] \/ file'[q] = top + 1
    BY <1>1
  <2> QED BY <1>1, <1>4, <2>1 DEF Known, FilesFit
<1>6. ConflictFits'
  BY <1>1, <1>4 DEF Known, ConflictFits
<1>7. DraftFits(draft, onlyHere, Had, top)' /\ UnheardFits'
  BY <1>1, <1>2, DraftStays, UnheardStays
<1> QED BY <1>3, <1>4, <1>5, <1>6, <1>7 DEF Known

LEMMA InitKnown ==
  ASSUME DraftInit
  PROVE  Known
<1>1. /\ task = [t \in Task |-> Idle] /\ top = 0 /\ onlyHere = {} /\ seen = {}
      /\ draft = NoDraft /\ conflict = NoConflict /\ heard = TRUE /\ \A p \in Path : file[p] \in {0, Absent}
  BY DEF DraftInit
<1>2. ChainsFit
  BY <1>1, IdleFits DEF ChainsFit
<1>3. DraftFits(draft, onlyHere, Had, top) /\ onlyHere \subseteq 1..top
  BY <1>1, NoDraftFits
<1>4. ConflictFits
  BY <1>1 DEF ConflictFits, NoConflict
<1>5. FilesFit
  BY <1>1 DEF FilesFit
<1>6. UnheardFits
  BY <1>1 DEF UnheardFits
<1> QED BY <1>2, <1>3, <1>4, <1>5, <1>6 DEF Known

LEMMA StepKnown ==
  ASSUME Typed, Known, [DraftNext]_draftVars
  PROVE  Known'
<1>1. ASSUME NEW t \in Task, Responds(t)
      PROVE  Known'
  BY <1>1, SaveSucceedsKnown, SaveEndsKnown, ConflictReadKnown, NoteLoadedKnown, ActDoneKnown,
     TreeLoadedKnown, ResolvedKnown DEF Responds
<1>2. CASE UNCHANGED draftVars
  BY <1>2 DEF draftVars, Known, ChainsFit, ConflictFits, FilesFit, UnheardFits, Mounted, Had
<1> QED
  BY <1>1, <1>2, ContinuesKnown, GestureKnown, ServesKnown, TypeKnown, ReportKnown, ChoiceKnown,
     OtherSessionKnown DEF DraftNext

-----------------------------------------------------------------------------
(* The theorems.                                                           *)

LEMMA InitKept ==
  ASSUME DraftInit
  PROVE  Typed /\ SaveOwed
<1>1. task = [t \in Task |-> Idle]
  BY DEF DraftInit
<1>2. Chains
  BY <1>1, IdleFact DEF Chains
<1>3. /\ file \in [Path -> Text \cup {Absent}] /\ draft = NoDraft /\ conflict = NoConflict
      /\ shown = 0 /\ heard = TRUE /\ timer = FALSE /\ saving = NoTask /\ status = "saved" /\ loading = FALSE
      /\ top = 0 /\ begun = 0 /\ seen = {} /\ hidden = {} /\ onlyHere = {} /\ gaveUp = FALSE
  BY TextFacts DEF DraftInit
<1>4. Typed
  <2>1. conflict \in Pending /\ draft \in Draft
    BY <1>3, NoDraftFact, PendingFacts
  <2>2. top \in Text /\ shown \in Text
    BY <1>3, TextFacts
  <2>3. begun \in 0..MaxChains
    BY <1>3, EditorAssumption
  <2>4. DraftTypeOK
    BY <1>2, <1>3, <2>1, <2>2, <2>3 DEF DraftTypeOK, Chains, Addressed
  <2> QED BY <1>2, <1>3, <2>4 DEF Typed
<1>5. SaveOwed
  BY <1>3, NoDraftFact DEF SaveOwed
<1> QED BY <1>4, <1>5

LEMMA StepKept ==
  ASSUME Typed, SaveOwed, [DraftNext]_draftVars
  PROVE  Typed' /\ SaveOwed'
<1>1. ASSUME NEW t \in Task, Responds(t)
      PROVE  Typed' /\ SaveOwed'
  BY <1>1, SaveSucceedsKept, SaveEndsKept, ConflictReadKept, NoteLoadedKept, ActDoneKept,
     TreeLoadedKept, ResolvedKept DEF Responds
<1>2. CASE UNCHANGED draftVars
  <2>1. Typed'
    BY <1>2 DEF draftVars, Typed, DraftTypeOK, Chains, Addressed
  <2>2. SaveOwed'
    BY <1>2 DEF draftVars, SaveOwed, Owes, At, Unsaved
  <2> QED BY <2>1, <2>2
<1> QED
  BY <1>1, <1>2, ContinuesKept, GestureKept, ServesKept, TypeKept, ReportKept, ChoiceKept, OtherSessionKept
     DEF DraftNext

\* The variables have their types in every reachable state, whatever the notes,
\* the number of chains and the number of texts: in particular the client looks
\* up, saves and resolves only notes.
THEOREM TypeCorrect == DraftSpec => []DraftTypeOK
<1>1. DraftInit => Typed /\ SaveOwed
  BY InitKept
<1>2. Typed /\ SaveOwed /\ [DraftNext]_draftVars => Typed' /\ SaveOwed'
  BY StepKept
<1>3. Typed => DraftTypeOK
  BY DEF Typed
<1> QED BY <1>1, <1>2, <1>3, PTL DEF DraftSpec

\* Unsaved text always has a save coming (SaveIsComing) until saveDraft has
\* returned false, for any number of notes, chains and texts: SaveOwed says it
\* also in the middle of a turn, when a chain is about to look at the draft.
THEOREM SavesAreComing == DraftSpec => []SaveIsComing
<1>1. DraftInit => Typed /\ SaveOwed
  BY InitKept
<1>2. Typed /\ SaveOwed /\ [DraftNext]_draftVars => Typed' /\ SaveOwed'
  BY StepKept
<1>3. SaveOwed => SaveIsComing
  BY DEF SaveOwed, SaveIsComing, Rest, Owes, At
<1> QED BY <1>1, <1>2, <1>3, PTL DEF DraftSpec

LEMMA AlwaysKnown == DraftSpec => [](Typed /\ Known)
<1>1. DraftInit => Typed /\ SaveOwed /\ Known
  BY InitKept, InitKnown
<1>2. Typed /\ SaveOwed /\ Known /\ [DraftNext]_draftVars => Typed' /\ SaveOwed' /\ Known'
  BY StepKept, StepKnown
<1> QED BY <1>1, <1>2, PTL DEF DraftSpec

\* A save or a resolution of a conflict overwrites only a text that the user has
\* had on screen, or one that was loaded under an editor that kept its own
\* (OnlyReloadedIsOverwritten), however saves, conflicts, other sessions and lost
\* answers come together: the version that a request is based on is one that the
\* client has had, and the server writes only over that version.
THEOREM OnlyReloadedTextIsOverwritten == DraftSpec => OnlyReloadedIsOverwritten
<1> DEFINE Writes == \A t \in Task, outcome \in {"ok", "failed"} :
                        Written(t, outcome) => file[task[t].note] \in seen \cup hidden
<1>1. Typed /\ Known => Writes
  BY DEF Known, ChainsFit, Fits, Written, Had
<1>2. Typed /\ Known => [Writes]_draftVars
  BY <1>1
<1>3. DraftSpec => [][Writes]_draftVars
  BY <1>2, AlwaysKnown, PTL
<1> QED BY <1>3 DEF OnlyReloadedIsOverwritten

\* Opening, closing, moving and deleting notes take away text that is stored
\* nowhere, be it in the draft or in an editor that has not told of it, only if
\* the chain is late for it: it was typed when the chain had saved, or was not
\* heard of when saveDraft returned (TypedTextIsKept).  For any number of chains
\* and notes: a chain that goes on from saveDraft and is not late has seen the
\* text of the draft stored, and the editor has told of its text.
THEOREM OnlyLateTextIsDropped == DraftSpec => TypedTextIsKept
<1> DEFINE Keeps == \A t \in Task : Leaves(t) /\ (DropsDraft \/ DropsText) => task[t].late
<1>1. Typed /\ Known => Keeps
  <2> SUFFICES ASSUME Typed, Known, NEW t \in Task, Leaves(t), DropsDraft \/ DropsText, ~task[t].late
               PROVE  FALSE
    OBVIOUS
  <2>1. task[t].pc \in {"go", "load", "act"}
    BY DEF Leaves, OpenNote, NoteLoaded, CloseTab, ActDone, Returns, At
  <2>2. draft.content \notin onlyHere /\ heard
    BY <2>1 DEF Known, ChainsFit, Fits
  <2> QED BY <2>2 DEF DropsDraft, DropsText
<1>2. Typed /\ Known => [Keeps]_draftVars
  BY <1>1
<1> QED BY <1>2, AlwaysKnown, PTL DEF TypedTextIsKept
=============================================================================
