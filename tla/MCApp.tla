-------------------------------- MODULE MCApp --------------------------------
(***************************************************************************)
(* Small instances for TLC of the work of a signed-in user: the sessions   *)
(* it rests on (SessionStore), the draft of the open note (DraftEditor),   *)
(* the search and the dialogs of App.tsx (Dialogs), and the trash on the   *)
(* disk (TrashBin).  They share no state that is modelled: in a behaviour  *)
(* one of them runs and the others stay at rest.                           *)
(***************************************************************************)
EXTENDS SessionStore, DraftEditor, Dialogs, TrashBin, TLC

\* A pending session is short, a signed-in one longer.
MCLifetime == [l \in Level |-> IF l = "pending" THEN 1 ELSE 3]

VARIABLE part   \* the one that runs

AppInit ==
  /\ part \in {"sessions", "draft", "dialogs", "trash"}
  /\ Init
  /\ DraftInit /\ (part # "draft" => file = [p \in Path |-> 0])
  /\ TrashInit /\ (part # "trash" => made = {})
  /\ DialogInit /\ (part # "dialogs" => panel = "search")

\* A step of one part.
Sessions(A) == part = "sessions" /\ A /\ UNCHANGED <<part, draftVars, dialogVars, trashVars>>
Drafts(A) == part = "draft" /\ A /\ UNCHANGED <<part, vars, dialogVars, trashVars>>
Panels(A) == part = "dialogs" /\ A /\ UNCHANGED <<part, vars, draftVars, trashVars>>
Disk(A) == part = "trash" /\ A /\ UNCHANGED <<part, vars, draftVars, dialogVars>>

\* The operations by name: TLC counts the steps of each.
SessionSteps ==
  \/ \E r \in Request :
       \/ \E t \in Token \cup {NoToken} : Sessions(Arrive(r, t))
       \/ Sessions(Touch(r)) \/ Sessions(Serve(r)) \/ Sessions(Destroy(r))
       \/ \E t \in Token :
            \/ Sessions(StartMFA(r, t)) \/ Sessions(Establish(r, t)) \/ Sessions(EstablishFails(r, t))
            \/ Sessions(RevokeSession(r, t))
       \/ Sessions(RevokeOtherSessions(r)) \/ Sessions(RevokeAll(r)) \/ Sessions(ReplacePassword(r))
       \/ Sessions(SkipCommit(r)) \/ Sessions(CommitPrune(r)) \/ Sessions(CommitUpsert(r))
       \/ Sessions(Abort(r))
  \/ Sessions(RecoverCredentials) \/ Sessions(Tick)

DraftSteps ==
  \/ \E t \in Task :
       \/ Drafts(SaveCheck(t)) \/ Drafts(OpenNote(t)) \/ Drafts(CloseTab(t)) \/ Drafts(Act(t))
       \/ Drafts(SaveSucceeds(t)) \/ Drafts(SaveConflicts(t)) \/ Drafts(ConflictRead(t)) \/ Drafts(SaveFails(t))
       \/ Drafts(NoteLoaded(t)) \/ Drafts(ActDone(t)) \/ Drafts(TreeLoaded(t)) \/ Drafts(Resolved(t)) \/ Drafts(Reread(t))
       \/ Drafts(TimerFires(t)) \/ Drafts(Save(t))
       \/ \E p \in Path : Drafts(Open(t, p))
       \/ \E p \in Path \cup {NoPath} : Drafts(Close(t, p))
       \/ \E p, q \in Path : Drafts(Move(t, p, q))
       \/ \E p \in Path, next \in Path \cup {NoPath} : Drafts(Delete(t, p, next))
       \/ \E combined \in BOOLEAN : Drafts(Resolve(t, combined))
       \/ \E answer \in {"ok", "failed"} :
            Drafts(Written(t, answer)) \/ Drafts(Moved(t, answer)) \/ Drafts(Deleted(t, answer))
       \/ Drafts(Refused(t)) \/ Drafts(NoteRead(t)) \/ Drafts(Failed(t))
  \/ Drafts(Type) \/ Drafts(Report) \/ Drafts(UseServer) \/ Drafts(DecideLater)
  \/ \E p \in Path : Drafts(OtherSession(p))

DialogSteps ==
  \/ Panels(TypeQuery) \/ Panels(SelectFolder) \/ Panels(SearchStarts) \/ Panels(SearchServed)
  \/ Panels(SearchHeard) \/ Panels(SearchFails) \/ Panels(VaultSwitched) \/ Panels(VaultShown)
  \/ Panels(ToggleSelection) \/ Panels(TrashLoaded) \/ Panels(RunTrash) \/ Panels(ProcessItem)
  \/ Panels(RunEnds) \/ Panels(ScanAssets) \/ Panels(AssetsScanned) \/ Panels(DeleteSelectedAssets)
  \/ Panels(AssetsDeleted) \/ Panels(OpenMarkdownPaste) \/ Panels(TypeMarkdown) \/ Panels(ClipboardRead)
  \/ Panels(CloseMarkdownPaste)

TrashSteps ==
  \/ Disk(MoveToTrash) \/ Disk(RestoreTrashItem) \/ Disk(DeleteTrashItem) \/ Disk(MoveFile)
  \/ Disk(CreateFile) \/ Disk(RenameNote) \/ Disk(RenameNoteFails) \/ Disk(RenameImages)
  \/ Disk(RenameImagesFails) \/ Disk(NameEntry) \/ Disk(NameEntryFails) \/ Disk(RemoveEntry)
  \/ Disk(RemoveEntryFails) \/ Disk(UndoImages) \/ Disk(UndoNote) \/ Disk(ServerStops)
  \/ Disk(SaveAsset) \/ Disk(MakeAssetsDirectory) \/ Disk(WriteAsset) \/ Disk(WriteAssetFails)

AppNext == SessionSteps \/ DraftSteps \/ DialogSteps \/ TrashSteps

AppSpec == AppInit /\ [][AppNext]_<<part, vars, draftVars, dialogVars, trashVars>>

\* Two tokens are named as the two notes, and two requests as the two chains: one
\* symmetry serves both parts.
Symmetry == Permutations(Task) \cup Permutations(Path)
=============================================================================
