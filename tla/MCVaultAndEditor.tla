--------------------------- MODULE MCVaultAndEditor ---------------------------
(***************************************************************************)
(* Small instances for TLC of what goes on while vaults are switched, the  *)
(* notes of the server (VaultNotes) and the workspace of the browser       *)
(* (Workspace), and of the parts of the editor of one open note            *)
(* (MarkdownEditor.tsx, codeBlocks.ts).  They share no state that is       *)
(* modelled: in a behaviour one of them runs, the others stay at rest.     *)
(***************************************************************************)
EXTENDS VaultNotes, Workspace, LinkMenus, ImageWork, ExternalImages, NoteLinks, Outline, CodeBlocks, TLC

CONSTANTS v1, v2, n1, n2
InitialNotes == v1 :> {n1, n2} @@ v2 :> {n1}
Highlighters == [language \in {"bash", "sh"} |-> "bash"]

VARIABLE part   \* the one that runs

NotesAtRest == files = [v \in Vault |-> [p \in Path |-> Absent]] /\ root[1] = v1

\* The open note of the workspace, if there is one, is one that both vaults have.
BothInit ==
  /\ part \in {"notes", "workspace", "menus", "images", "external", "links", "outline", "code"}
  /\ Init /\ (part # "notes" => NotesAtRest)
  /\ WorkspaceInit /\ selected \in (IF part = "workspace" THEN {NoNote, n1} ELSE {NoNote})
  /\ MenuInit /\ (part # "menus" => ~code)
  /\ ImageInit /\ (part # "images" => note = <<"text">> /\ sizes = values)
  /\ ExternalInit /\ (part # "external" => source = "empty")
  /\ LinkInit /\ (part # "links" => at = <<"x.md">> /\ notes = {at})
  /\ OutlineInit /\ (part # "outline" => blocks = <<>>)
  /\ CodeInit /\ (part # "code" => block = [language |-> "", text |-> <<>>])

\* A step of one part.
Notes(A) == part = "notes" /\ A /\ UNCHANGED <<part, shellVars, menuVars, imageVars, externalVars, linkVars, outlineVars, codeVars>>
Shell(A) == part = "workspace" /\ A /\ UNCHANGED <<part, vars, menuVars, imageVars, externalVars, linkVars, outlineVars, codeVars>>
Menus(A) == part = "menus" /\ A /\ UNCHANGED <<part, vars, shellVars, imageVars, externalVars, linkVars, outlineVars, codeVars>>
Pictures(A) == part = "images" /\ A /\ UNCHANGED <<part, vars, shellVars, menuVars, externalVars, linkVars, outlineVars, codeVars>>
External(A) == part = "external" /\ A /\ UNCHANGED <<part, vars, shellVars, menuVars, imageVars, linkVars, outlineVars, codeVars>>
Links(A) == part = "links" /\ A /\ UNCHANGED <<part, vars, shellVars, menuVars, imageVars, externalVars, outlineVars, codeVars>>
Headings(A) == part = "outline" /\ A /\ UNCHANGED <<part, vars, shellVars, menuVars, imageVars, externalVars, linkVars, codeVars>>
Codes(A) == part = "code" /\ A /\ UNCHANGED <<part, vars, shellVars, menuVars, imageVars, externalVars, linkVars, outlineVars>>
View(A) == Codes(A /\ UNCHANGED modeVars)
Mode(A) == Codes(A /\ UNCHANGED viewVars)

\* The operations by name: TLC counts the steps of each.
NoteSteps ==
  \/ \E r \in Request : Notes(Begins(r)) \/ Notes(Check(r)) \/ Notes(Refuse(r)) \/ Notes(Acts(r))
  \/ \E v \in Vault : Notes(Activate(v))
  \/ Notes(Restart)

WorkspaceSteps ==
  \/ Shell(CloseOtherTab) \/ Shell(TypeInNote) \/ Shell(Autosave) \/ Shell(SetAutoLock)
  \/ \E c \in Flow :
       \/ Shell(OpenPath(c)) \/ Shell(CloseSelectedTab(c)) \/ Shell(MoveNote(c)) \/ Shell(DeleteNote(c))
       \/ Shell(CreateNote(c)) \/ Shell(SwitchVault(c)) \/ Shell(CreateVault(c)) \/ Shell(RefreshTree(c))
       \/ Shell(Lock(c)) \/ Shell(Unlock(c)) \/ Shell(DraftSaved(c)) \/ Shell(DraftNotSaved(c))
       \/ Shell(NoteArrives(c)) \/ Shell(NoteDoesNotArrive(c)) \/ Shell(NoteMoved(c)) \/ Shell(NoteDeleted(c))
       \/ Shell(Created(c)) \/ Shell(Switched(c)) \/ Shell(NotDone(c)) \/ Shell(TreeRead(c))
       \/ Shell(TreeHeard(c)) \/ Shell(LockExpires(c))

MenuSteps ==
  \/ \E key \in Key : Menus(Press(key))
  \/ Menus(PressBracketOnly) \/ Menus(PressArrow) \/ Menus(Backspace) \/ Menus(Point)
  \/ Menus(PressEscape) \/ Menus(LeaveEditor) \/ Menus(Heard) \/ Menus(InsertTriggeredNoteLink)
  \/ Menus(ExecuteSlashCommand) \/ Menus(EditLink) \/ Menus(ApplyLink) \/ Menus(CancelLink)
  \/ Menus(PasteMarkdown) \/ Menus(ImageArrives)

ImageSteps ==
  \/ \E s \in Slot : Pictures(SaveAnswered(s)) \/ Pictures(SaveFailed(s))
  \/ Pictures(SelectImage) \/ Pictures(SelectText) \/ Pictures(SelectionHeard) \/ Pictures(InsertHere)
  \/ Pictures(InsertElsewhere) \/ Pictures(DeleteUnit) \/ Pictures(LoadImagePresentations) \/ Pictures(PresentationsHeard)
  \/ Pictures(ResizeImage) \/ Pictures(StartReplacing) \/ Pictures(ReplaceSelectedImage) \/ Pictures(ReplacementFails)
  \/ Pictures(RemoveSelectedImage)

ExternalSteps ==
  \/ External(ChangeSource) \/ External(Rebuild) \/ External(Rerender) \/ External(LoadImage)
  \/ External(ImageFails)

LinkSteps ==
  \/ Links(InsertLink) \/ Links(TypeLink) \/ Links(NotesChange) \/ Links(OpenLink)

OutlineSteps ==
  \/ Headings(InsertBlock) \/ Headings(DeleteBlock) \/ Headings(PasteBlock) \/ Headings(ToggleTask)
  \/ Headings(ClickTask) \/ Headings(ChangeHeard) \/ Headings(RefreshOutline) \/ Headings(OpenOutline)
  \/ Headings(CloseOutline) \/ Headings(ScrollText) \/ Headings(SelectHeading)

CodeSteps ==
  \/ View(EditBlock) \/ View(SetLanguage) \/ View(StartCopy) \/ View(CopySucceeds)
  \/ View(CopyFails) \/ View(ResetCopyIcon) \/ View(Announce) \/ View(DestroyView)
  \/ Mode(ToggleInlineCode) \/ Mode(TypeText) \/ Mode(EscapeCode) \/ Mode(MoveOrDelete)
  \/ Mode(ToggleMark) \/ Mode(ModeHeard)

BothNext ==
  \/ NoteSteps \/ WorkspaceSteps \/ MenuSteps \/ ImageSteps
  \/ ExternalSteps \/ LinkSteps \/ OutlineSteps \/ CodeSteps

BothSpec == BothInit /\ [][BothNext]_<<part, vars, shellVars, menuVars, imageVars, externalVars, linkVars, outlineVars, codeVars>>

Symmetry == Permutations(Request)

\* Bound: an image's behaviour ends once its sizes may rightly differ.
SizesMatter == ~unsure
=============================================================================
