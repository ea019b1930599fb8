# RepoQuill in TLA+

RepoQuill is a self-hosted Markdown vault: a Go server that keeps notes as files
and an owner's credentials in SQLite, and a React editor in the browser. This
directory holds TLA+ models of the server's concurrent core and of the browser's
state beside the document, the TLC configurations that check them on small
instances, and proofs of all their invariants and action properties for every size. File references
are relative to `src/`; those without a directory are in `frontend/src` or, with
`.go`, under `internal`. `ME` is `components/editor/MarkdownEditor.tsx`.

Contents: [the system](#the-system), [plan](#plan), [modules](#modules),
[runs](#runs), [assumptions](#bounds-fairness-and-other-assumptions),
[proofs](#proofs), [divergences](#where-code-and-documentation-differ),
[not modelled](#not-modelled).

## The system

| Component | Code | State it keeps | Operations |
|---|---|---|---|
| Sessions | `internal/auth/sessions.go`, `administration.go` | table `auth_sessions`; per request the session data scs loaded | load and refresh, sign-in in one or two steps, rotate, log out, revoke one / others / all, commit and prune |
| Credentials and MFA | `internal/auth/credentials.go`, `mfa.go`, routes in `internal/app/handler.go` | password hash, enabled and pending TOTP secret, `last_totp_step`, recovery codes | login, second factor, password change, enrol, confirm, cancel, disable, regenerate codes, session settings |
| Throttle | `internal/auth/throttle.go` | one slot, failure counters by client and in common | `Begin`, `FailureOperation`, `SuccessOperation`, `End` |
| Terminal | `cmd/repoquill/main.go`, `administration.go`, `mfa.go` | the same database, from another process | `reset-password`, `reset-mfa`, `bootstrap-token` |
| Setup | `credentials.go`, `service.go` | bootstrap token, owner state, access mode | create token, validate, complete setup, reconcile configuration at start |
| Notes | `internal/files/repository.go`, `operations.go`, `trash.go` | files of a vault; `contentMu`, `moveMu`, `trashMu` of a `Repository` object | save by version, create, move, move to trash |
| Vault registry | `internal/app/notebooks.go`, `handler.go` | `notebooks.json`, the current `Repository` | create, adopt, rename, activate, delete a vault |
| Trash | `trash.go` | `.trash` entries with metadata | list, restore, delete |
| Moves with links | `links.go` | - | preview with a token, rewrite links and move, roll back |
| Assets | `assets.go`, `cleanup.go` | files under `assets/` | store, find unreferenced, delete |
| Presentations | `presentations.go` | image sizes by vault and path | set, follow moves and deletions |
| Drafts | `frontend/src/App.tsx` | the open note's draft, its version, conflict, timers | autosave, open, close, move, delete, resolve |
| Workspace | `App.tsx`, `app/autoLock.ts` | tabs, selection, read-only mode, tree, active vault, lock timer | the same flows, create, switch and create vaults, lock and unlock |
| Search and dialogs | `App.tsx` | query and results, lists of the trash and of unused images, pasted Markdown | search, restore, delete, scan |
| Browser gate | `AuthGate.tsx`, `api.ts` | what each window shows, its CSRF token | check the status, forms, sign out, hear of other windows |
| Markdown surface | `components/editor/*`, `app/documentStats.ts` | beside the ProseMirror document: menus, link dialog, picked image and sizes, consent to external images, outline and counts, code blocks, code mode | typing, links, images, outline, copying code |

How they interact. Every HTTP request passes `authenticationBoundary`, which acts
on the session that scs loaded when the request arrived; scs commits it when the
response is written. Routes that check a credential first take the throttle's
single slot. All SQL goes over one connection (`service.go:168`), so statements
are atomic and ordered, but requests interleave between any two of them, and the
terminal commands are another process. Note routes pick up the current
`Repository` object under a read lock and then work under that object's mutexes;
activating a vault replaces the object while they run. The browser issues
requests whose answers come back in any order; its windows share one session
cookie and tell each other when it changes. Inside a window, ProseMirror and
Milkdown hold the document, and RepoQuill's state beside it follows by listeners
that are told late, by timers, and by a `MutationObserver`.

What is hard, and what makes each component correct:

- *Sessions.* A load is two statements, a commit is two statements, and session
  data is carried from one to the other through a whole handler. Correct: a
  token never changes what it grants, a revoked one does not come back, and a
  session is not lost to the commit of another.
- *Credential gate.* Each route is a series of reads and writes with hashing in
  between. Correct: the password alone signs in only without MFA; what is
  enabled has been proven; codes count once; replacing the password ends what
  began with the old one; the slot always comes back.
- *Notes.* A version is compared and a file replaced by different system calls.
  Correct: operations look atomic; a save replaces exactly what it names; no
  error path keeps the mutex; a stop leaves nothing half written but an empty
  new note.
- *Drafts and workspace.* A flow of calls goes on after each await with the tabs,
  the selection and the mode of the render it began in. Correct: typed text is
  saved or the user knows; draft, selection, tab and mode are of one note; a note
  that may be edited will be locked, and never with unsaved text.
- *Browser gate.* Checks are dropped while one is in flight, news while a window
  is hidden; answers belong to cookies already replaced. Correct: the application
  is shown with a token only, and each window becomes right again.
- *Search and dialogs.* Answers are late and runs fail for some items. Correct:
  what is listed is what was asked for and what there is.
- *Markdown surface.* Positions, sizes, consent and modes are copies of something
  in a document that changes under them. Correct: a menu, a button or a dialog
  acts on what the user sees.
- *Trash and link moves.* Each is a series of renames and writes, and what is
  done is undone when a later call fails. Correct: nothing is lost, whatever fails
  or is cut off; a note keeps its images and can be restored; links lead where they
  led, or nothing has moved.
- *Setup, clean-up of assets, registry and throttle on the server.* The hazards
  listed for them in `PROJECT.json` are the starting point of the rest of the plan.

## Plan

In order of importance. Done:

1. `SessionStore` - sessions, statement by statement.
2. `NoteSpace` (abstract) and `VaultNotes` (mutexes, activation, restart), with
   `VaultNotes => NoteSpace` while each vault has one object.
3. `CredentialGate` - credential routes under the slot.
4. `DraftEditor` - the continuations of `saveDraft`, `openNote`, `closeTab`, moves,
   deletions and conflict resolution over a server that keeps `NoteSpace`.
5. `Workspace` - tabs, mode, tree, vault switches and the automatic lock around it.
6. `BrowserGate` - the gate in several windows over one cookie.
7. `Dialogs` - search, trash, unused images, pasted Markdown.
8. `LinkMenus`, `ImageWork`, `ExternalImages`, `NoteLinks`, `Outline`, `CodeBlocks` -
   the editor's state beside the document.
9. `TrashBin` - trash, restore, move and stored images, call by call, with failing
   calls and stops.
10. `LinkedMove` - the move that rewrites links, with its roll-back.

Left:

11. `OwnerSetup` - bootstrap token, setup and mode reconciliation.
    Property: setup succeeds once, with a token that was valid.
12. `VaultRegistry` with presentations - registry file, switch mutex, deletion.
    Property: the active vault exists and is the one the object was made for.
13. `Throttle` - counters, window and delays, with their arithmetic; `AssetCleanup`
    - references checked without the mutex.

Every safety invariant and action property of a passing run is a theorem. Theorems
left come with those modules, and two compose what is proved: that a chain of
`DraftEditor` sees the server through steps of `NoteSpace` only, and that what
`SessionStore` proves of a session is what `CredentialGate` and `BrowserGate` assume
of it in one step.

## Modules

`MC*.tla` only define symmetry sets, bounds and the values of constants;
`*Proofs.tla` hold theorems and proofs. `MCGateSlot`, `MCApp`,
`MCFiles` and `MCVaultAndEditor` put modules that share no modelled state side by side: `part`
names the one that runs, the others stay at rest. They list every operation by
name, so that TLC's coverage shows that each is taken.

### SessionStore

| Model | Code |
|---|---|
| `rows` | rows of `auth_sessions`: state, level, `last_activity_at`, idle and absolute expiry |
| `req[r]` | a request and the session data scs keeps for it: token, level, deadline |
| `now` | the clock, in units of the activity interval |
| `birth`, `ended` (history) | what a token was drawn with; tokens some statement revoked |
| `Arrive`, `Touch` | `FindCtx`: the SELECT, and the UPDATE when activity is old |
| `StartMFA`, `Establish`, `EstablishFails` | `Login`, `CompleteMFA`, `EstablishAfterSetup`, `RotateCurrent` and `establish`, with the row revoked by scs's `RenewToken` |
| `Destroy`, `RevokeSession`, `RevokeOtherSessions`, `RevokeAll`, `ReplacePassword`, `RecoverCredentials` | log-out and the revocations |
| `CommitPrune`, `CommitUpsert`, `SkipCommit` | `CommitCtx`: the DELETE, and the INSERT ... ON CONFLICT DO UPDATE ... WHERE |
| `Abort` | the request ends at any statement (cancelled, failed, process stopped) |

The level of a session ("none", "pending" for a password accepted while MFA is
on, "owner") stands for the session data. The CSRF token in it is left out.

### NoteSpace and VaultNotes

`NoteSpace` is the abstract specification: each vault is a function from paths to
contents, every operation happens at one instant, and between the creation of a
note and its heading nobody touches it. `VaultNotes` is the code:

| Model | Code |
|---|---|
| `files` | the files of each vault; a version is the SHA-256 of the content, so it is as good as the content |
| `root`, `current`, `contentMu` | the `Repository` objects made so far, the one in `repositoryHolder`, the mutex of each |
| `req[r]` | a request: waiting for the mutex, has checked its precondition, has created an empty note |
| `disturbed` (history) | requests whose files changed through another object while they held their mutex |
| `Begin*` | the routes: decode and pick up the current object |
| `Check`, `Refuse` | lock, read, and go on or answer conflict / not found / exists |
| `Apply*` | the rename, `O_EXCL` create, heading, or rename to the trash, and the unlock |
| `CreateFails`, `ApplyFails` | error paths |
| `Activate`, `Restart` | a new object for a vault; a stop at any point and a start with the active vault |

`moveMu` and `trashMu` are taken directly before `contentMu` and held with it, so
they add no exclusion. Directories are not modelled; owned assets are in `TrashBin`.

### TrashBin

| Model | Code |
|---|---|
| `doc`, `dirs`, `pics` | the files of a vault: the note at a place or in an entry of the trash (`content/item.md`), the directory of images beside it, the images in it |
| `bin` | the entries: named `.pending-` or finished, metadata with the original path, whether `content` is there |
| `work` | the operation that holds `contentMu`, and the call it is at |
| `upload` | `SaveAsset`, which takes no mutex: resolved, directory made |
| `owner`, `made`, `given`, `torn`, `apart` (history) | the note an image was stored for; notes there have been; what was deleted for good; an operation was cut off or could not be undone; an image was stored while its note was on its way |
| `MoveToTrash`, `RestoreTrashItem`, `DeleteTrashItem`, `MoveFile`, `CreateFile` | the checks, up to the first rename |
| `RenameNote`, `RenameImages`, `NameEntry`, `RemoveEntry` | the renames and the `RemoveAll` of the entry |
| their `...Fails`, `UndoImages`, `UndoNote` | error paths and what they undo; what undoes may fail as well |
| `ServerStops` | a stop between any two calls, or inside `RemoveAll` |
| `SaveAsset`, `MakeAssetsDirectory`, `WriteAsset`, `WriteAssetFails` | `SaveAsset` |

`RemoveAll` that fails or is cut off leaves any part of the entry
(`RemovedInPart`). `os.Rename` refuses a directory of images that is in the way when
it looks, and replaces one made after that look if it is empty (`Replaceable`). A
permanent deletion takes only `trashMu` and can run beside a
move or a creation; they touch no common path, and the model runs one after the
other. Folders in the trash, and calls that fail before the first rename, which
leave at most an unfinished entry, are left out.

### LinkedMove

| Model | Code |
|---|---|
| `page`, `owning` | the notes, each with one link and one name of images in its text, and the directories of images |
| `preview` | what a client was shown: the move and its token, a hash of all notes |
| `batch` | the move under way: source and target, the texts planned, written and kept for the roll-back |
| `verdict` (history) | how the last move ended: "moved"; "failed", an error, and what was done was undone; "stands", an error, and nothing was undone; "torn", an error, and a call that undoes failed too |
| `before` (history) | the notes when it began, and the note whose text was written with an error |
| `Replacement`, `Updated` | `planMoveLinks` with `resolvePortableLink`, `portableRelativeLink` and `rewriteAssetLinksContent` |
| `PreviewMove`, `MoveWithLinkUpdates`, `Outdated` | the preview route; the move with a token that still fits, or not |
| `CheckPlainMove`, `PlainMove` | the move route without a token: its own preview, then the move, with a save in between |
| `RenamePage`, `RenameItsImages`, `RewriteAssetLinks` and `...Fails` | `move`, forwards and on the way back; a failing rename is undone, a failing `rewriteAssetLinks` is answered as it is |
| `SyncFolder`, `SyncFolderFails` | the end of `move`: all renames are done, and the error of the sync is answered |
| `WritePage`, `WritePageFails`, `RestorePage`, `RestorePageFails` | the loop over the planned files and its roll-back |
| `WritePageUnsynced` | `writeMarkdownAtomically` has renamed and then returns the error of the sync: the note is rewritten and not in `written` |

Moves come one after the other, as `contentMu` makes them; saves come between the
preview and the move. A stop of the server in the middle leaves links half
rewritten: the code has no recovery to check, and the model no stop.

### CredentialGate

| Model | Code |
|---|---|
| `password`, `mfa`, `last`, `pending`, `codes` | `auth_password_credentials`, `auth_mfa_configuration` and `auth_recovery_artifacts` |
| `sess` | `auth_sessions`, with (history) the password a session began with and its mark |
| `slot` | `inFlight` of the throttle |
| `req[r]` | a route: its next statement, the session it was loaded with, the secret and TOTP step it has read |
| `proven`, `used` (history) | secrets some code was checked against; TOTP codes accepted |
| `TakeSlot`, `Throttled` | `beginCredentialAttempt`: admitted, or 429 |
| `CheckPassword`, `ReadMode`, `ReadSecret`, `AcceptTOTP`, `AcceptCode`, `ReadEnrollment` | the statements of `VerifyPassword`, `MFAEnabled`, `VerifySecondFactor`, `ConfirmMFAEnrollment` |
| `Challenge`, `Establish`, `EstablishFails` | the session routes; in one step each, `SessionStore` has their statements |
| `ReplacePassword`, `BeginEnrollment`, `EnableMFA`, `DisableMFA`, `RegenerateCodes`, `UpdateSettings` | the transactions that write |
| `CancelEnrollment`, `EndSession` | routes that take no slot |
| `RecoverPassword`, `ResetMFA` | the terminal |
| `Fail` | every error return |

A session's mark is "late" when the request that established it was in flight
while the password was replaced, "kept" when the password was replaced from it.
Whether a request is refused for the counters is a choice (`Throttled`); an
enrolment that has expired, a wrong code and a failing statement are `Fail`. The
credential mutex of `Service` is taken only inside the slot and excludes nobody
else. Re-hashing a password with new parameters is a compare-and-swap on the
hash (`credentials.go:380-394`): it changes no part of this state.

### DraftEditor

The browser runs one turn at a time: a gesture, a timer or a response starts it,
and it ends when everything it resumed awaits something again. A chain of async
calls (`openNote` calling `saveDraft`, and so on) is a *task*.

| Model | Code |
|---|---|
| `draft`, `timer`, `saving` | the refs `activeDraft`, `saveTimer`, `savePromise` |
| `status`, `conflict`, `loading` | the React state `saveStatus`, `saveConflict`, `noteLoading` |
| `shown`, `heard` | the text in the mounted Milkdown editor, and whether its listener has told of it; another key of the component mounts another editor, the same key keeps it (`Kept`) |
| `task[t]` | a chain: what it awaits, the arguments and snapshots in its closures, the response on its way |
| `file` | the notes on the server; a text is as good as its version, which is its hash |
| `seen`, `hidden` (history) | texts that were on screen, in the editor or in the conflict dialog; texts loaded under an editor that kept its own |
| `onlyHere`, `gaveUp`, `late` (history) | texts typed that the server never stored; a `saveDraft` that returned false; text that the chain could not save, typed after its `saveDraft` returned, not told of by then, or in another note |
| `TimerFires`, `Save`, `Open`, `Close`, `Move`, `Delete` | a chain begins: `saveDraft` up to its first await |
| `SaveCheck` | `saveDraft` after it waited for the save of another chain |
| `SaveSucceeds`, `SaveConflicts`, `ConflictRead`, `SaveFails` | `saveDraft` after its PUT, and after the GET that follows a 409 |
| `OpenNote`, `CloseTab`, `Act` | the callers after `saveDraft` returned true |
| `NoteLoaded`, `ActDone`, `TreeLoaded` | the callers after their responses |
| `Type` | a keystroke: the editor has the text, nothing else changes |
| `Report` | `updateDraft`, called by `markdownUpdated` (ME 929-933) some time after the keystroke |
| `UseServer`, `Resolve`, `Resolved`, `Reread`, `DecideLater` | the conflict dialog and `applySaveConflict` |
| `Written`, `Refused`, `NoteRead`, `Moved`, `Deleted`, `Failed`, `OtherSession` | the server, lost responses, and another session |

Chains that wait for one save resume in one turn, and all of them look at the
draft (`SaveCheck`) before any caller goes on (`Returns`): that is the order of
the microtasks. The server's handlers are one step each; `VaultNotes` has their
inside. The tab that is opened after a close or a deletion is a choice, and a move
that stops at the preview of its link changes is a failed one. The key of the
editor has the mode in it as well; here it is the path, and locking and unlocking
(`App.tsx:810`, `848`) are in `Workspace`.

### BrowserGate

| Model | Code |
|---|---|
| `owner`, `row`, `drawn` | the server: owner set up, what each session grants, sessions drawn |
| `cookie` | the session cookie the windows share; an answer sets it when it arrives |
| `gate[w]`, `token[w]` | the state of `AuthGate`, and `csrfToken` of `api.ts` (as the session it belongs to) |
| `check[w]`, `form[w]`, `call[w]` | `check` in flight (`checking.current`), a submitted form, a request of the application |
| `deaf[w]`, `news[w]` | why `retry` would return: hidden or within a second; messages of the `BroadcastChannel` under way |
| `StatusAnswered`, `StatusHeard`, `HealthHeard`, `StatusBroken`, `TryAgain`, `Reload` | `check`: status, health, the unreachable page and the page to reload |
| `UserReturns`, `NewsArrives`, `UserHides`, `SecondPasses` | `retry` and its listeners |
| `Submit`, `FormServed`, `FormRefused`, `FormHalfway`, `FormAccepted` | `submit` and the setup, login and second-factor routes with `csrfProtection` |
| `AppRequests`, `CallServed`, `CallHeard` | `apiFetch` and its 401, `logoutOwner`, `changeOwnerPassword` |
| `AnswerLost`, `SessionEnds` | lost answers; expiry or revocation elsewhere |

The disabled mode, in which the gate is always ready, is left out, as are the
remembered-device choice and what the pages look like.

### Workspace

| Model | Code |
|---|---|
| `stored` | the server: the notes of each vault |
| `vault`, `tree`, `treeFailed`, `tabs`, `selected`, `readOnly`, `noteLoading` | the React state of the same names (`activeNotebookID`, `entries`, `treeError`, `selectedPath`) |
| `openDraft` | `activeDraft`: its note, the vault it was read from, whether text is unsaved |
| `autoLock`, `armed` | the setting, and whether the controller of `autoLock.ts` has a timer |
| `flow[c]` | a flow of calls: what it awaits and, in `of`, `tabs` and `selected`, the closure it began with |
| `OpenPath`, `CloseSelectedTab`, `CloseOtherTab`, `MoveNote`, `DeleteNote`, `CreateNote`, `SwitchVault`, `CreateVault`, `RefreshTree`, `Lock`, `Unlock`, `SetAutoLock` | the gestures |
| `TypeInNote`, `Autosave`, `LockExpires` | typing, the timers |
| `DraftSaved`, `DraftNotSaved` | the callers after `saveDraft` returned, all in one turn (`Settled`) |
| `NoteArrives`, `NoteMoved`, `NoteDeleted`, `Created`, `Switched`, `NotDone`, `TreeRead`, `TreeHeard` | the callers after their answers, and `loadTree` |
| `crossed`, `lockGaveUp` (history) | something moved under a waiting flow; the save before the last lock failed |

`DraftEditor` has the inside of `saveDraft`; here it is a wait that ends with all
text saved or not. A setter given a function sees the current tabs, one given a
value the tabs of the closure: `DraftSaved` and `NoteDeleted` differ in that from
`NoteArrives`. Folders and the tree's filter are left out.

### Dialogs

| Model | Code |
|---|---|
| `search`, `due` | `searchQuery`, `searchResults`, `searchLoading`, `searchError`; the timer of 250 ms or the request, with the vault it was answered for |
| `listed`, `kept`, `request`, `pending`, `outcome` | `TrashDialog` and the unused images: what is listed and selected, what the server has, the run |
| `markdown` | the dialog for pasted Markdown and `navigator.clipboard.readText` |
| `TypeQuery`, `SelectFolder`, `SearchStarts`, `SearchServed`, `SearchHeard`, `SearchFails`, `VaultSwitched`, `VaultShown` | the effect of the query and the vault, with its clean-up |
| `TrashLoaded`, `RunTrash`, `ProcessItem`, `RunEnds`, `ScanAssets`, `AssetsScanned`, `DeleteSelectedAssets`, `AssetsDeleted`, `ToggleSelection` | `load`, `run` and their counterparts for images |
| `OpenMarkdownPaste`, `TypeMarkdown`, `ClipboardRead`, `CloseMarkdownPaste` | the Markdown dialog |

### The editor of one note

The component is mounted anew for each note, so each of these is about one note.

- `LinkMenus` (ME): one block of text as a sequence of units with cursor and
  selection; `noteLinkOpeningRef` and `noteLinkTriggerIntentRef` (`opening`,
  `intent`), the suggestions (`trigger`), the command menu (`slash`), the link
  dialog (`picker`). Keys, clicks, pasted text and images that arrive change the
  text; `Heard` is `listener.updated`, which recomputes the menus, some time later.
- `ImageWork` (ME, `presentations.go` as it is used): `selectedImage` (`picked`)
  against the selection (`nodeAt`), a replacement being uploaded, and the sizes:
  shown (`values`), stored (`sizes`), requests in flight with the snapshots they
  restore when refused.
- `ExternalImages` (ME): the `<img>` and its wrapper's data, which
  `decorateImages` renews after whatever Milkdown left; `agreed` is what the user
  clicked.
- `NoteLinks` (ME): paths as sequences of names, links as sequences of parts that
  are escaped or not; `portableRelativeNoteHref`, `resolveInternalNotePath` and
  what a click opens while notes come and go. No name is `.` or `..`, as no file has
  one (`LinkAssumption`).
- `Outline` (ME, `documentStats.ts`): headings and tasks of the document, the
  panel and its timer, the counts.
- `CodeBlocks` (`codeBlocks.ts`, ME): the view of a block with its language,
  highlights and copy button, whose answers come in any order and after the view
  is gone; and the mode of typing code inside a paragraph, held by
  `inlineCodeTypingRef` and by the stored marks.

## Runs

| Run | What it shows | Bounds |
|---|---|---|
| `session_revival` | a revoked session comes back (below) | 3 tokens, 2 requests: one session to revive, one to prune, one drawn by a rotation |
| `file_work` | the files of notes on the server (table below) | 2 vaults with one object each (`OneObjectPerVault`), 2 paths, 2 contents, 2 requests; the move: 2 folders, 2 names, 2 notes, 1 move, 1 save, 2 failing calls |
| `notes_activation` | `UndisturbedStillApplies`: what a request saw under the mutex holds when it acts unless another object disturbed it. Beside it, workspace and editor (next table) | 2 vaults, 2 objects, 2 paths, 2 contents, 2 requests |
| `notes_lost_update` | two objects of one vault lose an update (below) | 1 vault, 2 objects |
| `gate_enrolment` | `PasswordAloneOnlyWithoutMFA`, `EnabledSecretIsProven`, `CodesBelongToSecret`, `TypeOK` under every mix of two routes and the terminal | 2 sessions, 2 secrets, 2 sets of codes, 2 requests |
| `gate_sessions` | `OnlyLateSessionsOutliveThePassword`, `TOTPIsSingleUse` | 2 passwords, 2 sessions, 2 TOTP steps, 2 requests |
| `gate_slot` | `SlotComesBack` (liveness): whoever takes the slot gives it back. Beside it the browser: `ReadyHasToken`: a window that shows the application holds a token. `GateFollowsServer` (liveness): what a window shows is right again and again | 1 session, 2 requests; browser: 2 windows, 2 sessions, 2 events |
| `gate_stale_request` | a request loaded before a password change outlives it (below) | 3 sessions, 2 passwords |
| `gate_rotation` | the session a change was made from stays (below) | 2 sessions, 2 passwords |
| `app_work` | what a signed-in user works with (table below) | per part, in the table below |
| `draft_report` | a draft is replaced under the editor that shows it (below) | 2 notes, 2 chains at once and 4 begun by gestures, 2 texts after the first |
| `draft_overwrite` | a text of another session is overwritten that was never on screen (below) | the same |

`app_work` runs these modules:

| Module | What it shows | Bounds |
|---|---|---|
| `SessionStore` | `FixedAtBirth`: no row or request holds a token at another level or deadline than it was drawn with. `DeadStaysDead`: a revoked token no request carries is never accepted again. `EndsOnlyByRevocation`: nothing but a revocation, time or a held-up commit of its own ends a session. `TypeOK` | 2 tokens, 2 requests, 3 clock values; idle window 2, a pending session ends at 1 and a signed-in one at 3, so that one is refreshed, idles out, or reaches its end |
| `DraftEditor` | `SaveIsComing`: until a `saveDraft` has returned false, unsaved text of the draft has a timer or a save coming. `TypedTextIsKept`: opening, closing, moving and deleting take away text only if it was typed when they had saved already, if the editor had not told of it by then, or if it is in another note than the one they were saving. `OnlyReloadedIsOverwritten`: a text of another session that was never on screen is overwritten only if it was loaded under an editor that kept its own. `DraftTypeOK` | 2 notes, 2 chains at once, 3 begun by gestures and any number by the timer, 2 texts after the first |
| `Dialogs` | `ResultsAreOfTheQuery`, `ListIsTrue`, `TypedMarkdownStays` | 2 queries, 2 items, 4 inputs |
| `TrashBin` | `NothingIsLost`: stored notes and images are somewhere on the disk until deleted for good, whatever fails, is cut off or is stored meanwhile. `NotesComeBackWhole`: unless an operation was torn, the trash can be listed, every note is at a place or restorable, and its images are beside it | 2 places, 1 entry, 2 notes, 2 images, 2 operations, 2 failing calls or stops |

`file_work` runs these:

| Module | What it shows | Bounds |
|---|---|---|
| `VaultNotes` | `OperationsAreAtomic`: the code implements `NoteSpace`. `SaveReplacesWhatItNames`. `EveryRequestEnds` (liveness): no way out of a handler keeps the mutex. `TypeOK` | as above |
| `LinkedMove` | `MoveIsWholeOrUndone`, in three parts. `LinksFollowTheMove`: after a move answered as done every link leads to the note it led to, and images are found by the new name. `FailedMoveIsUndone`: after one that was rolled back everything is as before, but for one note whose new text was written and its folder not synced. `StandingMoveIsWhole`: after one answered by an error that was not rolled back, the note is at its new place with its link and its images, and no other note was touched | one note is `First`, up to the names of folders and notes; only it has images, and a link that may lead nowhere |

`notes_activation` runs these modules beside `VaultNotes`:

| Module | What it shows | Bounds |
|---|---|---|
| `Workspace` | `OneNoteOpen`: draft and selection name one note at the end of every turn. `NotesArePlaced`: tab, mode, vault and tree fit unless something moved under a waiting flow. `LockedTextIsSaved`. `LockIsComing`: a note that may be edited has a lock timer or a lock on its way | 3 notes, 2 vaults, 2 flows, 2 gestures; Init has no note or two open |
| `LinkMenus` | `MenusFitTheText`: once told of the last change, both menus and the link dialog replace what they were opened for | 2 units of text |
| `ImageWork` | `PickedIsInTheNote`: buttons act on the image that is selected. `SizesAgree`: shown sizes are the stored ones when nothing overlapped or was lost | 1 image and the uploaded one, 2 units, 2 saves |
| `ExternalImages` | `ExternalImagesWait`: no request to another site before the user agreed to that source | 2 sites |
| `NoteLinks` | `LinksFindTheirNote`: a link written by the editor opens the note it was made for, if it is still there, and no typed link leads out of the vault | 2 folders, 2 names, some with `#`; depth 3 |
| `Outline` | `OutlineCatchesUp`: the outline is of the document or a timer will renew it | 2 blocks |
| `CodeBlocks` | `CopyIsReported`, `CodeModeIsShown` | 3 texts, 4 languages, 2 copies |

Each property of a passing run has a mutant: a `Mut*` operator next to the
definition it replaces, written as a plausible slip in that code (a missing
condition, an unlock forgotten, a check before the lock). With the mutant in
place TLC reports the property violated, so the property depends on that code.

## Bounds, fairness and other assumptions

- Two requests are enough for every pairwise interleaving; each property relates
  at most two actors, and the theorems below drop the bound where they apply.
- `MaxText` and `MaxChains` bound the editor. `MaxChains` counts the chains that
  gestures begin; the timer begins others, so that with 3 a save can be lost, tried
  again, refused and resolved, and with 2 texts the user types again while any of
  it is under way or another session writes. The two violated runs allow 4.
- `MaxClock`, `MaxStep` and `MaxObjects` stop counters. They are large enough for
  a session to be refreshed, to idle out or to reach its deadline, for a TOTP code to
  be offered in its own and in the next step, and for a vault to be activated
  while requests of the old object run.
- `MaxUnits` is 2 because every trigger is complete in two units (`[[`, `[x`, `[]`,
  `/x`, ` /`) and an image or a key can arrive on either side of one. `MaxNote` and
  `MaxBlocks` let one image or heading stand before or after another thing;
  `MaxSaves` lets two requests for a size overlap; `MaxCopies` two copies end in
  either order. `MaxDepth` 3 has a note above, beside and below another.
- `MaxTasks` 2 lets a note be trashed and restored, moved and trashed, or deleted,
  with an image stored beside either; `MaxFaults` and `MaxFailures` 2 let a call and
  the call that undoes it fail. Two notes in `LinkedMove` give links of the moved
  note to itself and to another, of the other to it and to itself, and two texts to
  write, so that the second may fail after the first. Another instance of
  `TrashBin` (2 entries, 3 operations) was checked as well, and `LinkedMove` with
  images and any link in the second note too.
- `MaxGestures` 2 lets two flows overlap from any of their awaits to any other;
  typing, timers and answers are not counted. A third flow adds no pair.
- `MaxEvents` counts forms, requests and lost answers, per open window (two with
  one window, one of each pair with two): enough for a sign-out in one window
  during a check in the other, a lost answer followed by another try, and a
  session replaced under a request.
- Two contents (the empty note and its heading) suffice for `notes_activation` and
  `file_work`: a version equals its content, so another content only repeats
  what the two do. `OneObjectPerVault` is a state constraint: it cuts behaviours at
  the second object of a vault, which `notes_lost_update` is about. `SizesMatter`
  cuts an image's behaviour where `SizesAgree` no longer speaks of it.
- Tokens, secrets and recovery codes are random in the code; the models draw one
  that nothing refers to any more. In `SessionStore` a token is never drawn
  twice.
- Symmetry is used for tokens, requests and the other interchangeable values,
  only in runs that check invariants and action properties.
- Fairness of `VaultNotes`: a handler that holds the mutex goes on to a return
  (weak fairness of `Acts`): its calls are finite file system calls. Waiting
  requests get strong fairness for lock-and-check, because Go's `sync.Mutex`
  hands itself to a waiter that has starved for a millisecond.
- Fairness of `CredentialGate`: a handler that runs goes on (weak fairness of
  `TakeSlot \/ Throttled` and of `Proceeds`). Nothing is assumed of arrivals, the
  clock, activations, restarts or the terminal.
- Fairness of `BrowserGate`: the server answers a check, the answer arrives and
  `check` ends (weak fairness of `CheckGoesOn`: `fetch` settles), a second passes
  (weak: a timer), and the user comes back to every window again and again (strong
  fairness of `UserReturns`: the listeners are all the code has, so nothing can
  be promised of a window nobody looks at). Forms, requests, news and lost answers
  are not assumed to happen or not to happen.
- External code is modelled by what `src/` relies on: SQLite statements and
  transactions are atomic, `rename` is atomic, `O_EXCL` creates or fails; scs
  loads a session once per request, marks it modified when it has an idle
  timeout, and commits it when the response is written. Of Milkdown and
  ProseMirror: a change is told to listeners after it, several at once, and an editor
  that is destroyed tells nothing any more (`_ctx.get(editorViewCtx)` has no view
  then); a position
  past the end makes a transaction throw; a removed selection ends in text; stored
  marks are dropped by a move of the cursor; a wrapper may be used for another
  image. Of the browser: one turn at a time, timers and answers in any order, a
  `MutationObserver` before anything else.

## Proofs

Checked by TLAPS for every value of the constants that satisfies the module's
assumptions (distinctness of the "no value" constants, positive durations).

- `SessionStoreProofs`. `TypeCorrect`; `PrivilegeAndDeadlineFixed`
  (`FixedAtBirth`); `RevocationIsFinal` (`DeadStaysDead`); `AccessEndsByRevocation`
  (`EndsOnlyByRevocation`). `FixedAtBirth` becomes inductive with the type invariant
  and the fact that a row or a request never holds a token that was not drawn: a
  renewal draws an undrawn token, so no older copy of it can disagree.
  `RevocationIsFinal` follows because only `Arrive` (which needs a live row), a
  renewal (which needs an undrawn token) and a request that already carries the
  token can touch it, and a dead token is none of these. `AccessEndsByRevocation`
  compares the row before and after each statement (`EndsStep`): only a request that
  carries the token writes its row without revoking it, and by `FixedAtBirth` it
  writes back the deadline the row has, so only the idle expiry can be older.
- `VaultNotesProofs`. `TypeCorrect`; `SameObjectNeverInterferes`
  (`UndisturbedStillApplies`). The property alone is not inductive: it needs that
  a request past its check holds the mutex of its object (so two of them never
  share one), that the objects requests hold exist, that only a create waits for
  a heading, and then that every write either is by the holder itself or by
  another object, which adds the holder to `disturbed`.
  The refinement is `OneObjectIsAtomic`: `Spec /\ []OneObjectPerVault` implies
  `NoteSpace` (`OperationsAreAtomic`), the hypothesis being the constraint of the
  run; without it the implication is false, as `notes_lost_update` shows. It goes
  through `UndisturbedIsAtomic`, which asks less: that nobody is disturbed. Each
  step maps to a step of `NoteSpace` or a stutter (`AtomicStep`): a check to a
  stutter, a write to the operation whose precondition `UndisturbedStillApplies`
  gives, a restart to a crash. Creations need `HeadingsApart`, that two notes
  awaiting their headings are not at one path, or writing one would end the other.
  `SavesReplaceWhatTheyName` follows under the same hypothesis.
- `CredentialGateProofs`. `TypeCorrect`; `PasswordAloneNeedsNoMFA`;
  `OnlyProvenSecrets`. The inductive invariant adds `SlotHeld` (a request past
  `begin` holds the slot, so at most one route is between its statements),
  `ConfirmPath` and `ConfirmedIsProven` (a confirmation about to write matched a
  code against what is pending for its session: cancelling can empty it, only a
  slot holder can replace it).
  `OnlyLateSessions` (`OnlyLateSessionsOutliveThePassword`) adds `CarriesThePassword`:
  a request that was not marked when the password was replaced, and is past checking
  it, stands on the password there is. `CodesOfTheEnabled` (`CodesBelongToSecret`) and
  `CodesAreUsedOnce` (`TOTPIsSingleUse`) share `EnrolmentInv`: what a request read as
  the enabled secret still is, unless MFA was switched off; pending codes are of the
  pending secret, which is new and of which no code was accepted; and `last` is no
  earlier than any code accepted for the enabled secret.
- `DraftEditorProofs`. `TypeCorrect` (`DraftTypeOK`); `SavesAreComing` (`SaveIsComing`). The types
  rest on `Typed`: a chain that opens, moves or deletes has a note to do it to, and
  a request for a note or a choice after a conflict names one, so that files are
  looked up only at notes. `SaveIsComing` speaks of the end of a turn and is not
  inductive; `SaveOwed` also counts, in the middle of a turn, the chains about to
  look at the draft. `Report` sets the timer; a call that clears it waits, sends the
  draft or is refused; a save that ends finds the draft as it sent it, sends again,
  or was another note's, and then a chain that waited for it owes the save still.
  `OnlyReloadedTextIsOverwritten` (`OnlyReloadedIsOverwritten`) and
  `OnlyLateTextIsDropped` (`TypedTextIsKept`) rest on `Known`: no text that is
  stored, shown or on its way is later than the last one made; a request sends a
  text and a version the client has had, on screen or under an editor that kept its
  own (`seen \cup hidden`); what the server confirmed or sent is stored; an editor
  that has not told of its text is on the page (`UnheardFits`);
  and a chain that goes on after saving leaves no unsaved text, told or untold,
  unless it is marked late.
- `BrowserGateProofs`. `TypeCorrect` (`GateTypeOK`); `TokenWhenReady`
  (`ReadyHasToken`). The invariant adds `AnswersBringSessions`: a check that was
  answered is told a page, and an answer that makes a window ready, or accepts a
  sign-in or a new password, names a session - so the token it sets is one.
- `WorkspaceProofs`. `DraftOfTheSelected` (`OneNoteOpen`); `LockComes`
  (`LockIsComing`). `ShellInv` adds the shapes of flows and `LockIsDue`: a lock flow
  still watching is for the open note with nothing typed since, and waits only for
  `saveDraft`; so a flow that ends has locked the note, or the timer was set again
  by whatever changed. Turns fall into those that change selection or mode and set
  the timer (`Rearmed`) and those that change neither (`Ordinary`).
  `TabsFit` (`NotesArePlaced`) and `LockedIsSaved` (`LockedTextIsSaved`) rest on
  `Placed`: unless `crossed`, the closure of a flow that has done nothing yet is what
  is shown, a note about to be opened has a tab or one it may take (`Fits`), and so
  is what is shown itself (`InPlace`). A turn either keeps what the closures of the
  others say or sets `crossed` (`Recorded`). The lists of tabs are arbitrary
  sequences; what mapping, filtering and appending do to `HasTab` and `ModeOf` are
  lemmas.
- `FilesProofs`. `NothingGetsLost` (`NothingIsLost`). `DiskInv` adds what each
  operation is about and which calls it can be at, that only an entry that has its
  directory and a directory of images that is there hold anything (`HeldSomewhere`),
  that nothing lies where a note is renamed to, neither forward nor back
  (`WayIsFree`), and that an entry that is about to be removed holds nothing but
  what was given up (`EntryIsEmpty`). A rename then only moves what was there, and
  a removal, whole or in part, takes nothing along.
  `NotesComeBack` (`NotesComeBackWhole`) adds `Whole`: a note lies at one spot
  (`Unique`); unless an operation was torn, every entry but the one in hand can be
  restored or is passed over (`Listing`), and what is on its way is at one end of it
  (`OnItsWay`); and unless an image was stored on the way, images are beside their
  note, or where they follow it from (`ImagesBeside`).
  `MovesAreWhole` (`MoveIsWholeOrUndone`) has `MoveInv`: while a move goes on, each
  text is the one of the beginning, moved, and rewritten when it is in `done`
  (`Forward`); on the way back, when nothing was lost, the same with `done` shrinking
  (`Backward`), except for the one note written with an error (`before.unsynced`),
  which keeps its planned text; each verdict is reached with the part of the
  property it stands for; and what is planned is what the links ask for, for all texts not in
  the plan too (`PlanHolds`). That the text after a move leads to the note it led to
  is a lemma on `LinkTo` and `LeadsTo`.
- `ScreenProofs`. Of `Dialogs`: `ResultsAreCurrent`, `ListsAreTrue`, `TypedStays`.
  `SearchIsCurrent` adds that the search under way, if any, is for the
  query and the vault shown; `ListIsSound` what a run has done so far.
  Of the editor: `ImagesWait` (`ExternalImagesWait`), from `Consent`: a wrapper that
  counts as loaded is for the source last agreed to; `CopiesAreReported`;
  `CodeModeShown`; `OutlineIsCurrent` (`OutlineCatchesUp`, inductive as it stands);
  `PickedStays` (`PickedIsInTheNote`), from `PickFollows`: once told, `picked` is the
  selected image, or none; `SizesAreStored` (`SizesAgree`), from `OneRequest` and
  `SizesWait`: without overlap at most one request is in flight, what is shown is
  what is stored with its change, and it remembers what is stored; `MenusFit`
  (`MenusFitTheText`), which needs that every position is one of the text
  (`MenuShape`) and lemmas on what an edit does to a part of it; `LinksAreFound`
  (`LinksFindTheirNote`), from `LinkInv`. Its core is `ChosenIsFound`:
  `ResolveInternalNotePath` of `PortableRelativeNoteHref` is the note it was made for,
  because after each `..` the stack is a shorter prefix of the folders, after the
  last the common part, and then a longer prefix of the target.

The installed provers cannot use the library's induction theorems, which take an
operator. Where texts and links of any length need induction over a number, it is
done over a set: the least element of a set of numbers comes from
`FS_StrictSubsetOrderingWellFounded` (`HasFirst`), and from it what holds of 0 and
goes on holds up to `N` (`GoesOn`); a recursive function is shown to exist the same
way (`WalkSteps`).

Model-checked only: the liveness properties `EveryRequestEnds`, `SlotComesBack` and
`GateFollowsServer` (liveness under fairness and `ENABLED` are beyond the installed
provers), and the six properties that are violated. No model has a recursive
operator.

## Where code and documentation differ

Each is a run that TLC ends with a counterexample.

- `session_revival` (`NeverRecreated`). `sessions.go:329-332` says the upsert
  keeps a stale request from recreating a revoked session. A request loads
  session A; A is revoked; the commit of session B prunes revoked rows, A's among
  them; the request commits, finds no row to conflict with and inserts A as live.
- `notes_lost_update` (`SaveReplacesWhatItNames`). `docs/architecture.md:12-14`
  says a stale version returns a conflict. Activating the vault that is active
  already makes a second `Repository` with a mutex of its own; one save through
  each passes the version check and the second rename drops the first text.
- `gate_stale_request` (`PasswordChangeEndsOtherSessions`).
  `docs/security/local-authentication-setup.md:71-72` says a password change
  revokes all other sessions. A confirmation of an enrolment loaded its session
  before the change, takes the slot after it, and rotates the revoked session
  into a new signed-in one.
- `gate_rotation` (`ChangedSessionIsRotated`). `sessions.go:162-163` says the old
  session is not left alive when rotation fails. When the request is cancelled
  after the credential was written, `Destroy` runs with the cancelled context, so
  the session stays.
- `draft_report` (`NothingUnsavedIsReportedSaved`). `KNOWN-LIMITATIONS.md:24-25`
  says the app does not report unsaved text as saved. A note is opened by two
  clicks; the first answer shows it and the user types; the second answer replaces
  the draft and sets the status to saved, but the key of the editor is the same,
  so the editor keeps the typed text. The choice of a version after a conflict
  ends in the same state when the note is still open (`App.tsx:379-386`).
- `draft_overwrite` (`NoBlindOverwrite`). `KNOWN-LIMITATIONS.md:26-28` says version
  checks reject stale writes and the owner must select a version. A note is opened
  by two clicks, and another session writes it between the two reads; the second
  answer brings the draft the new version under the editor that keeps the old text
  (`App.tsx:480`, `878`, ME 971-982). What is typed next is saved over a text the
  user was never shown, and nobody is asked.

The models also show behaviour that no document contradicts.

- Drafts: chains that waited for one save start saves from the same version, so
  the later ones meet a conflict with the user's own text; a save whose answer was
  lost meets its own text as a conflict; text typed while a move, a deletion or the
  opening of a note is awaited is dropped, and so is text typed just before, when
  Milkdown has not told of it: `saveDraft` finds the draft saved and returns true
  (the exceptions in `TypedTextIsKept`); and
  text typed while the other version is fetched after a conflict waits for the
  next keystroke when that fails.
- Trash (what `torn` and `apart` exclude): a stop after the note was renamed into an
  unfinished entry leaves it where the application does not list it; a stop or an
  error inside `RemoveAll`, of a restore or a deletion, leaves an entry that makes
  the whole listing fail (`loadTrashItem`, `trash.go:177-180`); an image stored while
  its note is moved stays in a directory without a note, and then a restore to
  that place is refused as a collision.
- Moves: when the names of images in the moved note cannot be rewritten, or the new
  folder cannot be synced, the move is answered by an error and not undone: the note
  is at its new path and the links to it name the old one (`operations.go:160-167`,
  `links.go:110-112`; the verdict "stands"). A note whose new text was written and
  not synced is not among those written back, and keeps that text
  (`links.go:131-135`, `437-441`). What `MoveIsWholeOrUndone` excludes: a plain move
  does not look again at the links after its preview (`handler.go:857-866`); on the
  way back names of images that were the new name before are renamed too, and a
  directory that lay at the new name is taken along; nobody is told when the
  roll-back fails (the verdict "torn").
- Workspace (what `crossed` excludes): `closeTab` and the deletion set the tabs to
  `remaining`, computed before their await (`App.tsx:511`, `677`), so tabs opened
  meanwhile go; the selected note may be left without a tab; `toggleReadOnly` (848)
  may lock the note that was opened while it saved; a lock during a move is undone
  (593, 616); creating a vault (400) drops unsaved text without saving it; requests
  to `/api/repository/*` do not name the vault they mean.
- Gate: a wrong current password is answered by 401, so `apiFetch` ends the
  browser's session although the server's lives; a mistyped setup token shows the
  login page; a check answered before a sign-out shows the application for a
  moment; a login form sent under a cookie another window signed in is refused.
- Menus: Ctrl+[ after `[`, or deleting the second bracket and typing another,
  opens suggestions after one bracket (`CHANGELOG.md:94` speaks of two); the link
  dialog keeps positions when an image arrives under it.
- Images: loading the sizes is not tried again after a failure; of two overlapping
  saves the one refused puts back the snapshot of both; a replacement writes back
  the sizes of when its upload began (ME 1423) and moves the size even when no
  image was replaced; a removal is not put back; removing one of two equal images
  drops the size of both; a size moved from an external image is refused.
- Code: moving the cursor or deleting while the code mode is on leaves the ref on
  while the button shows off (the exception in `CodeModeIsShown`).
- Dialogs: `load` (1363) takes back the message of the run's failures (1404); of
  two items deleted from one path, one restored and one failed make `run` throw
  (1402), and the list is not loaded again.

## Not modelled

On the server, planned above: owner setup and its token, the counters of the
throttle, the clean-up of assets, the registry file and its handlers, and
presentations following moves. Folders: moving, trashing and restoring one.

In the browser: the dialogs' own forms - `submitVault` of the settings
(`App.tsx:977-996`), `ManageNotebooksDialog` (1152-1225; its health checks are not
ordered), `combinedDraft` (1433-1440), MFA settings -, `refreshNotebookRegistrations`,
alternative texts (`saveImageMetadata`), the image viewer, `openSelectedInternalLink`,
`legacySessionCleanup.ts` (runs once), `vite.config.ts`, layout and keyboard
shortcuts. Rendering of Markdown is Milkdown's.

Left out for good: the proxy headers (`proxy.go`, a pure function of strings), flag
parsing and signals (`main.go`), cryptography and code generation, HTTP plumbing
and static files, export and search on the server (read-only, nothing depends on
their result).
