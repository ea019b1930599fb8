------------------------------- MODULE Dialogs -------------------------------
(***************************************************************************)
(* Dialogs and the search of the application that wait for the server      *)
(* while the user goes on (App.tsx, MarkdownEditor.tsx): the search of the *)
(* active vault, the trash, the images no note refers to, and the dialog   *)
(* for pasted Markdown.  They share no state: one of them is open.         *)
(***************************************************************************)
EXTENDS Naturals, FiniteSets

CONSTANTS
  Query,       \* what is searched for
  Item,        \* items of the trash; images no note refers to
  MaxInputs    \* bound: changes of the query, runs and dialogs opened

ASSUME DialogAssumption == MaxInputs \in Nat

VARIABLES
  panel,       \* the dialog that is looked at
  inputs,      \* changes of the query, runs and dialogs opened
  search,      \* searchQuery, searchResults, searchLoading, searchError
  due,         \* the search that waits 250 ms, or runs
  activeVault, \* activeNotebookID, and the vault of the server
  listed,      \* items, selectedIDs of the dialog
  kept,        \* the server: the items there are
  request,     \* the request of the dialog in flight
  pending,     \* run: what is left to process
  outcome,     \* the run: what was done and what failed
  threw,       \* history: run ended with an exception, or a load failed
  markdown     \* markdownPaste, and whether the clipboard is being read

dialogVars == <<panel, inputs, search, due, activeVault, listed, kept, request, pending, outcome, threw, markdown>>

-----------------------------------------------------------------------------
NoResults == [of |-> "nothing", vault |-> 0]
Vaults == 1..2
Panel == {"search", "trash", "images", "markdown"}

NotDue == [at |-> "no", of |-> "", vault |-> 0, found |-> NoResults]
NoRun == [done |-> {}, failed |-> {}]

DialogInit ==
  /\ panel \in Panel
  /\ inputs = 0
  /\ search = [query |-> "", results |-> NoResults, loading |-> FALSE, error |-> FALSE]
  /\ due = NotDue
  /\ activeVault = [shown |-> 1, server |-> 1]
  /\ kept = Item
  /\ listed = [items |-> {}, selected |-> {}]
  /\ request = IF panel = "trash" THEN "load" ELSE "none"
  /\ pending = {} /\ outcome = NoRun /\ threw = FALSE
  /\ markdown = [open |-> FALSE, words |-> "none", reading |-> FALSE]

SearchOnly == panel = "search" /\ UNCHANGED <<panel, listed, kept, request, pending, outcome, threw, markdown>>
DialogOnly == UNCHANGED <<panel, search, due, activeVault, markdown>>
Input == inputs < MaxInputs /\ inputs' = inputs + 1

-----------------------------------------------------------------------------
(* The search: an effect of the query and of the vault. *)
\* The effect: the search before is given up; the next waits for its timer.
Restarted(query) == IF query = "" THEN NotDue ELSE [NotDue EXCEPT !.at = "timer", !.of = query]

\* Mutant: the search before is not given up.
MutTypeQuery == \E query \in Query \cup {""} :
  /\ SearchOnly /\ Input
  /\ query # search.query
  /\ search' = IF query = "" THEN [query |-> "", results |-> NoResults, loading |-> FALSE, error |-> FALSE]
               ELSE [search EXCEPT !.query = query]
  /\ due' = IF due.at = "no" THEN Restarted(query) ELSE due
  /\ UNCHANGED activeVault

TypeQuery == \E query \in Query \cup {""} :
  /\ SearchOnly /\ Input
  /\ query # search.query
  /\ search' = IF query = "" THEN [query |-> "", results |-> NoResults, loading |-> FALSE, error |-> FALSE]
               ELSE [search EXCEPT !.query = query]
  /\ due' = Restarted(query)
  /\ UNCHANGED activeVault

\* A folder among the results is chosen: the results stay for the next query.
SelectFolder ==
  /\ SearchOnly
  /\ search.query # "" /\ search.results # NoResults /\ ~search.loading /\ ~search.error
  /\ search' = [search EXCEPT !.query = ""]
  /\ due' = NotDue
  /\ UNCHANGED <<inputs, activeVault>>

SearchStarts ==
  /\ SearchOnly
  /\ due.at = "timer" /\ due' = [due EXCEPT !.at = "asked"]
  /\ search' = [search EXCEPT !.loading = TRUE, !.error = FALSE]
  /\ UNCHANGED <<inputs, activeVault>>

\* The server searches the vault that is active there.
SearchServed ==
  /\ SearchOnly
  /\ due.at = "asked"
  /\ due' = [due EXCEPT !.at = "told", !.found = [of |-> due.of, vault |-> activeVault.server]]
  /\ UNCHANGED <<inputs, search, activeVault>>

SearchHeard ==
  /\ SearchOnly
  /\ due.at = "told" /\ due' = NotDue
  /\ search' = [search EXCEPT !.results = due.found, !.loading = FALSE]
  /\ UNCHANGED <<inputs, activeVault>>

SearchFails ==
  /\ SearchOnly
  /\ due.at \in {"asked", "told"} /\ due' = NotDue
  /\ search' = [search EXCEPT !.error = TRUE, !.loading = FALSE]
  /\ UNCHANGED <<inputs, activeVault>>

\* switchNotebook: the server first, activeNotebookID when it has answered.
VaultSwitched ==
  /\ SearchOnly /\ Input
  /\ activeVault.shown = activeVault.server
  /\ activeVault' = [activeVault EXCEPT !.server = 3 - @]
  /\ UNCHANGED <<search, due>>

VaultShown ==
  /\ SearchOnly
  /\ activeVault.shown # activeVault.server
  /\ activeVault' = [activeVault EXCEPT !.shown = activeVault.server]
  /\ due' = Restarted(search.query)
  /\ UNCHANGED <<inputs, search>>

-----------------------------------------------------------------------------
(* The trash.  Nothing keeps the user from selecting during a run. *)
ToggleSelection ==
  /\ panel \in {"trash", "images"}
  /\ \E item \in listed.items :
       listed' = [listed EXCEPT !.selected = IF item \in @ THEN @ \ {item} ELSE @ \cup {item}]
  /\ DialogOnly /\ UNCHANGED <<inputs, kept, request, pending, outcome, threw>>

\* load: the selection keeps what is still there; the error of the run before goes.
TrashLoaded ==
  /\ panel = "trash" /\ request = "load" /\ request' = "none"
  /\ \/ /\ listed' = [items |-> kept, selected |-> listed.selected \cap kept]
        /\ threw' = FALSE
     \/ threw' = TRUE /\ UNCHANGED listed
  /\ DialogOnly /\ UNCHANGED <<inputs, kept, pending, outcome>>

RunTrash ==
  /\ panel = "trash" /\ request = "none"
  /\ Input
  /\ request' = "run"
  /\ pending' \in ({listed.selected} \ {{}}) \cup {{item} : item \in listed.items}
  /\ outcome' = NoRun
  /\ DialogOnly /\ UNCHANGED <<listed, kept, threw>>

\* One after the other; an item fails, or its answer is lost after it was done.
ProcessItem == \E item \in pending :
  /\ panel = "trash" /\ request = "run"
  /\ pending' = pending \ {item}
  /\ \/ item \in kept /\ kept' = kept \ {item} /\ outcome' = [outcome EXCEPT !.done = @ \cup {item}]
     \/ kept' \in {kept, kept \ {item}} /\ outcome' = [outcome EXCEPT !.failed = @ \cup {item}]
  /\ DialogOnly /\ UNCHANGED <<inputs, listed, request, threw>>

\* The items done are told from the others by their original path; two deleted
\* from the same path, one of which fails, leave the notice without a name: run
\* throws and loads nothing.  load takes back the message of the failures.
RunEnds == \E samePath \in BOOLEAN :
  /\ panel = "trash" /\ request = "run" /\ pending = {}
  /\ LET nameless == samePath /\ Cardinality(outcome.done) = 1 /\ outcome.failed # {}
     IN  /\ request' = IF nameless THEN "none" ELSE "load"
         /\ threw' = nameless
  /\ listed' = [listed EXCEPT !.selected = {}]
  /\ DialogOnly /\ UNCHANGED <<inputs, kept, pending, outcome>>

-----------------------------------------------------------------------------
(* The images no note refers to. *)
ScanAssets ==
  /\ panel = "images" /\ request = "none"
  /\ Input
  /\ request' = "load" /\ outcome' = NoRun
  /\ DialogOnly /\ UNCHANGED <<listed, kept, pending, threw>>

AssetsScanned ==
  /\ panel = "images" /\ request = "load" /\ request' = "none"
  /\ \/ listed' = [items |-> kept, selected |-> kept] /\ threw' = FALSE
     \/ threw' = TRUE /\ UNCHANGED listed
  /\ DialogOnly /\ UNCHANGED <<inputs, kept, pending, outcome>>

DeleteSelectedAssets ==
  /\ panel = "images" /\ request = "none"
  /\ listed.selected # {}
  /\ Input
  /\ request' = "run" /\ pending' = listed.selected /\ outcome' = NoRun
  /\ DialogOnly /\ UNCHANGED <<listed, kept, threw>>

\* Mutant: what was deleted stays listed.
MutAssetsDeleted == \E failed \in SUBSET pending :
  /\ panel = "images" /\ request = "run" /\ request' = "none"
  /\ pending' = {}
  /\ kept' = kept \ (pending \ failed)
  /\ listed' = [listed EXCEPT !.selected = failed]
  /\ outcome' = [done |-> pending \ failed, failed |-> failed]
  /\ DialogOnly /\ UNCHANGED <<inputs, threw>>

AssetsDeleted == \E failed \in SUBSET pending :
  /\ panel = "images" /\ request = "run" /\ request' = "none"
  /\ pending' = {}
  /\ kept' = kept \ (pending \ failed)
  /\ \/ /\ listed' = [items |-> listed.items \ (pending \ failed), selected |-> failed]
        /\ outcome' = [done |-> pending \ failed, failed |-> failed]
        /\ UNCHANGED threw
     \/ threw' = TRUE /\ UNCHANGED <<listed, outcome>>
  /\ DialogOnly /\ UNCHANGED inputs

-----------------------------------------------------------------------------
(* Markdown pasted into its dialog; the clipboard may be read late. *)
MarkdownOnly ==
  /\ panel = "markdown"
  /\ UNCHANGED <<panel, search, due, activeVault, listed, kept, request, pending, outcome, threw>>

OpenMarkdownPaste ==
  /\ MarkdownOnly /\ Input
  /\ ~markdown.open
  /\ \E reading \in BOOLEAN : markdown' = [open |-> TRUE, words |-> "none", reading |-> markdown.reading \/ reading]

TypeMarkdown == \E words \in {"none", "typed"} :
  /\ MarkdownOnly /\ UNCHANGED inputs
  /\ markdown.open
  /\ markdown' = [markdown EXCEPT !.words = words]

\* Mutant: the clipboard replaces what was typed.
MutClipboardRead ==
  /\ MarkdownOnly /\ UNCHANGED inputs
  /\ markdown.reading
  /\ markdown' = [markdown EXCEPT !.reading = FALSE, !.words = IF markdown.open THEN "clipboard" ELSE @]

ClipboardRead ==
  /\ MarkdownOnly /\ UNCHANGED inputs
  /\ markdown.reading
  /\ markdown' = [markdown EXCEPT !.reading = FALSE,
                    !.words = IF markdown.open /\ markdown.words = "none" THEN "clipboard" ELSE @]

\* Inserted, or closed.  What cannot be converted stays in the dialog.
CloseMarkdownPaste ==
  /\ MarkdownOnly /\ UNCHANGED inputs
  /\ markdown.open
  /\ markdown' = [markdown EXCEPT !.open = FALSE, !.words = "none"]

-----------------------------------------------------------------------------
DialogNext ==
  \/ TypeQuery \/ SelectFolder \/ SearchStarts \/ SearchServed \/ SearchHeard \/ SearchFails \/ VaultSwitched
  \/ VaultShown
  \/ ToggleSelection \/ TrashLoaded \/ RunTrash \/ ProcessItem \/ RunEnds
  \/ ScanAssets \/ AssetsScanned \/ DeleteSelectedAssets \/ AssetsDeleted
  \/ OpenMarkdownPaste \/ TypeMarkdown \/ ClipboardRead \/ CloseMarkdownPaste

\* When no search waits or runs, what is listed was found for the query that is
\* shown, in the vault that is shown, or an error is: answers to queries typed
\* before and to the vault before are given up.
ResultsAreOfTheQuery ==
  due.at = "no" /\ activeVault.shown = activeVault.server =>
    /\ ~search.loading
    /\ search.query # "" => search.error \/ search.results = [of |-> search.query, vault |-> activeVault.shown]

\* What can be selected is what is listed, whatever a run did and a reload found:
\* a restore or a deletion is never asked for what the user cannot see.
SelectionIsListed == listed.selected \subseteq listed.items

\* When nothing is in flight and nothing went wrong on the way, the dialog lists
\* what there is: each item that a run removed is gone from the list.
ListIsFresh == request = "none" /\ ~threw /\ listed.items # {} => listed.items = kept

\* Whatever the runs over the trash and over unused images did and however the
\* reloads after them ended, a dialog lists and selects what it may.
ListIsTrue == SelectionIsListed /\ ListIsFresh

\* Markdown typed into the dialog stays there until it is inserted or the dialog
\* is closed: the clipboard, read late or for a dialog closed before, does not
\* replace it.
TypedMarkdownStays ==
  [][markdown.words = "typed" /\ markdown' # markdown => ~markdown'.open \/ markdown'.words \in {"none", "typed"}]_dialogVars
=============================================================================
