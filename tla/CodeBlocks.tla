------------------------------ MODULE CodeBlocks ------------------------------
(***************************************************************************)
(* Code in the editor.  The view of a code block (codeBlocks.ts): its      *)
(* language, its highlights and its copy button, whose answers arrive out  *)
(* of order and after the view is gone.  And the mode in which one types   *)
(* code inside a paragraph (MarkdownEditor.tsx), which a ref of the        *)
(* component and the stored marks of the editor hold between them.         *)
(***************************************************************************)
EXTENDS Naturals, Sequences, SequencesExt

CONSTANTS
  Alias,          \* highlightedLanguageAliases: language -> highlighter
  Language,       \* the languages a block can have, others than the menu's too
  MaxCopies       \* bound: copies begun

ASSUME CodeAssumption == DOMAIN Alias \subseteq Language /\ "" \in Language /\ MaxCopies \in Nat

VARIABLES
  block,      \* the node: its language and its text
  marked,     \* the highlights: text and highlighter they were made for
  view,       \* what the view shows
  copies,     \* calls of copy that await the clipboard
  copied,     \* their number
  last,       \* history: how the last one ended
  typing,     \* inlineCodeTypingRef
  storedMarks, \* the stored marks: unset, or with or without code
  inside,     \* the marks at the cursor have code
  button,     \* toolbarState.code
  synced,     \* the listener has been told of the last change
  strayed     \* history: the cursor moved or text was deleted since the mode was set

viewVars == <<block, marked, view, copies, copied, last>>
modeVars == <<typing, storedMarks, inside, button, synced, strayed>>
codeVars == <<viewVars, modeVars>>

-----------------------------------------------------------------------------
(* The view of a block. *)
Words == {<<>>, <<"keyword">>, <<"name", "keyword">>}

\* addBlockHighlights: a range for each token that has a class.  A language nobody
\* registered, a text that is too long or cannot be parsed has none.
Highlighter(language) == IF language \in DOMAIN Alias THEN Alias[language] ELSE "none"

AddBlockHighlights(node) ==
  IF Highlighter(node.language) = "none" THEN {}
  ELSE {[at |-> i, class |-> Highlighter(node.language)] :
          i \in {j \in DOMAIN node.text : node.text[j] = "keyword"}}

Gone == [there |-> FALSE, select |-> "", icon |-> "copy", reset |-> FALSE, status |-> "", due |-> ""]

ViewInit ==
  /\ block \in [language : Language, text : Words]
  /\ marked = AddBlockHighlights(block)
  /\ view = [Gone EXCEPT !.there = TRUE, !.select = block.language]
  /\ copies = 0 /\ copied = 0 /\ last = "none"

\* apply, update, render.
NodeBecomes(node) ==
  /\ block' = node
  /\ marked' = AddBlockHighlights(node)
  /\ view' = IF view.there THEN [view EXCEPT !.select = node.language] ELSE view

\* An edit, or the undoing of one.
EditBlock ==
  /\ \E node \in [language : Language, text : Words] : NodeBecomes(node)
  /\ UNCHANGED <<copies, copied, last>>

\* The select already shows the choice when setLanguage runs.
SetLanguage == \E language \in Language :
  /\ view.there
  /\ NodeBecomes([block EXCEPT !.language = language])
  /\ UNCHANGED <<copies, copied, last>>

StartCopy ==
  /\ view.there
  /\ copied < MaxCopies /\ copied' = copied + 1
  /\ copies' = copies + 1
  /\ UNCHANGED <<block, marked, view, last>>

\* announce clears the message and the timer of the one before.
Announced(shown, message) == [shown EXCEPT !.status = "", !.due = message]

CopySucceeds ==
  /\ copies > 0 /\ copies' = copies - 1
  /\ view' = Announced([view EXCEPT !.icon = "check", !.reset = TRUE], "copied")
  /\ last' = "copied"
  /\ UNCHANGED <<block, marked, copied>>

\* Mutant: the check mark of the copy before stays.
MutCopyFails ==
  /\ copies > 0 /\ copies' = copies - 1
  /\ view' = Announced(view, "failed")
  /\ last' = "failed"
  /\ UNCHANGED <<block, marked, copied>>

CopyFails ==
  /\ copies > 0 /\ copies' = copies - 1
  /\ view' = Announced([view EXCEPT !.icon = "copy", !.reset = FALSE], "failed")
  /\ last' = "failed"
  /\ UNCHANGED <<block, marked, copied>>

ResetCopyIcon ==
  /\ view.reset
  /\ view' = [view EXCEPT !.icon = "copy", !.reset = FALSE]
  /\ UNCHANGED <<block, marked, copies, copied, last>>

Announce ==
  /\ view.due # ""
  /\ view' = [view EXCEPT !.status = IF view.there THEN view.due ELSE view.status, !.due = ""]
  /\ UNCHANGED <<block, marked, copies, copied, last>>

\* destroy: both timers are cleared; copies in flight go on.
DestroyView ==
  /\ view.there
  /\ view' = [view EXCEPT !.there = FALSE, !.reset = FALSE, !.due = ""]
  /\ UNCHANGED <<block, marked, copies, copied, last>>

ViewNext ==
  \/ EditBlock \/ SetLanguage \/ StartCopy \/ CopySucceeds \/ CopyFails
  \/ ResetCopyIcon \/ Announce \/ DestroyView

-----------------------------------------------------------------------------
(* Code inside a paragraph. *)
\* toolbarStateFromEditor, for an empty selection.
Active(marks, here) == IF marks = "unset" THEN here ELSE marks = "on"

\* What toggleInlineCode takes for active: whether one types code.
NextIsCode == typing \/ Active(storedMarks, inside)

ModeInit ==
  /\ typing = FALSE /\ storedMarks = "unset" /\ inside = FALSE
  /\ button = FALSE /\ synced = TRUE /\ strayed = FALSE

ToggleInlineCode ==
  LET on == ~NextIsCode
  IN  /\ typing' = on
      /\ storedMarks' = IF on THEN "on" ELSE "off"
      /\ button' = Active(storedMarks', inside)
      /\ strayed' = FALSE
      /\ synced' = FALSE
      /\ UNCHANGED inside

\* The mark is not inclusive: at the end of what was typed there is none.
TypeText ==
  /\ storedMarks' = IF typing THEN "on" ELSE "unset"
  /\ inside' = (inside /\ ~typing /\ storedMarks = "unset")
  /\ synced' = FALSE
  /\ UNCHANGED <<typing, button, strayed>>

\* Mutant: the ref is not reset.
MutEscapeCode ==
  /\ NextIsCode
  /\ storedMarks' = "off"
  /\ button' = FALSE
  /\ strayed' = FALSE
  /\ synced' = FALSE
  /\ UNCHANGED <<typing, inside>>

EscapeCode ==
  /\ NextIsCode
  /\ typing' = FALSE
  /\ storedMarks' = "off"
  /\ button' = FALSE
  /\ strayed' = FALSE
  /\ synced' = FALSE
  /\ UNCHANGED inside

\* A click, an arrow, or a deletion: the stored marks are gone, the ref is not.
MoveOrDelete ==
  /\ inside' \in BOOLEAN
  /\ storedMarks' = "unset"
  /\ synced' = FALSE
  /\ strayed' = (strayed \/ typing)
  /\ UNCHANGED <<typing, button>>

\* toggleInlineCode on a selection, which then has the mark or has it not.
ToggleMark ==
  /\ typing' = FALSE
  /\ storedMarks' = "unset"
  /\ inside' \in BOOLEAN
  /\ button' = inside'
  /\ strayed' = FALSE
  /\ synced' = FALSE

ModeHeard ==
  /\ ~synced /\ synced' = TRUE
  /\ button' = Active(storedMarks, inside)
  /\ UNCHANGED <<typing, storedMarks, inside, strayed>>

ModeNext == ToggleInlineCode \/ TypeText \/ EscapeCode \/ MoveOrDelete \/ ToggleMark \/ ModeHeard

CodeInit == ViewInit /\ ModeInit
CodeNext == (ViewNext /\ UNCHANGED modeVars) \/ (ModeNext /\ UNCHANGED viewVars)

-----------------------------------------------------------------------------
\* The check mark means that the copy that ended last succeeded, and it goes away
\* by itself; what is announced is how that copy ended, in whatever order
\* several copies end; and the language shown is the block's.
CopyIsReported ==
  view.there =>
    /\ view.icon = "check" => last = "copied" /\ view.reset
    /\ view.status # "" => view.status = last
    /\ view.due # "" => view.due = last
    /\ view.select = block.language

\* The button shows whether one types code: typing, the Escape key and the button
\* itself keep the ref and the stored marks together, as long as the cursor does
\* not leave while the mode is on.
CodeModeIsShown == synced /\ ~strayed => button = NextIsCode
=============================================================================
