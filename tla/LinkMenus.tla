------------------------------ MODULE LinkMenus ------------------------------
(***************************************************************************)
(* The menus of the editor that follow what is typed (MarkdownEditor.tsx): *)
(* suggestions of notes after "[[", commands after "/", and the link       *)
(* dialog, while uploaded images arrive.                                   *)
(*                                                                         *)
(* The text is that of one block, a sequence of units; a position is the   *)
(* number of units before it.  Milkdown tells the editor of a change some  *)
(* time after it: until then the menus are those of the text before.       *)
(***************************************************************************)
EXTENDS Naturals, Sequences, FiniteSetsExt

CONSTANT MaxUnits   \* bound: units of the text

ASSUME MenuAssumption == MaxUnits \in Nat

VARIABLES
  text, cursor,
  anchor,     \* the other end of the selection
  code,       \* the block is a code block
  opening,    \* noteLinkOpeningRef: where "[" was pressed
  intent,     \* noteLinkTriggerIntentRef: where "[[" was pressed
  trigger,    \* noteLinkTrigger
  slash,      \* slashState
  unheard,    \* the listener has not been told of the last change
  picker,     \* linkPicker
  moved       \* history: an image arrived while the link dialog was open

menuVars == <<text, cursor, anchor, code, opening, intent, trigger, slash, unheard, picker, moved>>

-----------------------------------------------------------------------------
Key == {"[", "]", "/", " ", "x"}
Unit == Key \cup {"image"}   \* the label of a link is letters: "x"
Pos == 0..MaxUnits
None == [at |-> "none", from |-> 0, to |-> 0, words |-> <<>>]
Mark(from, to) == [None EXCEPT !.at = "here", !.from = from, !.to = to]

MenuInit ==
  /\ text = <<>> /\ cursor = 0 /\ anchor = 0
  /\ code \in BOOLEAN
  /\ opening = None /\ intent = None /\ trigger = None /\ slash = None
  /\ unheard = FALSE
  /\ picker = None
  /\ moved = FALSE

SelStart == IF anchor < cursor THEN anchor ELSE cursor
SelEnd == IF anchor < cursor THEN cursor ELSE anchor

\* The text with what is between two positions replaced.
Spliced(from, to, units) == SubSeq(text, 1, from) \o units \o SubSeq(text, to + 1, Len(text))

Edited(from, to, units) ==
  /\ text' = Spliced(from, to, units)
  /\ cursor' = from + Len(units) /\ anchor' = cursor'
  /\ unheard' = TRUE
  /\ Len(text') <= MaxUnits

SameText == UNCHANGED <<text, cursor, anchor, code>>
SameMenus == UNCHANGED <<opening, intent, trigger, slash>>
SameDialogs == UNCHANGED <<picker, moved>>

CloseTrigger == opening' = None /\ intent' = None /\ trigger' = None

-----------------------------------------------------------------------------
(* Keys. *)
\* recordRawNoteLinkOpening: a second "[" right after the first is an intent.
RecordOpening ==
  IF cursor # anchor \/ code THEN opening' = None /\ UNCHANGED intent
  ELSE IF opening # None /\ opening.to = cursor
       THEN opening' = None /\ intent' = Mark(opening.from, opening.from)
       ELSE opening' = Mark(cursor, cursor + 1) /\ UNCHANGED intent

Press(key) ==
  /\ IF key = "[" THEN RecordOpening ELSE opening' = None /\ UNCHANGED intent
  /\ Edited(SelStart, SelEnd, <<key>>)
  /\ picker = None
  /\ UNCHANGED <<code, trigger, slash>> /\ SameDialogs

\* A shortcut with "[": the key is seen, nothing is typed.
PressBracketOnly ==
  /\ picker = None
  /\ RecordOpening
  /\ SameText /\ UNCHANGED <<trigger, slash, unheard>> /\ SameDialogs

PressArrow == \E p \in Pos :
  /\ picker = None
  /\ p <= Len(text) /\ p # cursor
  /\ cursor' = p /\ anchor' = p /\ unheard' = TRUE
  /\ IF trigger # None THEN CloseTrigger ELSE opening' = None /\ UNCHANGED <<intent, trigger>>
  /\ UNCHANGED <<text, code, slash>> /\ SameDialogs

Backspace ==
  /\ picker = None
  /\ SelEnd > 0
  /\ Edited(IF SelStart = SelEnd THEN SelStart - 1 ELSE SelStart, SelEnd, <<>>)
  /\ UNCHANGED code /\ SameMenus /\ SameDialogs

\* A click or a drag in the text.
Point == \E p, q \in Pos :
  /\ picker = None
  /\ p <= q /\ q <= Len(text) /\ <<p, q>> # <<anchor, cursor>>
  /\ anchor' = p /\ cursor' = q /\ unheard' = TRUE
  /\ UNCHANGED <<text, code>> /\ SameMenus /\ SameDialogs

PressEscape ==
  /\ trigger # None \/ slash # None
  /\ IF trigger # None THEN CloseTrigger /\ UNCHANGED slash ELSE slash' = None /\ UNCHANGED <<opening, intent, trigger>>
  /\ SameText /\ UNCHANGED <<unheard>> /\ SameDialogs

\* The editor loses the focus, or the pointer goes down outside of it.
LeaveEditor ==
  /\ CloseTrigger
  /\ SameText /\ UNCHANGED <<slash, unheard>> /\ SameDialogs

-----------------------------------------------------------------------------
(* What the listener is told of. *)
\* The match of /\[\[?([^\]\n]*)$/ before the cursor begins at the first "["
\* that no "]" follows.
OpenBrackets == {i \in 1..cursor : text[i] = "[" /\ \A j \in i..cursor : text[j] # "]"}

\* Mutant: the suggestions stay when the cursor leaves the trigger.
MutNoteLinkHeard ==
  LET from == Min(OpenBrackets) - 1
  IN  IF cursor = anchor /\ ~code /\ OpenBrackets # {} /\ intent # None /\ intent.from = from
      THEN trigger' = Mark(from, cursor) /\ UNCHANGED <<opening, intent>>
      ELSE UNCHANGED <<opening, intent, trigger>>

NoteLinkHeard ==
  LET from == Min(OpenBrackets) - 1
  IN  IF cursor = anchor /\ ~code /\ OpenBrackets # {} /\ intent # None /\ intent.from = from
      THEN trigger' = Mark(from, cursor) /\ UNCHANGED <<opening, intent>>
      ELSE IF trigger # None \/ intent # None THEN CloseTrigger
      ELSE UNCHANGED <<opening, intent, trigger>>

\* The match of /(^|\s)\/([a-z0-9-]*)$/.
Slashes == {i \in 1..cursor : text[i] = "/" /\ (i = 1 \/ text[i - 1] = " ") /\ \A j \in (i + 1)..cursor : text[j] = "x"}

SlashHeard == slash' = IF cursor = anchor /\ ~code /\ Slashes # {} THEN Mark(Max(Slashes) - 1, cursor) ELSE None

Heard ==
  /\ unheard
  /\ unheard' = FALSE
  /\ NoteLinkHeard /\ SlashHeard
  /\ SameText /\ SameDialogs

-----------------------------------------------------------------------------
(* What the menus and dialogs do.  A dialog takes the focus: the editor's   *)
(* blur handler closes the suggestions.                                    *)
\* A position past the end makes the transaction throw.
InsertTriggeredNoteLink ==
  /\ picker = None
  /\ trigger # None /\ trigger.to <= Len(text)
  /\ Edited(trigger.from, trigger.to, <<"x">>)
  /\ CloseTrigger
  /\ UNCHANGED <<code, slash>> /\ SameDialogs

\* A command that turns the block into code, opens the link dialog or the file
\* chooser, or changes the block in another way.
ExecuteSlashCommand == \E command \in {"code-block", "link", "image", "block"} :
  /\ picker = None
  /\ slash # None /\ slash.to <= Len(text)
  /\ trigger = None
  /\ Edited(slash.from, slash.to, <<>>)
  /\ slash' = None
  /\ code' = (code \/ command = "code-block")
  /\ picker' = IF command = "link" THEN [None EXCEPT !.at = "here", !.from = slash.from, !.to = slash.from] ELSE picker
  /\ IF command = "link" THEN CloseTrigger ELSE UNCHANGED <<opening, intent, trigger>>
  /\ UNCHANGED <<moved>>

EditLink ==
  /\ picker = None
  /\ picker' = [None EXCEPT !.at = "here", !.from = SelStart, !.to = SelEnd, !.words = SubSeq(text, SelStart + 1, SelEnd)]
  /\ CloseTrigger
  /\ SameText /\ UNCHANGED <<unheard, slash, moved>>

\* On a selection, the link is set on the text; otherwise its label is typed.
ApplyLink ==
  /\ picker # None /\ picker.to <= Len(text)
  /\ IF picker.from < picker.to THEN UNCHANGED <<text, cursor, anchor>> /\ unheard' = TRUE
     ELSE Edited(picker.from, picker.to, <<"x">>)
  /\ picker' = None /\ moved' = FALSE
  /\ UNCHANGED <<code>> /\ SameMenus

CancelLink ==
  /\ picker # None /\ picker' = None /\ moved' = FALSE
  /\ SameText /\ SameMenus /\ UNCHANGED <<unheard>>

\* Markdown pasted, from the clipboard or from its dialog.
PasteMarkdown == \E key \in {"[", "x"} :
  /\ picker = None
  /\ Edited(SelStart, SelEnd, <<key>>)
  /\ UNCHANGED code /\ SameMenus /\ SameDialogs

\* An upload, begun at any time before, ends: insertSelectedImages goes on with
\* the selection of this moment.
ImageArrives ==
  /\ Edited(SelStart, SelEnd, <<"image">>)
  /\ moved' = (moved \/ picker # None)
  /\ UNCHANGED <<code, picker>> /\ SameMenus

-----------------------------------------------------------------------------
MenuNext ==
  \/ \E key \in Key : Press(key)
  \/ PressBracketOnly \/ PressArrow \/ Backspace \/ Point \/ PressEscape \/ LeaveEditor
  \/ Heard
  \/ InsertTriggeredNoteLink \/ ExecuteSlashCommand \/ EditLink \/ ApplyLink \/ CancelLink
  \/ PasteMarkdown \/ ImageArrives

-----------------------------------------------------------------------------
\* Once the editor has heard of the last change, the suggestions replace exactly
\* what stands between the "[" of an intended trigger and the cursor, on a line
\* of text with no "]" in it: no move of the cursor, deletion, selection or
\* arriving image leaves them open over other text.
SuggestionsAreForTheTrigger ==
  trigger # None /\ ~unheard =>
    /\ cursor = trigger.to /\ anchor = cursor /\ ~code
    /\ text[trigger.from + 1] = "["
    /\ \A i \in (trigger.from + 1)..trigger.to : text[i] # "]"

\* The command menu replaces a "/" at the start of a word and the letters after
\* it, up to the cursor.
CommandsAreForTheSlash ==
  slash # None /\ ~unheard =>
    /\ cursor = slash.to /\ anchor = cursor /\ ~code
    /\ text[slash.from + 1] = "/"
    /\ slash.from = 0 \/ text[slash.from] = " "
    /\ \A i \in (slash.from + 2)..slash.to : text[i] = "x"

\* The link dialog remembers positions, not text: they are those of the text it
\* was opened for as long as no image arrives while it is open.
LinkGoesOnItsText ==
  picker # None /\ ~moved => picker.to <= Len(text) /\ SubSeq(text, picker.from + 1, picker.to) = picker.words

\* What the user chooses in a menu or confirms in the dialog replaces the text it
\* was opened for.
MenusFitTheText == SuggestionsAreForTheTrigger /\ CommandsAreForTheSlash /\ LinkGoesOnItsText
=============================================================================
