------------------------------- MODULE Outline -------------------------------
(***************************************************************************)
(* What the editor shows about the text beside it (MarkdownEditor.tsx and  *)
(* documentStats.ts): the outline of the headings, which is renewed at     *)
(* most every 120 ms while it is open, and the statistics.                 *)
(*                                                                         *)
(* The text is a sequence of blocks.  Milkdown tells the editor of changes *)
(* after a while, of several at once.                                      *)
(***************************************************************************)
EXTENDS Naturals, Sequences, SequencesExt

CONSTANT MaxBlocks   \* bound: blocks of the text

ASSUME OutlineAssumption == MaxBlocks \in Nat

VARIABLES
  blocks,
  told,         \* the listener has been told of the last change
  outlineOpen,
  renewal,      \* outlineUpdateTimer: a renewal is due
  headings,     \* outlineHeadings
  active,       \* activeOutlinePosition
  stats,        \* the lines last published
  scrolled      \* the blocks above the threshold

outlineVars == <<blocks, told, outlineOpen, renewal, headings, active, stats, scrolled>>

-----------------------------------------------------------------------------
\* A text block has the lines its breaks make; the cells of a table row count
\* one line together; a list item may be a task.
Block ==
  {[kind |-> "heading", level |-> level, lines |-> 1] : level \in 1..2}
    \cup {[kind |-> kind, level |-> 0, lines |-> 2] : kind \in {"code", "row"}}
    \cup {[kind |-> kind, level |-> 0, lines |-> 1] : kind \in {"item", "open task", "done task"}}

Unsafe == {"raw html", "image of the host"}
Lines == [kind |-> "code", level |-> 0, lines |-> 2]
Pasted == [kind |-> "heading", level |-> 1, lines |-> 1]

\* documentOutline: position and level of each heading.
DocumentOutline(text) ==
  SelectSeq([i \in DOMAIN text |-> [position |-> i, level |-> text[i].level]], LAMBDA entry : entry.level > 0)

\* documentStats.
LinesOf(block) == IF block.kind = "row" THEN 1 ELSE block.lines
DocumentStats(text) == FoldLeft(LAMBDA lines, block : lines + LinesOf(block), 0, text)

\* currentOutlinePosition: the last heading above the threshold, or the first.
\* Headings that the text no longer has at their place have no element.
CurrentOutlinePosition(text, list, threshold) ==
  LET there == SelectSeq(list, LAMBDA entry : entry.position <= Len(text))
      above == SelectSeq(there, LAMBDA entry : entry.position <= threshold)
  IN  IF above # <<>> THEN Last(above).position ELSE IF there # <<>> THEN Head(there).position ELSE 0

\* setOutlineHeadings keeps the list it has when sameOutline says so.
SameOutline(left, right) == left = right

Renew(text) ==
  /\ headings' = IF SameOutline(headings, DocumentOutline(text)) THEN headings ELSE DocumentOutline(text)
  /\ active' = CurrentOutlinePosition(text, DocumentOutline(text), scrolled)

SameOutlineState == UNCHANGED <<outlineOpen, renewal, headings, active, stats, scrolled>>

OutlineInit ==
  /\ blocks \in SeqOf(Block, 1)
  /\ stats = DocumentStats(blocks)   \* mounted
  /\ told = TRUE
  /\ outlineOpen = FALSE /\ renewal = FALSE
  /\ headings = <<>> /\ active = 0 /\ scrolled = 0

-----------------------------------------------------------------------------
Changed(text) ==
  /\ Len(text) <= MaxBlocks
  /\ blocks' = text /\ told' = FALSE
  /\ SameOutlineState

InsertBlock == \E block \in Block, i \in 1..(Len(blocks) + 1) : Changed(InsertAt(blocks, i, block))

DeleteBlock == \E i \in DOMAIN blocks : Changed(RemoveAt(blocks, i))

\* insertParsedMarkdown: what markdownConversionError objects to is not inserted;
\* handlePaste inserts its source as text instead, the dialog keeps it.
PasteBlock == \E kind \in Unsafe \cup {"heading"}, i \in 1..(Len(blocks) + 1) :
  Changed(InsertAt(blocks, i, IF kind \in Unsafe THEN Lines ELSE Pasted))

\* toggleTaskList: an item becomes an open task, a task an item.
ToggleTask == \E i \in DOMAIN blocks :
  /\ blocks[i].kind \in {"item", "open task", "done task"}
  /\ Changed([blocks EXCEPT ![i].kind = IF @ = "item" THEN "open task" ELSE "item"])

\* The checkbox of an item, at the position the view has now.
ClickTask == \E i \in DOMAIN blocks :
  /\ blocks[i].kind \in {"open task", "done task"}
  /\ Changed([blocks EXCEPT ![i].kind = IF @ = "open task" THEN "done task" ELSE "open task"])

\* Mutant: no renewal is queued while one is due, and the one due is dropped.
MutChangeHeard ==
  /\ ~told /\ told' = TRUE
  /\ stats' = DocumentStats(blocks)
  /\ renewal' = (outlineOpen /\ ~renewal)
  /\ UNCHANGED <<blocks, outlineOpen, headings, active, scrolled>>

\* markdownUpdated and updated: the statistics, and queueOutlineRefresh.
ChangeHeard ==
  /\ ~told /\ told' = TRUE
  /\ stats' = DocumentStats(blocks)
  /\ renewal' = (renewal \/ outlineOpen)
  /\ UNCHANGED <<blocks, outlineOpen, headings, active, scrolled>>

RefreshOutline ==
  /\ renewal /\ renewal' = FALSE
  /\ IF outlineOpen THEN Renew(blocks) ELSE UNCHANGED <<headings, active>>
  /\ UNCHANGED <<blocks, told, outlineOpen, stats, scrolled>>

OpenOutline ==
  /\ ~outlineOpen /\ outlineOpen' = TRUE
  /\ Renew(blocks)
  /\ UNCHANGED <<blocks, told, renewal, stats, scrolled>>

CloseOutline ==
  /\ outlineOpen /\ outlineOpen' = FALSE
  /\ UNCHANGED <<blocks, told, renewal, headings, active, stats, scrolled>>

ScrollText == \E n \in 0..MaxBlocks :
  /\ n # scrolled /\ scrolled' = n
  /\ active' = IF outlineOpen /\ headings # <<>> THEN CurrentOutlinePosition(blocks, headings, n) ELSE active
  /\ UNCHANGED <<blocks, told, outlineOpen, renewal, headings, stats>>

\* selectOutlineHeading; on a narrow screen the outline closes.
SelectHeading == \E i \in DOMAIN headings :
  /\ outlineOpen
  /\ active' = headings[i].position
  /\ outlineOpen' \in {TRUE, FALSE}
  /\ UNCHANGED <<blocks, told, renewal, headings, stats, scrolled>>

OutlineNext ==
  \/ InsertBlock \/ DeleteBlock \/ PasteBlock \/ ToggleTask \/ ClickTask
  \/ ChangeHeard \/ RefreshOutline \/ OpenOutline \/ CloseOutline \/ ScrollText \/ SelectHeading

\* Changes are told late and renewals wait for their timer: once nothing is due,
\* an open outline lists the headings of the text, however it was opened, closed
\* and edited meanwhile, and the status bar counts the lines of the text.
OutlineCatchesUp ==
  told => /\ stats = DocumentStats(blocks)
          /\ outlineOpen /\ ~renewal => headings = DocumentOutline(blocks)
=============================================================================
