------------------------------ MODULE NoteLinks ------------------------------
(***************************************************************************)
(* Relative links between notes (MarkdownEditor.tsx): what the link dialog *)
(* and the suggestions write into a note, and what a click on it opens     *)
(* after the note was moved or its target was moved or deleted.            *)
(*                                                                         *)
(* A path is a sequence of names; a part of a link is a name or "..", and  *)
(* is escaped or as it was typed.  Some names hold a character that ends a *)
(* link unless it is escaped.                                              *)
(***************************************************************************)
EXTENDS Naturals, Sequences, SequencesExt

CONSTANTS
  Folder,       \* names of folders
  NoteName,     \* names of notes
  Special,      \* those of them with "?" or "#" in it
  MaxDepth      \* bound: names of a path

ASSUME LinkAssumption ==
  /\ Folder \cap NoteName = {} /\ {".", ".."} \cap (Folder \cup NoteName) = {}
  /\ Special \subseteq Folder \cup NoteName /\ MaxDepth \in Nat \ {0}

VARIABLES
  at,        \* the open note
  notes,     \* notePaths
  href,      \* the link in it
  meant,     \* history: the note it was made for
  follows    \* what the last click did

linkVars == <<at, notes, href, meant, follows>>

-----------------------------------------------------------------------------
NotePath == UNION {{Append(folders, file) : folders \in [1..n -> Folder], file \in NoteName} : n \in 0..(MaxDepth - 1)}
NoNotePath == <<>>

Part(name, escaped) == [name |-> name, escaped |-> escaped]
Up == Part("..", FALSE)
Typed == {Up, Part(".", FALSE)} \cup {Part(name, FALSE) : name \in Folder \cup NoteName}

Parent(path) == Front(path)

\* resolveInternalNotePath, for a link without a scheme.  What follows "?" or
\* "#" is not part of the path.
CutAt(link) == SelectInSeq(link, LAMBDA part : part.name \in Special /\ ~part.escaped)
WithoutSuffix(link) == IF CutAt(link) = 0 THEN link ELSE SubSeq(link, 1, CutAt(link) - 1)

Outside == <<"..">>

Step(stack, part) ==
  IF stack = Outside THEN Outside
  ELSE IF part.name = "." THEN stack
  ELSE IF part.name # ".." THEN Append(stack, part.name)
  ELSE IF stack = <<>> THEN Outside
  ELSE Front(stack)

\* The stack after each part of a link.
Walk(stack, link) ==
  LET walk[n \in 0..Len(link)] == IF n = 0 THEN stack ELSE Step(walk[n - 1], link[n])
  IN  walk

ResolveInternalNotePath(from, link) ==
  LET kept == WithoutSuffix(link)
      found == Walk(Parent(from), kept)[Len(kept)]
  IN  IF kept = <<>> \/ Last(kept).name \notin NoteName \/ found = Outside THEN NoNotePath ELSE found

\* portableRelativeNoteHref.
Common(folders, target) ==
  CHOOSE n \in 0..Len(folders) :
    /\ n <= Len(target) /\ SubSeq(folders, 1, n) = SubSeq(target, 1, n)
    /\ n = Len(folders) \/ n = Len(target) \/ folders[n + 1] # target[n + 1]

\* Mutant: the names are not escaped.
MutPortableRelativeNoteHref(from, target) ==
  LET folders == Parent(from)
      n == Common(folders, target)
      down == [i \in 1..(Len(target) - n) |-> Part(target[n + i], FALSE)]
  IN  [i \in 1..(Len(folders) - n) |-> Up] \o down

PortableRelativeNoteHref(from, target) ==
  LET folders == Parent(from)
      n == Common(folders, target)
      down == [i \in 1..(Len(target) - n) |-> Part(target[n + i], TRUE)]
  IN  [i \in 1..(Len(folders) - n) |-> Up] \o down

\* filteredNotePaths, for an empty query.
Offered == notes \ {at}

-----------------------------------------------------------------------------
LinkInit ==
  /\ at \in NotePath
  /\ \E other \in NotePath : notes = {at, other}
  /\ href = <<>> /\ meant = NoNotePath /\ follows = NoNotePath

\* The link dialog or a suggestion.
InsertLink == \E target \in Offered :
  /\ href = <<>>
  /\ href' = PortableRelativeNoteHref(at, target)
  /\ meant' = target
  /\ UNCHANGED <<at, notes, follows>>

TypeLink == \E link \in SeqOf(Typed, 2) \ {<<>>} :
  /\ href = <<>>
  /\ href' = link
  /\ UNCHANGED <<at, notes, meant, follows>>

\* The note a link leads to goes away, or appears.
NotesChange ==
  LET path == ResolveInternalNotePath(at, href)
  IN  /\ path \notin {NoNotePath, at}
      /\ notes' = IF path \in notes THEN notes \ {path} ELSE notes \cup {path}
      /\ UNCHANGED <<at, href, meant, follows>>

\* The click handler: a note that is not there is not opened.
OpenLink ==
  LET target == ResolveInternalNotePath(at, href)
  IN  /\ href # <<>>
      /\ follows' = IF target \in notes THEN target ELSE NoNotePath
      /\ UNCHANGED <<at, notes, href, meant>>

LinkNext == InsertLink \/ TypeLink \/ NotesChange \/ OpenLink

\* A link that was made by choosing a note leads to that note, wherever the two
\* are and whatever characters their names hold; and no link, typed ones too,
\* leads out of the vault or to what is not a note.
LinksFindTheirNote ==
  LET found == ResolveInternalNotePath(at, href)
  IN  /\ meant # NoNotePath => found = meant
      /\ found # NoNotePath => Last(found) \in NoteName /\ \A i \in DOMAIN found : found[i] \in Folder \cup NoteName
=============================================================================
