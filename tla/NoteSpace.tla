------------------------------ MODULE NoteSpace ------------------------------
(***************************************************************************)
(* What the vaults of one server promise their editors: every operation on *)
(* a note happens at one instant.  A save replaces exactly the content it  *)
(* names; creating and moving never replace a note; nobody touches a note  *)
(* between its creation and the writing of its heading.                    *)
(***************************************************************************)
CONSTANTS
  Vault, Path,
  Content,   \* what a note can hold; equal contents have equal versions
  Absent,    \* no note at the path
  Blank,     \* a note just created
  Heading    \* its first content, "# <title>"

VARIABLES
  notes,     \* vault -> path -> content or Absent
  fresh      \* <<vault, path>> of created notes that await their heading

nsVars == <<notes, fresh>>

NSTypeOK ==
  /\ notes \in [Vault -> [Path -> Content \cup {Absent}]]
  /\ fresh \subseteq Vault \X Path

NSInit ==
  /\ notes \in [Vault -> [Path -> {Absent, Heading}]]
  /\ fresh = {}

Stable(v, p) == <<v, p>> \notin fresh

SaveNote(v, p, base, new) ==
  /\ Stable(v, p)
  /\ base # Absent /\ notes[v][p] = base
  /\ notes' = [notes EXCEPT ![v][p] = new]
  /\ UNCHANGED fresh

CreateNote(v, p) ==
  /\ notes[v][p] = Absent
  /\ notes' = [notes EXCEPT ![v][p] = Blank]
  /\ fresh' = fresh \cup {<<v, p>>}

WriteHeading(v, p) ==
  /\ ~Stable(v, p)
  /\ notes' = [notes EXCEPT ![v][p] = Heading]
  /\ fresh' = fresh \ {<<v, p>>}

\* The creation fails after all; the file may stay behind.
AbandonNote(v, p) ==
  /\ ~Stable(v, p)
  /\ notes' \in {notes, [notes EXCEPT ![v][p] = Absent]}
  /\ fresh' = fresh \ {<<v, p>>}

MoveNote(v, p, q) ==
  /\ p # q
  /\ Stable(v, p)
  /\ notes[v][p] # Absent /\ notes[v][q] = Absent
  /\ notes' = [notes EXCEPT ![v][q] = notes[v][p], ![v][p] = Absent]
  /\ UNCHANGED fresh

RemoveNote(v, p) ==
  /\ Stable(v, p)
  /\ notes[v][p] # Absent
  /\ notes' = [notes EXCEPT ![v][p] = Absent]
  /\ UNCHANGED fresh

\* The server stops: a note may be left without its heading.
Crash == fresh' = {} /\ UNCHANGED notes

NSNext ==
  \/ \E v \in Vault, p \in Path :
       \/ \E base, new \in Content : SaveNote(v, p, base, new)
       \/ CreateNote(v, p) \/ WriteHeading(v, p) \/ AbandonNote(v, p) \/ RemoveNote(v, p)
       \/ \E q \in Path : MoveNote(v, p, q)
  \/ Crash

NSSpec == NSInit /\ [][NSNext]_nsVars
=============================================================================
