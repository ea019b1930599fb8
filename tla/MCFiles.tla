------------------------------- MODULE MCFiles -------------------------------
(***************************************************************************)
(* Small instances for TLC of what the server does to the files of notes:  *)
(* operations of several requests under the mutex of a Repository object   *)
(* (VaultNotes), and one move that rewrites links, call by call            *)
(* (LinkedMove).  They share no state that is modelled: in a behaviour one *)
(* of them runs and the other stays at rest.                               *)
(***************************************************************************)
EXTENDS VaultNotes, LinkedMove

CONSTANTS v1, sa, sb, tx, ty

VARIABLE part   \* the one that runs

NotesAtRest == files = [v \in Vault |-> [p \in Path |-> Absent]] /\ root[1] = v1

First == [shelf |-> sa, title |-> tx]

\* Up to the names of folders and notes, one note of the links is the first.  Only
\* it has images, and a link that may lead nowhere.
FilesInit ==
  /\ part \in {"notes", "moves"}
  /\ Init /\ (part # "notes" => NotesAtRest)
  /\ MoveInit /\ (page # Empty => part = "moves" /\ First \in There)
  /\ \A p \in There \ {First} :
       page[p].images = Nothing /\ (page[p].link # NoLink => LeadsTo(p, page[p].link) \in There)

\* A step of one part.
Notes(A) == part = "notes" /\ A /\ UNCHANGED <<part, moveVars>>
Linked(A) == part = "moves" /\ A /\ UNCHANGED <<part, vars>>

\* The operations by name: TLC counts the steps of each.
NoteSteps ==
  \/ \E r \in Request : Notes(Begins(r)) \/ Notes(Check(r)) \/ Notes(Refuse(r)) \/ Notes(Acts(r))
  \/ \E v \in Vault : Notes(Activate(v))
  \/ Notes(Restart)

LinkedSteps ==
  \/ Linked(PreviewMove) \/ Linked(MoveWithLinkUpdates) \/ Linked(Outdated) \/ Linked(CheckPlainMove)
  \/ Linked(PlainMove) \/ Linked(RenamePage) \/ Linked(RenamePageFails) \/ Linked(RenameItsImages)
  \/ Linked(RenameItsImagesFails) \/ Linked(RewriteAssetLinks) \/ Linked(RewriteAssetLinksFails)
  \/ Linked(SyncFolder) \/ Linked(SyncFolderFails) \/ Linked(WritePage) \/ Linked(WritePageFails)
  \/ Linked(WritePageUnsynced) \/ Linked(RestorePage) \/ Linked(RestorePageFails) \/ Linked(SavePage)

FilesNext == NoteSteps \/ LinkedSteps

FilesSpec == FilesInit /\ [][FilesNext]_<<part, vars, moveVars>> /\ Fairness
=============================================================================
