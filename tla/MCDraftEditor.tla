---------------------------- MODULE MCDraftEditor ----------------------------
(***************************************************************************)
(* Small instances of DraftEditor for TLC.                                 *)
(***************************************************************************)
EXTENDS DraftEditor, TLC

Symmetry == Permutations(Task) \cup Permutations(Path)
=============================================================================
