--------------------------- MODULE MCCredentialGate ---------------------------
(***************************************************************************)
(* Small instances of CredentialGate for TLC.                              *)
(***************************************************************************)
EXTENDS CredentialGate, TLC

Symmetry ==
  Permutations(Session) \cup Permutations(Secret) \cup Permutations(Code)
    \cup Permutations(Request) \cup Permutations(Password)
=============================================================================
