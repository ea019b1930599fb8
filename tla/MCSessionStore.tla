--------------------------- MODULE MCSessionStore ---------------------------
(***************************************************************************)
(* Small instances of SessionStore for TLC.                                *)
(***************************************************************************)
EXTENDS SessionStore, TLC

\* A pending session is short, a signed-in one longer.
MCLifetime == [l \in Level |-> CASE l = "pending" -> 1 [] l = "owner" -> 2 [] OTHER -> 3]

Symmetry == Permutations(Token) \cup Permutations(Request)
=============================================================================
