--------------------------- MODULE MCSessionStore ---------------------------
(***************************************************************************)
(* SessionStore with two handlers and one email.                           *)
(***************************************************************************)
EXTENDS SessionStore, TLC

CONSTANTS r1, r2, anna

MCRequests == {r1, r2}
MCEmails   == {anna}
Interchangeable == Permutations(MCRequests)
=============================================================================
