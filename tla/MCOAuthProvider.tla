--------------------------- MODULE MCOAuthProvider ---------------------------
(***************************************************************************)
(* Small instances of OAuthProvider for TLC.                               *)
(***************************************************************************)
EXTENDS OAuthProvider

CONSTANTS f1, f2, c1, c2
===============================================================================
