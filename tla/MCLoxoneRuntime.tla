--------------------------- MODULE MCLoxoneRuntime ---------------------------
(***************************************************************************)
(* Small instances of LoxoneRuntime for TLC.                               *)
(***************************************************************************)
EXTENDS LoxoneRuntime

CONSTANTS r1, r2, f1, f2
===============================================================================
