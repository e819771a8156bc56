----------------------------- MODULE MCEventHistory -----------------------------
(***************************************************************************)
(* An instance of EventHistory for TLC: two controls with one state.       *)
(***************************************************************************)
EXTENDS EventHistory

OneState == [s \in Sources |-> "p"]
===============================================================================
