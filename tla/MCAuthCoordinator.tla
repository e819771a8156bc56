-------------------------- MODULE MCAuthCoordinator --------------------------
(***************************************************************************)
(* Small instances of AuthCoordinator for TLC: one unit of time is the     *)
(* probe gap, and each level waits one unit longer than the level below.   *)
(***************************************************************************)
EXTENDS AuthCoordinator, TLC

CONSTANTS a, b

MCDelay == [i \in 0..MaxLevel |-> 1 + i]
MCPause == [i \in 0..MaxGuardLevel |-> 1 + i]

CoordinatorSymmetry == Permutations(Coordinators)

\* The properties say nothing of what follows an outdated write; and when every
\* coordinator has failed to save, none sends until one is restarted, which
\* leads back to a state in which the others alone had failed.
FileInUse == ~ stale /\ retain # Coordinators
===============================================================================
