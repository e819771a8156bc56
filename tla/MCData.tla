-------------------------------- MODULE MCData --------------------------------
(***************************************************************************)
(* The two components of MCParts that compute with sequences and sums, in  *)
(* a module of their own: the proofs about them need no more.              *)
(***************************************************************************)
EXTENDS Integers, FiniteSets

CONSTANTS
  \* StateCache
  Subjects, Users, Uuids, Structures, Sizes, MaxBatch, MaxStates, CacheBytes, MaxTotal,
  NoUser,
  \* LoadShift
  Hours, Duration, MinimumOff, Energy, Export, Windows, DeclaredDuration, DeclaredEnergy,
  MaxEpisodes, MaxIntervals, MaxAlternatives, MaxSelections, MaxAllocations, MaxBreaks

VARIABLES
  x1, x2, x3, x4, x5   \* a component's, in the order in which its instance names them

Cache == INSTANCE StateCache WITH
  store <- x1,
  MaxBytes <- CacheBytes
Shift == INSTANCE LoadShift WITH
  hour <- x1, step <- x2, candidates <- x3, budget <- x4, chosen <- x5

ASSUME CacheParameters == Cache!Parameters
ASSUME ShiftParameters == Shift!Parameters
===============================================================================
