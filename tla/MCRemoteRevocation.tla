-------------------------- MODULE MCRemoteRevocation --------------------------
(***************************************************************************)
(* Small instances of RemoteRevocation for TLC.                            *)
(***************************************************************************)
EXTENDS RemoteRevocation

CONSTANTS f1, f2, t1, t2, t3

MCRetryDelay   == <<1, 2>>
MCInvalidDelay == <<2, 2>>

\* The first token expires inside the horizon, the others do not.
MCValidUntil == [t \in Tokens |-> IF t = t1 THEN Min2(2, MaxTime) ELSE MaxTime + 1]
===============================================================================
