--------------------------- MODULE RevocationLedger ---------------------------
(***************************************************************************)
(* What the remote-revocation queue promises, without its two files: a     *)
(* token that entered the queue is settled with exactly one outcome, the   *)
(* totals grow by one in the same instant, and only a settled token leaves *)
(* the queue.  The one exception is explicit: an actor that already holds  *)
(* an outstanding put for a key may replace whatever is stored under it.   *)
(* RemoteRevocation implements this ledger with two durable files and a    *)
(* worker that can stop between any two writes.                            *)
(***************************************************************************)
EXTENDS Naturals

CONSTANTS Families,   \* keys of the token store
          Outcomes    \* terminal outcomes a token can be settled with

VARIABLES queued,     \* keys waiting for remote revocation
          counted,    \* queued keys whose outcome is already in the totals
          totals,     \* outcome -> number of settled tokens
          writers     \* keys for which some actor holds an outstanding put

vars == <<queued, counted, totals, writers>>

TypeOK ==
  /\ queued \subseteq Families
  /\ counted \subseteq queued
  /\ totals \in [Outcomes -> Nat]
  /\ writers \subseteq Families

Init ==
  /\ queued = {}
  /\ counted = {}
  /\ totals = [o \in Outcomes |-> 0]
  /\ writers = {}

Enqueue(f) ==
  /\ queued' = queued \cup {f}
  /\ UNCHANGED <<counted, totals, writers>>

\* The outcome of f becomes visible in the totals, once.
Settle(f, o) ==
  /\ f \in queued \ counted
  /\ counted' = counted \cup {f}
  /\ totals' = [totals EXCEPT ![o] = @ + 1]
  /\ UNCHANGED <<queued, writers>>

Remove(f) ==
  /\ f \in counted
  /\ queued' = queued \ {f}
  /\ counted' = counted \ {f}
  /\ UNCHANGED <<totals, writers>>

\* An outstanding put lands on f: a new entry, queued or not, not yet settled.
Overwrite(f) ==
  /\ f \in writers
  /\ queued' \in {queued \ {f}, queued \cup {f}}
  /\ counted' = counted \ {f}
  /\ writers' \in {writers, writers \ {f}}
  /\ UNCHANGED totals

OpenWriter(f) ==
  /\ writers' = writers \cup {f}
  /\ UNCHANGED <<queued, counted, totals>>

CloseWriters ==
  /\ writers' \in SUBSET writers
  /\ UNCHANGED <<queued, counted, totals>>

Next ==
  \/ \E f \in Families : \/ Enqueue(f)
                         \/ \E o \in Outcomes : Settle(f, o)
                         \/ Remove(f)
                         \/ Overwrite(f)
                         \/ OpenWriter(f)
  \/ CloseWriters

Spec == Init /\ [][Next]_vars
===============================================================================
