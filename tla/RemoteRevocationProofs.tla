------------------------ MODULE RemoteRevocationProofs ------------------------
(***************************************************************************)
(* Safety of RemoteRevocation for any number of families, tokens, attempts *)
(* and faults, any delays and any horizon.                                 *)
(***************************************************************************)
EXTENDS RemoteRevocation, TLAPS

-------------------------------------------------------------------------------
(***************************************************************************)
(* Timestamps and delays.                                                  *)
(***************************************************************************)

\* A timestamp cut to the horizon is a timestamp, and not before its base.
LEMMA LaterIsTime ==
  ASSUME NEW t \in 0..MaxTime, NEW d \in Nat
  PROVE  Later(t, d) \in 0..MaxTime /\ t <= Later(t, d)
  BY Parameters DEF Later, Min2

\* A longer delay never ends earlier.
LEMMA LaterMonotonic ==
  ASSUME NEW t \in 0..MaxTime, NEW d \in Nat, NEW e \in Nat, d <= e
  PROVE  Later(t, d) <= Later(t, e)
  BY Parameters DEF Later, Min2

\* Both delay tables are defined for every attempt number from 1 on.
LEMMA DelaysAreNat ==
  ASSUME NEW n \in Nat, n >= 1
  PROVE  RetryAfter(n) \in Nat /\ InvalidAfter(n) \in Nat
<1>1. Min2(n, MaxAttempts) \in 1..MaxAttempts
  BY Parameters DEF Min2
<1>2. QED
  BY <1>1, Parameters DEF RetryAfter, InvalidAfter

\* Every cooldown after a failed attempt is at least the reserved one.
LEMMA FailureDelaysCover ==
  ASSUME item.attempts \in Nat, item.attempts >= 1,
         NEW d \in FailureDelays
  PROVE  d \in Nat /\ RetryAfter(item.attempts) <= d
  BY DelaysAreNat, Parameters DEF FailureDelays, Max2

-------------------------------------------------------------------------------
(***************************************************************************)
(* Types.  The attempt counter stays in range only because the worker      *)
(* reserves below the limit and gives back what it reserved, so the type   *)
(* invariant is strengthened by what the worker knows at each point.       *)
(***************************************************************************)

\* Points of a pass at which the worker holds a record.
Holding == {"reserve", "attempt", "release", "answer", "suspend", "mark", "ack",
"complete"}

\* Points at which an attempt is reserved.
Reserved == {"attempt", "release", "answer", "suspend"}

WorkerShape ==
  /\ pc \in Holding => item.fam \in Families /\ item.tok \in Tokens
  /\ pc = "reserve" => store[item.fam].attempts < MaxAttempts
  /\ pc \in Reserved => item.attempts >= 1
  /\ pc \in {"mark", "ack"} => outcome \in Outcomes
  /\ pc \in {"idle", "gate"} => item = NoItem

TypeInv == TypeOK /\ WorkerShape

ItemType == [fam : Families \cup {NoFamily}, tok : Tokens \cup {NoToken},
             attempts : 0..MaxAttempts, after : 0..MaxTime]

LEMMA AbsentIsRecord == Absent \in Record
  BY Parameters DEF Absent, Record

LEMMA EntryIsRecord ==
  ASSUME NEW t \in Tokens, NEW p \in BOOLEAN
  PROVE  Entry(t, p) \in Record
  BY Parameters DEF Entry, Record

LEMMA InitTypeInv == Init => TypeInv
  BY AbsentIsRecord, Parameters
  DEF Init, TypeInv, TypeOK, WorkerShape, Holding, Reserved, NoItem, Sidecar



\* The fields of a stored record and of the sidecar.
LEMMA RecordFields ==
  ASSUME store \in [Families -> Record], NEW f \in Families
  PROVE  /\ store[f] \in Record
         /\ store[f].tok \in Tokens \cup {NoToken}
         /\ store[f].pending \in BOOLEAN
         /\ store[f].attempts \in 0..MaxAttempts
         /\ store[f].after \in 0..MaxTime
         /\ store[f].outcome \in Outcomes \cup {"none"}
         /\ store[f].receipt \in Nat
  BY DEF Record

LEMMA SidecarFields ==
  ASSUME NEW s \in Sidecar
  PROVE  /\ s.notBefore \in 0..MaxTime
         /\ s.streak \in Nat
         /\ s.acked \subseteq Nat
         /\ s.totals \in [Outcomes -> Nat]
  BY DEF Sidecar

\* The updates the actions make to a record ...
LEMMA StorePending ==
  ASSUME store \in [Families -> Record], NEW f \in Families
  PROVE  [store EXCEPT ![f].pending = TRUE] \in [Families -> Record]
  BY DEF Record

LEMMA StoreReserve ==
  ASSUME store \in [Families -> Record], NEW f \in Families,
         NEW n \in 0..MaxAttempts, NEW a \in 0..MaxTime
  PROVE  [store EXCEPT ![f].attempts = n, ![f].after = a] \in [Families -> Record]
  BY ZenonT(60) DEF Record

LEMMA StoreAfter ==
  ASSUME store \in [Families -> Record], NEW f \in Families, NEW a \in 0..MaxTime
  PROVE  [store EXCEPT ![f].after = a] \in [Families -> Record]
  BY DEF Record

LEMMA StoreMark ==
  ASSUME store \in [Families -> Record], NEW f \in Families,
         NEW o \in Outcomes, NEW r \in Nat
  PROVE  [store EXCEPT ![f].outcome = o, ![f].receipt = r] \in [Families -> Record]
  BY ZenonT(60) DEF Record

\* ... and to the sidecar.
LEMMA SidecarCooldown ==
  ASSUME NEW s \in Sidecar, NEW n \in 0..MaxTime
  PROVE  [s EXCEPT !.notBefore = n] \in Sidecar
  BY DEF Sidecar

LEMMA SidecarStreak ==
  ASSUME NEW s \in Sidecar, NEW n \in 0..MaxTime, NEW k \in Nat
  PROVE  [s EXCEPT !.streak = k, !.notBefore = n] \in Sidecar
  BY DEF Sidecar

LEMMA SidecarPrune ==
  ASSUME NEW s \in Sidecar, NEW R
  PROVE  [s EXCEPT !.acked = @ \cap R] \in Sidecar
  BY DEF Sidecar

LEMMA SidecarCounts ==
  ASSUME NEW s \in Sidecar, NEW r \in Nat, NEW o \in Outcomes
  PROVE  [s EXCEPT !.acked = @ \cup {r}, !.totals[o] = @ + 1] \in Sidecar
<1>1. [s.totals EXCEPT ![o] = @ + 1] \in [Outcomes -> Nat]
  BY SidecarFields
<1>2. s.acked \cup {r} \in SUBSET Nat
  BY SidecarFields
<1>3. QED
  BY <1>1, <1>2 DEF Sidecar

\* The reservation updates the snapshot the worker holds.
LEMMA ItemReserve ==
  ASSUME NEW i \in ItemType, NEW n \in 0..MaxAttempts
  PROVE  LET j == [i EXCEPT !.attempts = n]
         IN  j \in ItemType /\ j.fam = i.fam /\ j.tok = i.tok /\ j.attempts = n
  BY DEF ItemType

\* Wherever a pass returns, the worker is idle and holds nothing.
LEMMA ReturnTypes ==
  ASSUME Return, status' \in Sidecar
  PROVE  /\ pc' = "idle"
         /\ value' \in Sidecar
         /\ item' = NoItem
         /\ item' \in ItemType
         /\ outcome' = "none"
         /\ start' = 0
         /\ 0 \in 0..MaxTime
  BY Parameters DEF Return, NoItem, ItemType

LEMMA StepTypeInv == TypeInv /\ [Next]_vars => TypeInv'
<1> SUFFICES ASSUME TypeInv, [Next]_vars PROVE TypeInv'
  OBVIOUS
<1>s. store \in [Families -> Record] /\ status \in Sidecar /\ value \in Sidecar
  BY DEF TypeInv, TypeOK
<1>t. now \in 0..MaxTime /\ start \in 0..MaxTime /\ receipts \in Nat
      /\ coolUntil \in 0..MaxTime
  BY DEF TypeInv, TypeOK
<1>i. item.attempts \in 0..MaxAttempts /\ item.after \in 0..MaxTime
  BY DEF TypeInv, TypeOK
<1>k. item \in ItemType /\ tries \in [Tokens -> Nat]
      /\ held \in [Families -> Tokens \cup {NoToken}]
  BY DEF TypeInv, TypeOK, ItemType
<1>f. faults \in 0..MaxFaults /\ doubtful \subseteq Families
  BY DEF TypeInv, TypeOK
<1>w. WorkerShape
  BY DEF TypeInv
<1> USE Parameters DEF WorkerShape, Holding, Reserved
<1>1. CASE Tick
  BY <1>1 DEF TypeInv, TypeOK, Tick, workerVars, loginVars, ghostVars
<1>2. ASSUME NEW f \in Families, NEW t \in Tokens, Issue(f, t) PROVE TypeInv'
  <2>1. store' \in [Families -> Record]
    BY <1>s, <1>t, <1>i, <1>w, <1>2, EntryIsRecord DEF Issue
  <2>2. QED
    BY <1>2, <2>1 DEF TypeInv, TypeOK, Issue, LoopFree, workerVars, loginVars, ghostVars
<1>3. ASSUME NEW f \in Families, NEW t \in Tokens, RefreshPut(f, t) PROVE TypeInv'
  <2>1. store' \in [Families -> Record]
    BY <1>s, <1>t, <1>i, <1>w, <1>3, EntryIsRecord DEF RefreshPut
  <2>2. QED
    BY <1>3, <2>1
    DEF TypeInv, TypeOK, RefreshPut, LoopFree, workerVars, loginVars, ghostVars
<1>4. ASSUME NEW f \in Families, NEW t \in Tokens, RetainLogin(f, t) PROVE TypeInv'
  BY <1>4 DEF TypeInv, TypeOK, RetainLogin, LoopFree, workerVars, loginVars, ghostVars
<1>5. ASSUME NEW f \in Families, QueueLogin(f) PROVE TypeInv'
  <2>1. held[f] \in Tokens
    BY <1>k, <1>5 DEF QueueLogin
  <2>2. store' \in [Families -> Record]
    BY <1>s, <2>1, <1>5, EntryIsRecord DEF QueueLogin
  <2>3. QED
    BY <1>5, <2>1, <2>2
    DEF TypeInv, TypeOK, QueueLogin, LoopFree, workerVars, loginVars, ghostVars
<1>6. ASSUME NEW f \in Families, QueueLoginDoubtful(f) PROVE TypeInv'
  <2>1. held[f] \in Tokens
    BY <1>k, <1>6 DEF QueueLoginDoubtful
  <2>2. store' \in [Families -> Record]
    BY <1>s, <2>1, <1>6, EntryIsRecord DEF QueueLoginDoubtful
  <2>3. faults' \in 0..MaxFaults /\ doubtful' \subseteq Families
    BY <1>f, <1>6 DEF QueueLoginDoubtful
  <2>4. pc \notin {"reserve"}
    BY <1>s, <1>t, <1>i, <1>w, <1>6, <2>1, <2>2, <2>3 DEF QueueLoginDoubtful, LoopFree
  <2>5. QED
    BY <1>6, <2>1, <2>2, <2>3, <2>4
    DEF TypeInv, TypeOK, QueueLoginDoubtful, workerVars, loginVars, ghostVars
<1>7. ASSUME NEW f \in Families, Schedule(f) PROVE TypeInv'
  <2>1. store' \in [Families -> Record]
    BY <1>s, <1>t, <1>i, <1>w, <1>7, StorePending DEF Schedule
  <2>2. pc = "reserve" => store'[item.fam].attempts = store[item.fam].attempts
    BY <1>s, <1>t, <1>i, <1>w, <1>7, <2>1, RecordFields DEF Schedule
  <2>3. QED
    BY <1>7, <2>1, <2>2 DEF TypeInv, TypeOK, Schedule, workerVars, loginVars, ghostVars
<1>8. ASSUME NEW f \in Families, BeginRefresh(f) PROVE TypeInv'
  BY <1>8 DEF TypeInv, TypeOK, BeginRefresh, LoopFree, workerVars, loginVars, ghostVars
<1>9. ASSUME NEW f \in Families, AbandonRefresh(f) PROVE TypeInv'
  BY <1>9
  DEF TypeInv, TypeOK, AbandonRefresh, LoopFree, workerVars, loginVars, ghostVars
<1>10. CASE Begin
  <2>1. status' \in Sidecar /\ value' \in Sidecar
    BY <1>s, <1>t, <1>i, <1>w, <1>10, SidecarPrune DEF Begin
  <2>2. QED
    BY <1>10, <2>1 DEF TypeInv, TypeOK, Begin, NoItem, workerVars, loginVars, ghostVars
<1>11. CASE NothingDue
  <2>1. status' \in Sidecar
    BY <1>s, <1>11 DEF NothingDue
  <2>2. Return
    BY <1>11 DEF NothingDue
  <2>3. QED
    BY <1>11, <2>1, <2>2, ReturnTypes
    DEF TypeInv, TypeOK, NothingDue, workerVars, loginVars, ghostVars, ItemType
<1>12. ASSUME NEW d \in BreakerDelays, DeferToBreaker(d) PROVE TypeInv'
  <2>1. status' \in Sidecar
    BY <1>s, <1>t, <1>i, <1>w, <1>12, LaterIsTime, SidecarCooldown DEF DeferToBreaker
  <2>2. Return
    BY <1>12 DEF DeferToBreaker
  <2>3. QED
    BY <1>12, <2>1, <2>2, ReturnTypes
    DEF TypeInv, TypeOK, DeferToBreaker, workerVars, loginVars, ghostVars, ItemType
<1>13. ASSUME NEW d \in BreakerDelays, PostponeSuppressed(d) PROVE TypeInv'
  <2>1. status' \in Sidecar
    BY <1>s, <1>t, <1>i, <1>w, <1>13, LaterIsTime, SidecarCooldown
    DEF PostponeSuppressed
  <2>2. Return
    BY <1>13 DEF PostponeSuppressed
  <2>3. QED
    BY <1>13, <2>1, <2>2, ReturnTypes
    DEF TypeInv, TypeOK, PostponeSuppressed, workerVars, loginVars, ghostVars, ItemType
<1>14. ASSUME NEW f \in Families, Resume(f) PROVE TypeInv'
  <2>1. item' \in ItemType /\ item'.fam = f /\ item'.tok \in Tokens
    BY <1>s, <1>t, <1>i, <1>w, <1>14, RecordFields
    DEF Resume, ToTerminal, Take, Eligible, GateOpen, Due, Queued, Present, ItemType
  <2>2. outcome' \in Outcomes
    BY <1>s, <1>t, <1>i, <1>w, <1>14, <2>1, RecordFields
    DEF Resume, ToTerminal, Marked, Outcomes
  <2>3. QED
    BY <1>14, <2>1, <2>2
    DEF TypeInv, TypeOK, Resume, ToTerminal, ItemType, workerVars, loginVars, ghostVars
<1>15. ASSUME NEW f \in Families, Expire(f) PROVE TypeInv'
  <2>1. item' \in ItemType /\ item'.fam = f /\ item'.tok \in Tokens
    BY <1>s, <1>t, <1>i, <1>w, <1>15, RecordFields
    DEF Expire, ToTerminal, Take, Eligible, GateOpen, Due, Queued, Present, ItemType
  <2>2. outcome' \in Outcomes
    BY <1>s, <1>t, <1>i, <1>w, <1>15, <2>1, RecordFields
    DEF Expire, ToTerminal, Marked, Outcomes
  <2>3. QED
    BY <1>15, <2>1, <2>2
    DEF TypeInv, TypeOK, Expire, ToTerminal, ItemType, workerVars, loginVars, ghostVars
<1>16. ASSUME NEW f \in Families, Exhaust(f) PROVE TypeInv'
  <2>1. item' \in ItemType /\ item'.fam = f /\ item'.tok \in Tokens
    BY <1>s, <1>t, <1>i, <1>w, <1>16, RecordFields
    DEF Exhaust, ToTerminal, Take, Eligible, GateOpen, Due, Queued, Present, ItemType
  <2>2. outcome' \in Outcomes
    BY <1>s, <1>t, <1>i, <1>w, <1>16, <2>1, RecordFields
    DEF Exhaust, ToTerminal, Marked, Outcomes
  <2>3. QED
    BY <1>16, <2>1, <2>2
    DEF TypeInv, TypeOK, Exhaust, ToTerminal, ItemType, workerVars, loginVars, ghostVars
<1>17. ASSUME NEW f \in Families, ReserveQueue(f) PROVE TypeInv'
  <2>1. item' \in ItemType /\ item'.fam = f /\ item'.tok \in Tokens
    BY <1>s, <1>t, <1>i, <1>w, <1>17, RecordFields
    DEF ReserveQueue, Take, Eligible, GateOpen, Due, Queued, Present, ItemType
  <2>2. store[f].attempts + 1 \in Nat /\ store[f].attempts + 1 >= 1
    BY <1>s, <1>17, RecordFields
  <2>3. RetryAfter(store[f].attempts + 1) \in Nat
    BY <2>2, DelaysAreNat
  <2>4. Later(start, RetryAfter(store[f].attempts + 1)) \in 0..MaxTime
    BY <1>s, <1>t, <1>i, <1>w, <1>17, <2>1, <2>2, <2>3, LaterIsTime
  <2>5. status' \in Sidecar /\ value' \in Sidecar
    BY <1>s, <1>t, <1>i, <1>w, <1>17, <2>1, <2>2, <2>3, <2>4, SidecarCooldown
    DEF ReserveQueue
  <2>6. store[f].attempts < MaxAttempts /\ store' = store /\ item'.fam = f
    BY <1>s, <1>t, <1>i, <1>w, <1>17, <2>1, <2>2, <2>3, <2>4, <2>5
    DEF ReserveQueue, Take
  <2>7. QED
    BY <1>17, <2>1, <2>2, <2>3, <2>4, <2>5, <2>6
    DEF TypeInv, TypeOK, ReserveQueue, ItemType, workerVars, loginVars, ghostVars
<1>18. CASE ReserveAttempt
  <2>1. item.fam \in Families /\ store[item.fam].attempts < MaxAttempts
    BY <1>w, <1>18 DEF ReserveAttempt
  <2>2. store[item.fam].attempts + 1 \in 0..MaxAttempts
    BY <1>s, <2>1, RecordFields
  <2>3. store[item.fam].attempts + 1 >= 1
    BY <1>s, <2>1, RecordFields
  <2>4. value.notBefore \in 0..MaxTime
    BY <1>s, SidecarFields
  <2>5. store' = [store EXCEPT ![item.fam].attempts = store[item.fam].attempts + 1,
                               ![item.fam].after = value.notBefore]
    BY <1>s, <2>1, <1>18 DEF ReserveAttempt
  <2>6. store' \in [Families -> Record]
    BY <1>s, <2>1, <2>2, <2>4, <2>5, StoreReserve
  <2>7. item' = [item EXCEPT !.attempts = store[item.fam].attempts + 1]
    BY <1>18 DEF ReserveAttempt
  <2>8. item' \in ItemType /\ item'.fam = item.fam /\ item'.tok = item.tok
        /\ item'.attempts >= 1
    BY <1>k, <2>2, <2>3, <2>7, ItemReserve
  <2>9. QED
    BY <1>18, <2>1, <2>2, <2>3, <2>4, <2>5, <2>6, <2>7, <2>8
    DEF TypeInv, TypeOK, ReserveAttempt, ItemType, workerVars, loginVars, ghostVars
<1>19. CASE ReleaseSuppressed
  <2>1. CASE Queued(item.fam)
    <3>1. store[item.fam].attempts - 1 \in 0..MaxAttempts
      BY <1>s, <1>i, <1>w, <1>19, <2>1, RecordFields DEF ReleaseSuppressed
    <3>2. store' \in [Families -> Record]
      BY <1>s, <1>i, <1>w, <1>19, <2>1, <3>1, RecordFields, StoreReserve
      DEF ReleaseSuppressed
    <3>3. QED
      BY <1>19, <3>2
      DEF TypeInv, TypeOK, ReleaseSuppressed, workerVars, loginVars, ghostVars
  <2>2. CASE ~ Queued(item.fam)
    BY <1>19, <2>2
    DEF TypeInv, TypeOK, ReleaseSuppressed, workerVars, loginVars, ghostVars
  <2>3. QED
    BY <2>1, <2>2
<1>20. CASE ReleaseRefused
  <2>1. status' \in Sidecar
    BY <1>s, <1>20 DEF ReleaseRefused
  <2>2. Return
    BY <1>20 DEF ReleaseRefused
  <2>3. QED
    BY <1>20, <2>1, <2>2, ReturnTypes
    DEF TypeInv, TypeOK, ReleaseRefused, workerVars, loginVars, ghostVars, ItemType
<1>21. CASE Transmit
  <2>1. RetryAfter(item.attempts) \in Nat
    BY <1>s, <1>t, <1>i, <1>w, <1>21, DelaysAreNat DEF Transmit
  <2>2. coolUntil' \in 0..MaxTime
    BY <1>s, <1>t, <1>i, <1>w, <1>21, <2>1, LaterIsTime DEF Transmit
  <2>3. tries' \in [Tokens -> Nat]
    BY <1>k, <1>w, <1>21 DEF Transmit
  <2>4. QED
    BY <1>21, <2>1, <2>2, <2>3
    DEF TypeInv, TypeOK, Transmit, workerVars, loginVars, ghostVars
<1>22. CASE MiniserverKills
  BY <1>22 DEF TypeInv, TypeOK, MiniserverKills, workerVars, loginVars, ghostVars
<1>23. CASE Confirmed
  <2>1. 0 \in Nat /\ 0 \in 0..MaxTime
    BY <1>s, <1>t, <1>i, <1>w, <1>23
  <2>2. value' = [value EXCEPT !.streak = 0, !.notBefore = 0]
    BY <1>s, <1>t, <1>i, <1>w, <1>23, <2>1 DEF Confirmed
  <2>3. value' \in Sidecar
    BY <1>s, <1>t, <1>i, <1>w, <1>23, <2>1, <2>2, SidecarStreak
  <2>4. QED
    BY <1>23, <2>1, <2>2, <2>3
    DEF TypeInv, TypeOK, Confirmed, Outcomes, workerVars, loginVars, ghostVars
<1>24. CASE Rejected
  <2>1. InvalidAfter(value.streak + 1) \in Nat
    BY <1>s, <1>t, <1>i, <1>w, <1>24, SidecarFields, DelaysAreNat
  <2>2. Later(start, InvalidAfter(value.streak + 1)) \in 0..MaxTime
    BY <1>s, <1>t, <1>i, <1>w, <1>24, <2>1, LaterIsTime
  <2>3. value' = [value EXCEPT !.streak = value.streak + 1,
        !.notBefore = Later(start, InvalidAfter(value.streak + 1))]
    BY <1>s, <1>t, <1>i, <1>w, <1>24, <2>1, <2>2 DEF Rejected
  <2>4. value.streak + 1 \in Nat
    BY <1>s, <1>t, <1>i, <1>w, <1>24, <2>1, <2>2, <2>3, SidecarFields, SMTT(60)
  <2>5. value' \in Sidecar
    BY <1>s, <1>t, <1>i, <1>w, <1>24, <2>1, <2>2, <2>3, <2>4, SidecarStreak
  <2>6. coolUntil' \in 0..MaxTime
    BY <1>s, <1>t, <1>i, <1>w, <1>24, <2>1, <2>2, <2>3, <2>4, <2>5 DEF Rejected, Min2
  <2>7. QED
    BY <1>24, <2>1, <2>2, <2>3, <2>4, <2>5, <2>6
    DEF TypeInv, TypeOK, Rejected, Outcomes, workerVars, loginVars, ghostVars
<1>25. CASE GiveUp
  <2>1. value' \in Sidecar
    BY <1>s, <1>t, <1>i, <1>w, <1>25, FailureDelaysCover, LaterIsTime,
       SidecarCooldown DEF GiveUp
  <2>2. QED
    BY <1>25, <2>1
    DEF TypeInv, TypeOK, GiveUp, Outcomes, workerVars, loginVars, ghostVars
<1>26. CASE Failed
  <2>1. status' \in Sidecar /\ value' \in Sidecar
    BY <1>s, <1>t, <1>i, <1>w, <1>26, FailureDelaysCover, LaterIsTime,
       SidecarCooldown DEF Failed
  <2>2. QED
    BY <1>26, <2>1 DEF TypeInv, TypeOK, Failed, workerVars, loginVars, ghostVars
<1>27. CASE Suspend
  <2>1. Max2(store[item.fam].after, value.notBefore) \in 0..MaxTime
    BY <1>s, <1>t, <1>i, <1>w, <1>27, RecordFields, SidecarFields DEF Suspend, Max2
  <2>2. store' \in [Families -> Record]
    BY <1>s, <1>t, <1>i, <1>w, <1>27, <2>1, StoreAfter DEF Suspend
  <2>3. status' \in Sidecar
    BY <1>s, <1>27 DEF Suspend
  <2>4. Return
    BY <1>27 DEF Suspend
  <2>5. QED
    BY <1>27, <2>1, <2>2, <2>3, <2>4, ReturnTypes
    DEF TypeInv, TypeOK, Suspend, workerVars, loginVars, ghostVars, ItemType
<1>28. CASE Mark
  <2>1. item.fam \in Families
    BY <1>w, <1>28 DEF Mark
  <2>2. store' \in [Families -> Record] /\ outcome' \in Outcomes
    <3>1. CASE Marked(item.fam)
      BY <1>s, <1>28, <2>1, <3>1, RecordFields DEF Mark, Marked
    <3>2. CASE ~ Marked(item.fam)
      <4>1. outcome \in Outcomes /\ receipts + 1 \in Nat
        BY <1>t, <1>w, <1>28 DEF Mark
      <4>2. store' = [store EXCEPT ![item.fam].outcome = outcome,
                                   ![item.fam].receipt = receipts + 1]
        BY <1>28, <3>2 DEF Mark
      <4>3. store' \in [Families -> Record]
        BY <1>s, <2>1, <4>1, <4>2, StoreMark
      <4>4. QED
        BY <1>28, <3>2, <4>1, <4>3 DEF Mark
    <3>3. QED
      BY <3>1, <3>2
  <2>3. QED
    BY <1>28, <2>2, SMTT(60) DEF TypeInv, TypeOK, Mark, workerVars, loginVars, ghostVars
<1>29. CASE MarkRefused
  <2>1. status' \in Sidecar
    BY <1>s, <1>29 DEF MarkRefused
  <2>2. Return
    BY <1>29 DEF MarkRefused
  <2>3. QED
    BY <1>29, <2>1, <2>2, ReturnTypes
    DEF TypeInv, TypeOK, MarkRefused, workerVars, loginVars, ghostVars, ItemType
<1>30. CASE Acknowledge
  <2>1. status' \in Sidecar /\ value' \in Sidecar
    BY <1>s, <1>t, <1>i, <1>w, <1>30, RecordFields, SidecarCounts DEF Acknowledge
  <2>2. QED
    BY <1>30, <2>1 DEF TypeInv, TypeOK, Acknowledge, workerVars, loginVars, ghostVars
<1>31. CASE Complete
  <2>1. store' \in [Families -> Record]
    BY <1>s, <1>t, <1>i, <1>w, <1>31, AbsentIsRecord DEF Complete
  <2>2. status' \in Sidecar
    BY <1>s, <1>31 DEF Complete
  <2>3. Return
    BY <1>31 DEF Complete
  <2>4. QED
    BY <1>31, <2>1, <2>2, <2>3, ReturnTypes, SMTT(60)
    DEF TypeInv, TypeOK, Complete, workerVars, loginVars, ghostVars, ItemType
<1>32. CASE Abort
  <2>1. status' \in Sidecar
    BY <1>s, <1>32 DEF Abort
  <2>2. Return
    BY <1>32 DEF Abort
  <2>3. QED
    BY <1>32, <2>1, <2>2, ReturnTypes, SMTT(60)
    DEF TypeInv, TypeOK, Abort, workerVars, loginVars, ghostVars, ItemType
<1>33. CASE Restart
  <2>1. status' \in Sidecar
    BY <1>s, <1>33 DEF Restart
  <2>2. Return
    BY <1>33 DEF Restart
  <2>3. QED
    BY <1>33, <2>1, <2>2, ReturnTypes, SMTT(60)
    DEF TypeInv, TypeOK, Restart, workerVars, loginVars, ghostVars, ItemType
<1>34. CASE UNCHANGED vars
  BY <1>34 DEF TypeInv, TypeOK, vars, workerVars, loginVars, ghostVars
<1>35. QED
  BY <1>1, <1>2, <1>3, <1>4, <1>5, <1>6, <1>7, <1>8, <1>9, <1>10, <1>11, <1>12,
     <1>13, <1>14, <1>15, <1>16, <1>17, <1>18, <1>19, <1>20, <1>21, <1>22, <1>23,
     <1>24, <1>25, <1>26, <1>27, <1>28, <1>29, <1>30, <1>31, <1>32, <1>33, <1>34
  DEF Next, Environment, Worker

\* Every reachable state is well typed; with it, no record and no worker ever
\* counts more than MaxAttempts attempts (_MAX_ATTEMPTS in
\* remote_revocation.py), whatever stops and fails in between.
THEOREM TypeCorrect == Spec => []TypeOK
<1>1. Init => TypeInv
  BY InitTypeInv
<1>2. TypeInv /\ [Next]_vars => TypeInv'
  BY StepTypeInv
<1>3. TypeInv => TypeOK
  BY DEF TypeInv
<1>4. QED
  BY <1>1, <1>2, <1>3, PTL DEF Spec

\* The same for the strengthened invariant, to be cited by later proofs.
LEMMA TypeInvariant == Spec => []TypeInv
  BY InitTypeInv, StepTypeInv, PTL DEF Spec

-------------------------------------------------------------------------------
(***************************************************************************)
(* The queue-wide cooldown.  Each point of a pass knows how far the sidecar *)
(* reaches and how much of the last cooldown has passed.                   *)
(***************************************************************************)
CooldownInv ==
  /\ coolUntil <= status.notBefore
  /\ start <= now
  /\ pc = "gate" => value = status
  /\ pc \in {"reserve", "attempt", "release"} => coolUntil <= start
  /\ pc = "reserve" =>
       /\ value = status
       /\ value.notBefore = Later(start, RetryAfter(store[item.fam].attempts + 1))
  /\ pc = "attempt" => status.notBefore = Later(start, RetryAfter(item.attempts))
  /\ pc = "answer" => coolUntil <= Later(start, RetryAfter(item.attempts))
  /\ pc \in {"mark", "ack"} => coolUntil <= value.notBefore

-------------------------------------------------------------------------------
\* While the worker does not step, nobody else touches the sidecar, its own
\* variables or the counters, and nobody moves a record it is about to reserve.
LEMMA EnvironmentQuiet ==
  ASSUME TypeInv, Environment
  PROVE  /\ UNCHANGED <<status, receipts, pc, value, item, outcome, start>>
         /\ UNCHANGED <<killed, tries, coolUntil>>
         /\ now <= now'
         /\ pc = "reserve" =>
              /\ store'[item.fam].tok = store[item.fam].tok
              /\ store'[item.fam].attempts = store[item.fam].attempts
<1> USE DEF workerVars, loginVars, ghostVars, LoopFree
<1>1. now \in Nat /\ store \in [Families -> Record]
      /\ (pc = "reserve" => item.fam \in Families)
  BY Parameters DEF TypeInv, TypeOK, WorkerShape, Holding
<1>2. CASE Tick
  BY <1>1, <1>2 DEF Tick
<1>3. ASSUME NEW f \in Families, NEW t \in Tokens,
             Issue(f, t) \/ RetainLogin(f, t) \/ RefreshPut(f, t)
      PROVE  /\ UNCHANGED <<status, receipts, pc, value, item, outcome, start>>
             /\ UNCHANGED <<killed, tries, coolUntil, now>>
             /\ pc # "reserve"
  BY <1>3 DEF Issue, RetainLogin, RefreshPut
<1>4. ASSUME NEW f \in Families,
             \/ QueueLogin(f) \/ QueueLoginDoubtful(f)
             \/ BeginRefresh(f) \/ AbandonRefresh(f)
      PROVE  /\ UNCHANGED <<status, receipts, pc, value, item, outcome, start>>
             /\ UNCHANGED <<killed, tries, coolUntil, now>>
             /\ pc # "reserve"
  BY <1>4 DEF QueueLogin, QueueLoginDoubtful, BeginRefresh, AbandonRefresh
<1>5. ASSUME NEW f \in Families, Schedule(f)
      PROVE  /\ UNCHANGED <<status, receipts, pc, value, item, outcome, start>>
             /\ UNCHANGED <<killed, tries, coolUntil, now>>
             /\ pc = "reserve" =>
                  /\ store'[item.fam].tok = store[item.fam].tok
                  /\ store'[item.fam].attempts = store[item.fam].attempts
  <2>1. UNCHANGED <<status, receipts, pc, value, item, outcome, start, killed, tries,
        coolUntil, now>>
    BY <1>5 DEF Schedule
  <2>2. store' = [store EXCEPT ![f].pending = TRUE]
    BY <1>5 DEF Schedule
  <2>3. ASSUME NEW g \in Families
        PROVE  store'[g].tok = store[g].tok /\ store'[g].attempts = store[g].attempts
    BY <1>1, <2>2 DEF Record
  <2>4. QED
    BY <1>1, <2>1, <2>3
<1>6. QED
  BY <1>1, <1>2, <1>3, <1>4, <1>5 DEF Environment

-------------------------------------------------------------------------------
\* A pass that returns keeps the cooldown invariant if the sidecar still covers
\* the cooldown.
LEMMA ReturnKeepsCooldown ==
  ASSUME TypeInv, Return, now' = now, coolUntil' <= status'.notBefore
  PROVE  CooldownInv'
<1>1. 0 <= now' /\ now' \in Nat
  BY Parameters DEF TypeInv, TypeOK
<1>2. QED
  BY <1>1 DEF Return, CooldownInv

LEMMA StepCooldownInv == TypeInv /\ TypeInv' /\ CooldownInv
/\ [Next]_vars => CooldownInv'
<1> SUFFICES ASSUME TypeInv, TypeInv', CooldownInv, [Next]_vars PROVE CooldownInv'
  OBVIOUS
<1>n. /\ now \in 0..MaxTime /\ now' \in 0..MaxTime
      /\ start \in 0..MaxTime /\ start' \in 0..MaxTime
      /\ coolUntil \in 0..MaxTime /\ coolUntil' \in 0..MaxTime
  BY DEF TypeInv, TypeOK
<1>s. /\ status.notBefore \in 0..MaxTime /\ value.notBefore \in 0..MaxTime
      /\ status'.notBefore \in 0..MaxTime /\ value'.notBefore \in 0..MaxTime
      /\ status \in Sidecar /\ value \in Sidecar
  BY SidecarFields DEF TypeInv, TypeOK
<1>r. store \in [Families -> Record]
  BY DEF TypeInv, TypeOK
<1>w. WorkerShape
  BY DEF TypeInv
<1> USE Parameters DEF workerVars, loginVars, ghostVars
<1>1. CASE Environment
  BY <1>n, <1>1, EnvironmentQuiet DEF CooldownInv
<1>2. CASE Begin
  BY <1>n, <1>s, <1>2 DEF Begin, CooldownInv, Sidecar
<1>3. CASE \/ NothingDue \/ ReleaseRefused \/ Suspend \/ MarkRefused \/ Complete
           \/ Abort \/ Restart
  <2>1. Return /\ now' = now /\ coolUntil' <= status'.notBefore
    BY <1>3
    DEF NothingDue, ReleaseRefused, Suspend, MarkRefused, Complete, Abort, Restart,
        CooldownInv
  <2>2. QED
    BY <2>1, ReturnKeepsCooldown
<1>4. ASSUME NEW d \in BreakerDelays, DeferToBreaker(d) \/ PostponeSuppressed(d)
      PROVE  CooldownInv'
  <2>1. coolUntil <= start
    BY <1>n, <1>s, <1>4 DEF DeferToBreaker, PostponeSuppressed, GateOpen, CooldownInv
  <2>2. start <= Later(start, d) /\ Later(start, d) \in 0..MaxTime
    <3>1. d \in Nat
      OBVIOUS
    <3>2. QED
      BY <1>n, <3>1, LaterIsTime
  <2>3. Return /\ now' = now /\ coolUntil' = coolUntil
        /\ status'.notBefore = Later(start, d)
    BY <1>s, <1>4 DEF DeferToBreaker, PostponeSuppressed, Sidecar
  <2>4. QED
    BY <1>n, <2>1, <2>2, <2>3, ReturnKeepsCooldown
<1>5. ASSUME NEW f \in Families, Resume(f) \/ Expire(f) \/ Exhaust(f)
      PROVE  CooldownInv'
  <2>1. ToTerminal(f, outcome') /\ pc = "gate"
    BY <1>5 DEF Resume, Expire, Exhaust, ToTerminal, Take, Eligible, GateOpen
  <2>2. QED
    BY <1>n, <2>1 DEF ToTerminal, CooldownInv
<1>6. ASSUME NEW f \in Families, ReserveQueue(f) PROVE CooldownInv'
  <2>1. store[f].attempts + 1 \in Nat /\ store[f].attempts + 1 >= 1
    BY <1>r, RecordFields
  <2>2. Later(start, RetryAfter(store[f].attempts + 1)) \in 0..MaxTime
        /\ start <= Later(start, RetryAfter(store[f].attempts + 1))
    <3>1. RetryAfter(store[f].attempts + 1) \in Nat
      BY <2>1, DelaysAreNat
    <3>2. QED
      BY <1>n, <3>1, LaterIsTime
  <2>3. pc = "gate" /\ value = status /\ value.notBefore <= start
    BY <1>6 DEF ReserveQueue, Take, Eligible, GateOpen, CooldownInv
  <2>4. /\ status'.notBefore = Later(start, RetryAfter(store[f].attempts + 1))
        /\ value' = status' /\ item'.fam = f /\ pc' = "reserve"
        /\ UNCHANGED <<store, start, now, coolUntil>>
    BY <1>s, <1>6 DEF ReserveQueue, Take, Sidecar
  <2>5. QED
    BY <1>n, <1>s, <2>2, <2>3, <2>4 DEF CooldownInv
<1>7. CASE ReserveAttempt
  <2>1. item'.attempts = store[item.fam].attempts + 1
    BY <1>7 DEF ReserveAttempt, TypeInv, TypeOK
  <2>2. QED
    BY <1>n, <1>7, <2>1 DEF ReserveAttempt, CooldownInv
<1>8. CASE ReleaseSuppressed
  BY <1>n, <1>8 DEF ReleaseSuppressed, CooldownInv
<1>9. CASE Transmit
  BY <1>n, <1>s, <1>9 DEF Transmit, CooldownInv
<1>10. CASE MiniserverKills
  BY <1>10 DEF MiniserverKills, CooldownInv
<1>11. CASE Confirmed
  BY <1>n, <1>s, <1>11 DEF Confirmed, CooldownInv, Sidecar
<1>12. CASE Rejected
  <2>1. value.streak + 1 \in Nat /\ value.streak + 1 >= 1
    BY <1>s, SidecarFields
  <2>2. Later(start, InvalidAfter(value.streak + 1)) \in 0..MaxTime
    <3>1. InvalidAfter(value.streak + 1) \in Nat
      BY <2>1, DelaysAreNat
    <3>2. QED
      BY <1>n, <3>1, LaterIsTime
  <2>3. /\ value'.notBefore = Later(start, InvalidAfter(value.streak + 1))
        /\ coolUntil' = Min2(coolUntil, value'.notBefore)
    BY <1>s, <1>12 DEF Rejected, Sidecar
  <2>4. QED
    BY <1>n, <1>s, <1>12, <2>2, <2>3 DEF Rejected, CooldownInv, Min2
<1>13. CASE GiveUp \/ Failed
  <2>1. PICK d \in FailureDelays :
          IF pc' = "mark" THEN value' = [value EXCEPT !.notBefore = Later(start, d)]
                          ELSE status' = [value EXCEPT !.notBefore = Later(start, d)]
    BY <1>13 DEF GiveUp, Failed
  <2>2. item.attempts \in Nat /\ item.attempts >= 1
    BY <1>w, <1>13 DEF TypeInv, TypeOK, WorkerShape, Reserved, GiveUp, Failed
  <2>3. d \in Nat /\ RetryAfter(item.attempts) \in Nat /\ RetryAfter(item.attempts) <= d
    BY <2>2, FailureDelaysCover, DelaysAreNat
  <2>4. Later(start, RetryAfter(item.attempts)) <= Later(start, d)
    BY <1>n, <2>3, LaterMonotonic
  <2>5. coolUntil <= Later(start, d)
    <3>1. coolUntil <= Later(start, RetryAfter(item.attempts))
      BY <1>13 DEF GiveUp, Failed, CooldownInv
    <3>2. Later(start, RetryAfter(item.attempts)) \in 0..MaxTime
      BY <1>n, <2>3, LaterIsTime
    <3>3. Later(start, d) \in 0..MaxTime
      BY <1>n, <2>3, LaterIsTime
    <3>4. QED
      BY <1>n, <2>4, <3>1, <3>2, <3>3
  <2>6. CASE GiveUp
    BY <1>n, <1>s, <2>1, <2>5, <2>6 DEF GiveUp, CooldownInv, Sidecar
  <2>7. CASE Failed
    BY <1>n, <1>s, <2>1, <2>5, <2>7 DEF Failed, CooldownInv, Sidecar
  <2>8. QED
    BY <1>13, <2>6, <2>7
<1>14. CASE Mark
  BY <1>n, <1>14 DEF Mark, CooldownInv
<1>15. CASE Acknowledge
  <2>1. status'.notBefore \in {status.notBefore, value.notBefore} /\ value' = status'
    BY <1>s, <1>15 DEF Acknowledge, Sidecar
  <2>2. QED
    BY <1>n, <1>s, <1>15, <2>1 DEF Acknowledge, CooldownInv
<1>16. CASE UNCHANGED vars
  BY <1>16 DEF vars, CooldownInv
<1>17. QED
  BY <1>1, <1>2, <1>3, <1>4, <1>5, <1>6, <1>7, <1>8, <1>9, <1>10, <1>11, <1>12,
     <1>13, <1>14, <1>15, <1>16
  DEF Next, Worker

\* The queue-wide cooldown of remote_revocation.py (reserved before the attempt,
\* lines 294-299) is over before any other attempt goes out, also after
\* restarts and failed writes.
THEOREM CooldownIsHonoured == Spec => []CooldownHonoured
<1>1. Init => CooldownInv
  BY DEF Init, CooldownInv
<1>2. CooldownInv /\ TypeInv => CooldownHonoured
  <2> SUFFICES ASSUME CooldownInv, TypeInv, pc = "attempt" PROVE coolUntil <= now
    BY DEF CooldownHonoured
  <2>1. coolUntil <= start /\ start <= now
    BY DEF CooldownInv
  <2>2. QED
    BY <2>1, Parameters DEF TypeInv, TypeOK
<1>3. QED
  BY <1>1, <1>2, TypeInvariant, StepCooldownInv, PTL DEF Spec

-------------------------------------------------------------------------------
(***************************************************************************)
(* What a step does to the records.                                        *)
(***************************************************************************)
\* Token, queue marker and outcome of a record stay as they are.
Kept(f) ==
  /\ store'[f].tok = store[f].tok
  /\ store'[f].pending = store[f].pending
  /\ store'[f].outcome = store[f].outcome
  /\ store'[f].receipt = store[f].receipt

\* Steps that leave the records alone, but for attempts and delays.
QuietStep ==
  \/ Tick
  \/ \E f \in Families : \E t \in Tokens : RetainLogin(f, t)
  \/ \E f \in Families : BeginRefresh(f) \/ AbandonRefresh(f)
  \/ Begin \/ NothingDue
  \/ \E d \in BreakerDelays : DeferToBreaker(d) \/ PostponeSuppressed(d)
  \/ \E f \in Families : Resume(f) \/ Expire(f) \/ Exhaust(f) \/ ReserveQueue(f)
  \/ ReserveAttempt \/ ReleaseSuppressed \/ ReleaseRefused
  \/ Transmit \/ MiniserverKills \/ Confirmed \/ Rejected \/ GiveUp \/ Failed
  \/ Suspend \/ MarkRefused \/ Acknowledge \/ Abort \/ Restart
  \/ UNCHANGED vars

LEMMA QuietKeeps ==
  ASSUME TypeInv, QuietStep, NEW f \in Families
  PROVE  Kept(f)
<1>s. store \in [Families -> Record]
  BY DEF TypeInv, TypeOK
<1> USE DEF workerVars, loginVars, ghostVars
<1>1. CASE ReserveAttempt \/ ReleaseSuppressed \/ Suspend
  <2>1. \/ store' = store
        \/ \E n, a : store' = [store EXCEPT ![item.fam].attempts = n,
                                            ![item.fam].after = a]
        \/ \E a : store' = [store EXCEPT ![item.fam].after = a]
    BY <1>1 DEF ReserveAttempt, ReleaseSuppressed, Suspend
  <2>2. CASE \E n, a : store' = [store EXCEPT ![item.fam].attempts = n,
                                              ![item.fam].after = a]
    BY <1>s, <2>2 DEF Kept, Record
  <2>3. CASE \E a : store' = [store EXCEPT ![item.fam].after = a]
    BY <1>s, <2>3 DEF Kept, Record
  <2>4. QED
    BY <2>1, <2>2, <2>3 DEF Kept
<1>2. CASE store' = store
  BY <1>2 DEF Kept
<1>3. QuietStep => store' = store \/ ReserveAttempt \/ ReleaseSuppressed \/ Suspend
  BY DEF QuietStep, Tick, RetainLogin, BeginRefresh, AbandonRefresh, Begin, NothingDue,
     DeferToBreaker, PostponeSuppressed, Resume, Expire, Exhaust, ToTerminal,
     ReserveQueue,
     ReleaseRefused, Transmit, MiniserverKills, Confirmed, Rejected, GiveUp, Failed,
     MarkRefused, Acknowledge, Abort, Restart, vars
<1>4. QED
  BY <1>1, <1>2, <1>3

\* A put replaces one record.
LEMMA PutEffect ==
  ASSUME TypeInv, NEW f \in Families, NEW t \in Tokens, NEW p \in BOOLEAN,
         store' = [store EXCEPT ![f] = Entry(t, p)]
  PROVE  /\ store'[f].tok = t
         /\ store'[f].pending = p
         /\ store'[f].attempts = 0
         /\ store'[f].outcome = "none"
         /\ store'[f].receipt = 0
         /\ \A g \in Families \ {f} : store'[g] = store[g]
  BY DEF TypeInv, TypeOK, Entry

LEMMA ScheduleEffect ==
  ASSUME TypeInv, NEW f \in Families, Schedule(f)
  PROVE  /\ store'[f].tok = store[f].tok
         /\ store'[f].pending = TRUE
         /\ store'[f].attempts = store[f].attempts
         /\ store'[f].outcome = store[f].outcome
         /\ store'[f].receipt = store[f].receipt
         /\ \A g \in Families \ {f} : store'[g] = store[g]
  BY DEF TypeInv, TypeOK, Schedule, Record

LEMMA MarkEffect ==
  ASSUME TypeInv, Mark
  PROVE  /\ item.fam \in Families
         /\ store'[item.fam].tok = store[item.fam].tok
         /\ store'[item.fam].pending = store[item.fam].pending
         /\ store'[item.fam].attempts = store[item.fam].attempts
         /\ IF Marked(item.fam)
            THEN UNCHANGED <<store, receipts>> /\ outcome' = store[item.fam].outcome
            ELSE /\ receipts' = receipts + 1
                 /\ outcome' = outcome
                 /\ store'[item.fam].outcome = outcome
                 /\ store'[item.fam].receipt = receipts + 1
         /\ \A g \in Families \ {item.fam} : store'[g] = store[g]
<1>1. item.fam \in Families /\ store \in [Families -> Record]
  BY DEF TypeInv, TypeOK, WorkerShape, Holding, Mark
<1>2. CASE Marked(item.fam)
  BY <1>1, <1>2 DEF Mark
<1>3. CASE ~ Marked(item.fam)
  <2>1. store' = [store EXCEPT ![item.fam].outcome = outcome,
                               ![item.fam].receipt = receipts + 1]
    BY <1>3 DEF Mark
  <2>2. receipts' = receipts + 1 /\ outcome' = outcome
    BY <1>3 DEF Mark
  <2>3. QED
    BY <1>1, <1>3, <2>1, <2>2 DEF Record
<1>4. QED
  BY <1>2, <1>3

LEMMA CompleteEffect ==
  ASSUME TypeInv, Complete
  PROVE  /\ item.fam \in Families
         /\ store'[item.fam] = Absent
         /\ \A g \in Families \ {item.fam} : store'[g] = store[g]
  BY DEF TypeInv, TypeOK, WorkerShape, Holding, Complete

LEMMA NextCases ==
  ASSUME [Next]_vars
  PROVE  \/ QuietStep
         \/ \E f \in Families : \E t \in Tokens : Issue(f, t) \/ RefreshPut(f, t)
         \/ \E f \in Families : QueueLogin(f) \/ QueueLoginDoubtful(f) \/ Schedule(f)
         \/ Mark
         \/ Complete
  BY DEF Next, Environment, Worker, QuietStep

-------------------------------------------------------------------------------
(***************************************************************************)
(* The life of a family, and what it allows to be stored, held or awaited. *)
(***************************************************************************)
\* Which token is where.
OwnerInv ==
  /\ \A f \in Families :
       /\ family[f] = "new" => ~ Present(f) /\ f \notin refreshing
       /\ family[f] # "ended" => held[f] = NoToken
       /\ f \in refreshing => held[f] = NoToken
       /\ Queued(f) => family[f] = "ended"
  /\ pc \in Holding => family[item.fam] = "ended" /\ Present(item.fam)

LEMMA StepOwnerInv == TypeInv /\ TypeInv' /\ OwnerInv /\ [Next]_vars => OwnerInv'
<1> SUFFICES ASSUME TypeInv, TypeInv', OwnerInv, [Next]_vars PROVE OwnerInv'
  OBVIOUS
<1>t. /\ family \in [Families -> {"new", "active", "ended"}]
      /\ held \in [Families -> Tokens \cup {NoToken}]
      /\ refreshing \subseteq Families
      /\ NoToken \notin Tokens
  BY Parameters DEF TypeInv, TypeOK
<1>w. pc \in Holding => item.fam \in Families
  BY DEF TypeInv, WorkerShape
<1> USE DEF workerVars, loginVars, ghostVars
<1>1. CASE QuietStep
  <2>k. \A f \in Families : Present(f)' = Present(f) /\ Queued(f)' = Queued(f)
    BY <1>1, QuietKeeps DEF Kept, Present, Queued
  <2>1. CASE \E f \in Families : \E t \in Tokens : RetainLogin(f, t)
    BY <1>t, <1>w, <2>1, <2>k DEF RetainLogin, OwnerInv, Holding, LoopFree
  <2>2. CASE \E f \in Families : BeginRefresh(f)
    BY <1>t, <1>w, <2>2, <2>k DEF BeginRefresh, OwnerInv
  <2>3. CASE \E f \in Families : AbandonRefresh(f)
    BY <1>t, <1>w, <2>3, <2>k DEF AbandonRefresh, OwnerInv
  <2>4. CASE Restart
    BY <1>t, <1>w, <2>4, <2>k DEF Restart, Return, OwnerInv, Holding
  <2>5. CASE /\ UNCHANGED <<family, held, refreshing>>
             /\ pc' \in Holding => pc \in Holding /\ item'.fam = item.fam
    BY <1>t, <1>w, <2>5, <2>k DEF OwnerInv
  <2>6. CASE \E f \in Families : Resume(f) \/ Expire(f) \/ Exhaust(f) \/ ReserveQueue(f)
    <3>1. PICK f \in Families : Take(f) /\ UNCHANGED <<family, held, refreshing>>
      BY <2>6 DEF Resume, Expire, Exhaust, ToTerminal, ReserveQueue
    <3>2. item'.fam = f /\ Queued(f)
      BY <3>1 DEF Take, Eligible, Due
    <3>3. QED
      BY <1>t, <2>k, <3>1, <3>2 DEF OwnerInv, Queued
  <2>7. QuietStep => \/ \E f \in Families : \E t \in Tokens : RetainLogin(f, t)
                     \/ \E f \in Families : BeginRefresh(f) \/ AbandonRefresh(f)
                     \/ Restart
                     \/ /\ UNCHANGED <<family, held, refreshing>>
                        /\ pc' \in Holding => pc \in Holding /\ item'.fam = item.fam
                     \/ \E f \in Families :
                          Resume(f) \/ Expire(f) \/ Exhaust(f) \/ ReserveQueue(f)
    <3>1. CASE ReserveAttempt
      BY <3>1 DEF ReserveAttempt, TypeInv, TypeOK, Holding
    <3>2. CASE QuietStep /\ ~ ReserveAttempt
      BY <3>2
      DEF QuietStep, Tick, Begin, NothingDue, Return, Holding, DeferToBreaker,
          PostponeSuppressed, ReleaseSuppressed, ReleaseRefused, Transmit,
          MiniserverKills, Confirmed, Rejected, GiveUp, Failed, Suspend, MarkRefused,
          Acknowledge, Abort, vars
    <3>3. QED
      BY <3>1, <3>2
  <2>8. QED
    BY <1>1, <2>1, <2>2, <2>3, <2>4, <2>5, <2>6, <2>7
<1>2. ASSUME NEW f \in Families, NEW t \in Tokens, Issue(f, t) \/ RefreshPut(f, t)
      PROVE  OwnerInv'
  <2>1. store' = [store EXCEPT ![f] = Entry(t, FALSE)]
    BY <1>2 DEF Issue, RefreshPut
  <2>2. \A g \in Families \ {f} : Present(g)' = Present(g) /\ Queued(g)' = Queued(g)
    BY <2>1, PutEffect DEF Present, Queued
  <2>3. Present(f)' /\ ~ Queued(f)'
    BY <1>t, <2>1, PutEffect DEF Present, Queued
  <2>4. UNCHANGED <<pc, item, held>>
    BY <1>2 DEF Issue, RefreshPut
  <2>5. CASE Issue(f, t)
    BY <1>t, <1>w, <2>2, <2>3, <2>4, <2>5 DEF Issue, OwnerInv
  <2>6. CASE RefreshPut(f, t)
    BY <1>t, <1>w, <2>2, <2>3, <2>4, <2>6 DEF RefreshPut, OwnerInv
  <2>7. QED
    BY <1>2, <2>5, <2>6
<1>3. ASSUME NEW f \in Families, QueueLogin(f) \/ QueueLoginDoubtful(f)
      PROVE  OwnerInv'
  <2>1. store' = [store EXCEPT ![f] = Entry(held[f], TRUE)] /\ held[f] \in Tokens
    BY <1>t, <1>3 DEF QueueLogin, QueueLoginDoubtful
  <2>2. \A g \in Families \ {f} : Present(g)' = Present(g) /\ Queued(g)' = Queued(g)
    BY <2>1, PutEffect DEF Present, Queued
  <2>3. Present(f)' /\ family[f] = "ended"
    <3>1. store'[f].tok = held[f]
      BY <2>1, PutEffect
    <3>2. family[f] = "ended"
      BY <1>t, <2>1 DEF OwnerInv
    <3>3. QED
      BY <1>t, <2>1, <3>1, <3>2 DEF Present
  <2>4. UNCHANGED <<pc, item, family, refreshing>>
        /\ held' \in {held, [held EXCEPT ![f] = NoToken]}
    BY <1>3 DEF QueueLogin, QueueLoginDoubtful
  <2>5. QED
    BY <1>t, <1>w, <2>2, <2>3, <2>4 DEF OwnerInv
<1>4. ASSUME NEW f \in Families, Schedule(f) PROVE OwnerInv'
  <2>1. \A g \in Families : Present(g)' = Present(g)
    BY <1>4, ScheduleEffect DEF Present
  <2>2. \A g \in Families \ {f} : Queued(g)' = Queued(g)
    BY <1>4, ScheduleEffect DEF Present, Queued
  <2>3. QED
    BY <1>t, <1>w, <1>4, <2>1, <2>2 DEF Schedule, OwnerInv
<1>5. CASE Mark
  <2>1. \A g \in Families : Present(g)' = Present(g) /\ Queued(g)' = Queued(g)
    BY <1>5, MarkEffect DEF Present, Queued
  <2>2. QED
    BY <1>w, <1>5, <2>1 DEF Mark, OwnerInv, Holding
<1>6. CASE Complete
  <2>1. \A g \in Families : Queued(g)' => Queued(g)
    BY <1>6, CompleteEffect DEF Present, Queued, Absent
  <2>2. \A g \in Families : Present(g)' => Present(g)
    BY <1>6, CompleteEffect DEF Present, Absent
  <2>3. QED
    BY <1>6, <2>1, <2>2 DEF Complete, Return, OwnerInv, Holding
<1>7. QED
  BY <1>1, <1>2, <1>3, <1>4, <1>5, <1>6, NextCases

LEMMA OwnerInvariant == Spec => []OwnerInv
<1>1. Init => OwnerInv
  BY DEF Init, OwnerInv, Present, Queued, Absent, Holding
<1>2. QED
  BY <1>1, TypeInvariant, StepOwnerInv, PTL DEF Spec

-------------------------------------------------------------------------------
(***************************************************************************)
(* Which key owns which token, and what that implies for the attempts that *)
(* are counted and the outcomes that are recorded.                         *)
(***************************************************************************)

(***************************************************************************)
(* Tokens: not issued, held by a sign-in, stored, in the worker's hand.    *)
(***************************************************************************)
\* A token the Miniserver has not issued is nowhere,
NotIssued == \A f \in Families : store[f].tok \notin fresh /\ held[f] \notin fresh

\* a sign-in that still holds a token has stored it only in a put that reported
\* an error,
HeldOnce == \A f \in Families : held[f] # NoToken /\ Present(f) =>
              f \in doubtful /\ held[f] = store[f].tok

\* every token has one key,
OneRecord  == \A f, g \in Families : Present(f) /\ store[f].tok = store[g].tok => f = g
OneKey     == \A f, g \in Families : held[f] # NoToken /\ held[f] = store[g].tok => f = g
OneSignIn  == \A f, g \in Families : held[f] # NoToken /\ held[f] = held[g] => f = g

\* and so has the token the worker holds.
ItemToken ==
  pc \in Holding =>
    /\ item.tok \notin fresh
    /\ \A g \in Families : store[g].tok = item.tok => g = item.fam
    /\ \A g \in Families : held[g] = item.tok => g = item.fam /\ g \in doubtful

CustodyInv == NotIssued /\ HeldOnce /\ OneRecord /\ OneKey /\ OneSignIn /\ ItemToken

\* What quiet steps do to tokens in flight.
LEMMA QuietTokens ==
  ASSUME TypeInv, QuietStep
  PROVE  \/ /\ UNCHANGED <<held, fresh, doubtful>>
            /\ pc' \in Holding => /\ pc \in Holding
                                /\ item'.tok = item.tok /\ item'.fam = item.fam
         \/ /\ UNCHANGED <<held, fresh, doubtful>>
            /\ \E f \in Families : Take(f) /\ pc' \in {"reserve", "mark"}
         \/ \E f \in Families : \E t \in Tokens : RetainLogin(f, t)
         \/ Restart
<1> USE DEF workerVars, loginVars, ghostVars, Holding
<1>1. CASE \/ Tick \/ UNCHANGED vars \/ Transmit \/ MiniserverKills \/ ReleaseSuppressed
           \/ Confirmed \/ Rejected \/ GiveUp \/ Failed \/ Acknowledge
           \/ \E f \in Families : BeginRefresh(f) \/ AbandonRefresh(f)
  BY <1>1 DEF Tick, vars, Transmit, MiniserverKills, ReleaseSuppressed, BeginRefresh,
     AbandonRefresh, Confirmed, Rejected, GiveUp, Failed, Acknowledge
<1>2. CASE ReserveAttempt
  BY <1>2 DEF ReserveAttempt, TypeInv, TypeOK
<1>3. CASE \/ NothingDue \/ ReleaseRefused \/ Suspend \/ MarkRefused \/ Abort \/ Begin
           \/ \E d \in BreakerDelays : DeferToBreaker(d) \/ PostponeSuppressed(d)
  BY <1>3 DEF NothingDue, ReleaseRefused, Suspend, MarkRefused, Abort, Begin, Return,
     DeferToBreaker, PostponeSuppressed
<1>4. CASE \E f \in Families : Resume(f) \/ Expire(f) \/ Exhaust(f) \/ ReserveQueue(f)
  BY <1>4 DEF Resume, Expire, Exhaust, ToTerminal, ReserveQueue
<1>5. QED
  BY <1>1, <1>2, <1>3, <1>4 DEF QuietStep

LEMMA StepCustodyInv ==
  TypeInv /\ OwnerInv /\ CustodyInv /\ [Next]_vars => CustodyInv'
<1> SUFFICES ASSUME TypeInv, OwnerInv, CustodyInv, [Next]_vars PROVE CustodyInv'
  OBVIOUS
<1>t. /\ held \in [Families -> Tokens \cup {NoToken}] /\ NoToken \notin Tokens
      /\ fresh \subseteq Tokens
      /\ \A f \in Families : store[f].tok \in Tokens \cup {NoToken}
  BY Parameters, RecordFields DEF TypeInv, TypeOK
<1>w. pc \in Holding => item.fam \in Families /\ item.tok \in Tokens
  BY DEF TypeInv, WorkerShape
<1> USE DEF workerVars, loginVars, ghostVars, Present
<1>1. CASE QuietStep
  <2>1. \A f \in Families : store'[f].tok = store[f].tok
    BY <1>1, QuietKeeps DEF Kept
  <2>2. CASE /\ UNCHANGED <<held, fresh, doubtful>>
             /\ pc' \in Holding => /\ pc \in Holding
                                 /\ item'.tok = item.tok /\ item'.fam = item.fam
    BY <2>1, <2>2
    DEF CustodyInv, NotIssued, HeldOnce, OneRecord, OneKey, OneSignIn, ItemToken
  <2>3. ASSUME NEW f \in Families, Take(f), UNCHANGED <<held, fresh, doubtful>>
        PROVE  CustodyInv'
    <3>1. item'.fam = f /\ item'.tok = store[f].tok /\ Present(f)
      BY <2>3 DEF Take, Eligible, Due, Queued
    <3>2. /\ \A g \in Families : store[g].tok = store[f].tok => g = f
          /\ \A g \in Families : held[g] = store[f].tok => g = f /\ g \in doubtful
      BY <3>1
      DEF CustodyInv, NotIssued, HeldOnce, OneRecord, OneKey, OneSignIn, ItemToken
    <3>3. QED
      BY <2>1, <2>3, <3>1, <3>2
      DEF CustodyInv, NotIssued, HeldOnce, OneRecord, OneKey, OneSignIn, ItemToken
  <2>4. ASSUME NEW f \in Families, NEW t \in Tokens, RetainLogin(f, t) PROVE CustodyInv'
    <3>1. /\ held' = [held EXCEPT ![f] = t] /\ fresh' = fresh \ {t} /\ t \in fresh
          /\ UNCHANGED <<pc, item, doubtful, store>> /\ ~ Present(f)
      BY <2>4 DEF RetainLogin, OwnerInv
    <3>2. \A g \in Families : store[g].tok # t /\ held[g] # t
      BY <3>1
      DEF CustodyInv, NotIssued, HeldOnce, OneRecord, OneKey, OneSignIn, ItemToken
    <3>3. pc \in Holding => item.tok # t
      BY <3>1
      DEF CustodyInv, NotIssued, HeldOnce, OneRecord, OneKey, OneSignIn, ItemToken
    <3>4. QED
      BY <1>t, <3>1, <3>2, <3>3
      DEF CustodyInv, NotIssued, HeldOnce, OneRecord, OneKey, OneSignIn, ItemToken
  <2>5. CASE Restart
    BY <1>t, <2>1, <2>5
    DEF Restart, Return, CustodyInv, NotIssued, HeldOnce, OneRecord, OneKey,
        OneSignIn, ItemToken, Holding
  <2>6. QED
    BY <1>1, <2>2, <2>3, <2>4, <2>5, QuietTokens
<1>2. ASSUME NEW f \in Families, NEW t \in Tokens, Issue(f, t) \/ RefreshPut(f, t)
      PROVE  CustodyInv'
  <2>1. /\ store' = [store EXCEPT ![f] = Entry(t, FALSE)] /\ t \in fresh
        /\ fresh' = fresh \ {t} /\ UNCHANGED <<pc, item, held, doubtful>>
    BY <1>2 DEF Issue, RefreshPut
  <2>2. held[f] = NoToken
    BY <1>2 DEF Issue, RefreshPut, OwnerInv
  <2>3. store'[f].tok = t /\ \A g \in Families \ {f} : store'[g] = store[g]
    BY <2>1, PutEffect
  <2>4. /\ \A g \in Families : store[g].tok # t /\ held[g] # t
        /\ pc \in Holding => item.tok # t
    BY <2>1 DEF CustodyInv, NotIssued, HeldOnce, OneRecord, OneKey, OneSignIn, ItemToken
  <2>5. \A g \in Families : store'[g].tok = IF g = f THEN t ELSE store[g].tok
    BY <2>3
  <2>6. NotIssued' /\ HeldOnce'
    <3>1. ASSUME NEW g \in Families
          PROVE  store'[g].tok \notin fresh' /\ held'[g] \notin fresh'
      <4>1. fresh' \subseteq fresh /\ t \notin fresh' /\ held'[g] = held[g]
        BY <2>1
      <4>2. store[g].tok \notin fresh /\ held[g] \notin fresh
        BY DEF CustodyInv, NotIssued
      <4>3. store'[g].tok \in {t, store[g].tok}
        BY <2>5
      <4>4. QED
        BY <4>1, <4>2, <4>3
    <3>2. ASSUME NEW g \in Families, held'[g] # NoToken, Present(g)'
          PROVE  g \in doubtful' /\ held'[g] = store'[g].tok
      BY <2>1, <2>2, <2>5, <3>2 DEF CustodyInv, HeldOnce
    <3>3. QED
      BY <3>1, <3>2 DEF NotIssued, HeldOnce
  <2>7. OneRecord'
    <3>1. SUFFICES ASSUME NEW g \in Families, NEW h \in Families, Present(g)',
                          store'[g].tok = store'[h].tok
                   PROVE  g = h
      BY DEF OneRecord
    <3>2. QED
      BY <2>4, <2>5, <3>1 DEF CustodyInv, OneRecord
  <2>8. OneKey' /\ OneSignIn'
    BY <2>1, <2>4, <2>5 DEF CustodyInv, OneKey, OneSignIn
  <2>9. ItemToken'
    BY <2>1, <2>4, <2>5 DEF CustodyInv, ItemToken
  <2>10. QED
    BY <2>6, <2>7, <2>8, <2>9 DEF CustodyInv
<1>3. ASSUME NEW f \in Families, QueueLogin(f) \/ QueueLoginDoubtful(f)
      PROVE  CustodyInv'
  <2>1. /\ store' = [store EXCEPT ![f] = Entry(held[f], TRUE)] /\ held[f] \in Tokens
        /\ UNCHANGED <<pc, item, fresh>>
    BY <1>t, <1>3 DEF QueueLogin, QueueLoginDoubtful
  <2>2. store'[f].tok = held[f] /\ \A g \in Families \ {f} : store'[g] = store[g]
    BY <2>1, PutEffect
  <2>3. \/ held' = [held EXCEPT ![f] = NoToken] /\ doubtful' = doubtful
        \/ held' = held /\ doubtful' = doubtful \cup {f}
    BY <1>3 DEF QueueLogin, QueueLoginDoubtful
  <2>4. /\ \A g \in Families : store'[g].tok = IF g = f THEN held[f] ELSE store[g].tok
        /\ \A g \in Families : held'[g] = held[g] \/ held'[g] = NoToken
        /\ f \in doubtful' \/ held'[f] = NoToken
        /\ doubtful \subseteq doubtful'
    BY <1>t, <2>2, <2>3
  <2>5. NotIssued'
    <3>1. SUFFICES ASSUME NEW g \in Families
                   PROVE  store'[g].tok \notin fresh' /\ held'[g] \notin fresh'
      BY DEF NotIssued
    <3>2. fresh' = fresh /\ NoToken \notin fresh
      BY <1>t, <2>1
    <3>3. QED
      BY <2>4, <3>2 DEF CustodyInv, NotIssued
  <2>6. HeldOnce'
    BY <1>t, <2>1, <2>4, <2>3 DEF CustodyInv, HeldOnce
  <2>7. OneRecord'
    <3>1. SUFFICES ASSUME NEW g \in Families, NEW h \in Families, Present(g)',
                          store'[g].tok = store'[h].tok
                   PROVE  g = h
      BY DEF OneRecord
    <3>2. held[f] # NoToken
      BY <1>t, <2>1
    <3>3. QED
      BY <2>4, <3>1, <3>2 DEF CustodyInv, OneRecord, OneKey
  <2>8. OneKey' /\ OneSignIn'
    <3>1. ASSUME NEW g \in Families, NEW h \in Families, held'[g] # NoToken,
                 held'[g] = store'[h].tok
          PROVE  g = h
      BY <2>4, <3>1 DEF CustodyInv, OneKey, OneSignIn
    <3>2. ASSUME NEW g \in Families, NEW h \in Families, held'[g] # NoToken,
                 held'[g] = held'[h]
          PROVE  g = h
      BY <2>4, <3>2 DEF CustodyInv, OneSignIn
    <3>3. QED
      BY <3>1, <3>2 DEF OneKey, OneSignIn
  <2>9. ItemToken'
    BY <1>t, <1>w, <2>1, <2>4, ZenonT(60) DEF CustodyInv, ItemToken
  <2>10. QED
    BY <2>5, <2>6, <2>7, <2>8, <2>9 DEF CustodyInv
<1>4. ASSUME NEW f \in Families, Schedule(f) PROVE CustodyInv'
  <2>1. \A g \in Families : store'[g].tok = store[g].tok
    BY <1>4, ScheduleEffect
  <2>2. UNCHANGED <<pc, item, fresh, held, doubtful>>
    BY <1>4 DEF Schedule
  <2>3. QED
    BY <2>1, <2>2
    DEF CustodyInv, NotIssued, HeldOnce, OneRecord, OneKey, OneSignIn, ItemToken
<1>5. CASE Mark
  <2>1. \A g \in Families : store'[g].tok = store[g].tok
    BY <1>5, MarkEffect
  <2>2. UNCHANGED <<item, fresh, held, doubtful>> /\ pc \in Holding
    BY <1>5 DEF Mark, Holding
  <2>3. QED
    BY <2>1, <2>2
    DEF CustodyInv, NotIssued, HeldOnce, OneRecord, OneKey, OneSignIn, ItemToken
<1>6. CASE Complete
  <2>1. \A g \in Families : store'[g].tok = store[g].tok \/ store'[g].tok = NoToken
    BY <1>6, CompleteEffect DEF Absent
  <2>2. UNCHANGED <<fresh, held, doubtful>> /\ pc' \notin Holding
    BY <1>6 DEF Complete, Return, Holding
  <2>3. QED
    BY <1>t, <2>1, <2>2
    DEF CustodyInv, NotIssued, HeldOnce, OneRecord, OneKey, OneSignIn, ItemToken
<1>7. QED
  BY <1>1, <1>2, <1>3, <1>4, <1>5, <1>6, NextCases

LEMMA CustodyInvariant == Spec => []CustodyInv
<1>1. Init => CustodyInv
  BY Parameters
  DEF Init, CustodyInv, NotIssued, HeldOnce, OneRecord, OneKey, OneSignIn, ItemToken,
      Present, Absent, Holding
<1>2. QED
  BY <1>1, TypeInvariant, OwnerInvariant, StepCustodyInv, PTL DEF Spec

-------------------------------------------------------------------------------
(***************************************************************************)
(* Attempts: the record counts one more than went out while one is         *)
(* reserved, and at least as many at any other time.                       *)
(***************************************************************************)
CountInv ==
  /\ NoUncountedAttempt
  /\ \A t \in fresh : tries[t] = 0
  /\ \A f \in Families : held[f] # NoToken /\ f \notin doubtful => tries[held[f]] = 0
  /\ pc = "reserve" => store[item.fam].tok = item.tok /\ Queued(item.fam)
  /\ pc = "attempt" /\ item.fam \notin doubtful =>
       IF store[item.fam].tok = item.tok
       THEN tries[item.tok] < store[item.fam].attempts
       ELSE store[item.fam].attempts = 0

LEMMA StepCountInv ==
  TypeInv /\ OwnerInv /\ CustodyInv /\ CountInv /\ [Next]_vars => CountInv'
<1> SUFFICES ASSUME TypeInv, OwnerInv, CustodyInv, CountInv, [Next]_vars PROVE CountInv'
  OBVIOUS
<1>t. /\ held \in [Families -> Tokens \cup {NoToken}] /\ NoToken \notin Tokens
      /\ fresh \subseteq Tokens
      /\ store \in [Families -> Record]
      /\ tries \in [Tokens -> Nat]
      /\ item.attempts \in Nat
      /\ \A f \in Families : /\ store[f].tok \in Tokens \cup {NoToken}
                            /\ store[f].attempts \in Nat
  BY Parameters, RecordFields DEF TypeInv, TypeOK
<1>w. pc \in Holding => item.fam \in Families /\ item.tok \in Tokens
  BY DEF TypeInv, WorkerShape
<1> USE DEF workerVars, loginVars, ghostVars
\* Steps after which no attempt is in hand.
<1>1. ASSUME UNCHANGED <<tries, doubtful>>, pc' \notin {"reserve", "attempt"},
             fresh' = fresh,
             \A f \in Families : held'[f] \in {held[f], NoToken},
             \A f \in Families : \/ /\ store'[f].tok = store[f].tok
                                    /\ store'[f].attempts = store[f].attempts
                                 \/ store'[f].tok = NoToken
      PROVE  CountInv'
  BY <1>1 DEF CountInv, NoUncountedAttempt, Present
<1>2. CASE \/ Begin \/ NothingDue \/ ReleaseRefused \/ MarkRefused \/ Abort \/ Restart
           \/ Confirmed \/ Rejected \/ GiveUp \/ Failed \/ Acknowledge \/ MiniserverKills
           \/ \E d \in BreakerDelays : DeferToBreaker(d) \/ PostponeSuppressed(d)
           \/ \E f \in Families : Resume(f) \/ Expire(f) \/ Exhaust(f)
  <2>1. /\ UNCHANGED <<tries, doubtful, fresh, store>>
        /\ pc' \notin {"reserve", "attempt"}
        /\ \A f \in Families : held'[f] \in {held[f], NoToken}
    BY <1>2
    DEF Begin, NothingDue, ReleaseRefused, MarkRefused, Abort, Restart, Confirmed,
       Rejected, GiveUp, Failed, Acknowledge, MiniserverKills, DeferToBreaker,
       PostponeSuppressed, Resume, Expire, Exhaust, ToTerminal, Return
  <2>2. QED
    BY <1>1, <2>1
<1>3. CASE Suspend
  <2>1. \A f \in Families : /\ store'[f].tok = store[f].tok
                             /\ store'[f].attempts = store[f].attempts
    <3>1. \/ store' = store
          \/ \E a : store' = [store EXCEPT ![item.fam].after = a]
      BY <1>3 DEF Suspend
    <3>2. ASSUME NEW a, store' = [store EXCEPT ![item.fam].after = a]
          PROVE  \A f \in Families : /\ store'[f].tok = store[f].tok
                                     /\ store'[f].attempts = store[f].attempts
      BY <1>t, <3>2 DEF Record
    <3>3. QED
      BY <3>1, <3>2
  <2>2. QED
    BY <1>1, <1>3, <2>1 DEF Suspend, Return
<1>4. CASE Mark
  BY <1>1, <1>4, MarkEffect DEF Mark
<1>5. CASE Complete
  BY <1>1, <1>5, CompleteEffect DEF Complete, Return, Absent
<1>6. CASE \/ Tick \/ UNCHANGED vars
           \/ \E f \in Families : BeginRefresh(f) \/ AbandonRefresh(f)
  BY <1>6
  DEF Tick, vars, BeginRefresh, AbandonRefresh, CountInv, NoUncountedAttempt,
      Present, Queued
<1>7. ASSUME NEW f \in Families, NEW t \in Tokens, RetainLogin(f, t) PROVE CountInv'
  <2>1. /\ held' = [held EXCEPT ![f] = t] /\ fresh' = fresh \ {t} /\ t \in fresh
        /\ UNCHANGED <<pc, item, doubtful, store, tries>>
    BY <1>7 DEF RetainLogin
  <2>2. QED
    BY <1>t, <2>1 DEF CountInv, NoUncountedAttempt, Present, Queued
<1>8. ASSUME NEW f \in Families, NEW t \in Tokens, Issue(f, t) \/ RefreshPut(f, t)
      PROVE  CountInv'
  <2>1. /\ store' = [store EXCEPT ![f] = Entry(t, FALSE)] /\ t \in fresh
        /\ pc # "reserve"
        /\ fresh' = fresh \ {t} /\ UNCHANGED <<pc, item, held, doubtful, tries>>
    BY <1>8 DEF Issue, RefreshPut, LoopFree
  <2>2. /\ store'[f].tok = t /\ store'[f].attempts = 0
        /\ \A g \in Families \ {f} : store'[g] = store[g]
    BY <2>1, PutEffect
  <2>3. tries[t] = 0 /\ (pc \in Holding => item.tok # t)
    BY <2>1
    DEF CountInv, CustodyInv, NotIssued, HeldOnce, OneRecord, OneKey, OneSignIn,
        ItemToken
  <2>4. NoUncountedAttempt'
    <3>1. SUFFICES ASSUME NEW g \in Families, Present(g)', g \notin doubtful
                   PROVE  tries[store'[g].tok] <= store'[g].attempts
      BY <2>1 DEF NoUncountedAttempt, Present
    <3>2. CASE g = f
      BY <2>2, <2>3, <3>2
    <3>3. CASE g # f
      BY <2>2, <3>1, <3>3 DEF CountInv, NoUncountedAttempt, Present
    <3>4. QED
      BY <3>2, <3>3
  <2>5. \A g \in Families : held[g] # NoToken /\ g \notin doubtful => tries[held[g]] = 0
    BY DEF CountInv
  <2>6. pc = "attempt" /\ item.fam \notin doubtful =>
          IF store'[item.fam].tok = item.tok
          THEN tries[item.tok] < store'[item.fam].attempts
          ELSE store'[item.fam].attempts = 0
    BY <1>t, <1>w, <2>2, <2>3 DEF CountInv, Holding
  <2>7. QED
    BY <2>1, <2>4, <2>5, <2>6 DEF CountInv
<1>9. ASSUME NEW f \in Families, QueueLogin(f) \/ QueueLoginDoubtful(f)
      PROVE  CountInv'
  <2>1. /\ store' = [store EXCEPT ![f] = Entry(held[f], TRUE)] /\ held[f] \in Tokens
        /\ UNCHANGED <<pc, item, fresh, tries>> /\ pc # "reserve"
    BY <1>t, <1>9 DEF QueueLogin, QueueLoginDoubtful, LoopFree
  <2>2. /\ store'[f].tok = held[f] /\ store'[f].attempts = 0
        /\ \A g \in Families \ {f} : store'[g] = store[g]
    BY <2>1, PutEffect
  <2>3. \/ held' = [held EXCEPT ![f] = NoToken] /\ doubtful' = doubtful
        \/ held' = held /\ doubtful' = doubtful \cup {f}
    BY <1>9 DEF QueueLogin, QueueLoginDoubtful
  <2>4. f \notin doubtful => tries[held[f]] = 0
        /\ (pc \in Holding => item.tok # held[f])
    BY <1>t, <2>1
    DEF CountInv, CustodyInv, NotIssued, HeldOnce, OneRecord, OneKey, OneSignIn,
        ItemToken
  <2>5. NoUncountedAttempt'
    <3>1. SUFFICES ASSUME NEW g \in Families, Present(g)', g \notin doubtful'
                   PROVE  tries[store'[g].tok] <= store'[g].attempts
      BY <2>1 DEF NoUncountedAttempt, Present
    <3>2. g \notin doubtful
      BY <2>3, <3>1
    <3>3. CASE g = f
      BY <2>2, <2>4, <3>2, <3>3
    <3>4. CASE g # f
      BY <2>2, <3>1, <3>2, <3>4 DEF CountInv, NoUncountedAttempt, Present
    <3>5. QED
      BY <3>3, <3>4
  <2>6. pc = "attempt" /\ item.fam \notin doubtful' =>
          IF store'[item'.fam].tok = item'.tok
          THEN tries'[item'.tok] < store'[item'.fam].attempts
          ELSE store'[item'.fam].attempts = 0
    BY <1>t, <1>w, <2>1, <2>2, <2>3, <2>4 DEF CountInv, Holding
  <2>7. \A g \in Families : held'[g] # NoToken
        /\ g \notin doubtful' => tries'[held'[g]] = 0
    BY <1>t, <2>1, <2>3 DEF CountInv
  <2>8. QED
    BY <2>1, <2>5, <2>6, <2>7 DEF CountInv
<1>10. ASSUME NEW f \in Families, Schedule(f) PROVE CountInv'
  <2>1. \A g \in Families : /\ store'[g].tok = store[g].tok
                            /\ store'[g].attempts = store[g].attempts
                            /\ Queued(g) => Queued(g)'
    BY <1>10, ScheduleEffect DEF Queued, Present
  <2>2. UNCHANGED <<pc, item, fresh, held, doubtful, tries>>
    BY <1>10 DEF Schedule
  <2>3. QED
    BY <1>w, <2>1, <2>2 DEF CountInv, NoUncountedAttempt, Present, Holding
<1>11. ASSUME NEW f \in Families, ReserveQueue(f) PROVE CountInv'
  <2>1. /\ item'.fam = f /\ item'.tok = store[f].tok /\ Queued(f) /\ pc' = "reserve"
        /\ UNCHANGED <<store, fresh, held, doubtful, tries>>
    BY <1>11 DEF ReserveQueue, Take, Eligible, Due
  <2>2. QED
    BY <2>1 DEF CountInv, NoUncountedAttempt, Present, Queued
<1>12. CASE ReserveAttempt
  <2>1. PICK f \in Families : f = item.fam
    BY <1>w, <1>12 DEF ReserveAttempt, Holding
  <2>2. /\ store'[f].tok = store[f].tok /\ store'[f].attempts = store[f].attempts + 1
        /\ \A g \in Families \ {f} : store'[g] = store[g]
    BY <1>t, <1>12, <2>1 DEF ReserveAttempt, Record
  <2>3. item'.fam = f /\ item'.tok = item.tok /\ store[f].tok = item.tok /\ Present(f)
    BY <1>12, <2>1 DEF ReserveAttempt, TypeInv, TypeOK, CountInv, Queued
  <2>4. pc' = "attempt" /\ UNCHANGED <<fresh, held, doubtful, tries>>
    BY <1>12 DEF ReserveAttempt
  <2>5. f \notin doubtful => tries[item.tok] <= store[f].attempts
    BY <2>3 DEF CountInv, NoUncountedAttempt
  <2>6. item.tok \in Tokens /\ tries[item.tok] \in Nat
    BY <1>t, <1>w, <1>12 DEF ReserveAttempt, Holding
  <2>7. NoUncountedAttempt'
    BY <1>t, <2>2, <2>4 DEF CountInv, NoUncountedAttempt, Present
  <2>8. QED
    BY <1>t, <2>2, <2>3, <2>4, <2>5, <2>6, <2>7 DEF CountInv
<1>13. CASE ReleaseSuppressed
  <2>1. PICK f \in Families : f = item.fam
    BY <1>w, <1>13 DEF ReleaseSuppressed, Holding
  <2>2. pc = "attempt" /\ pc' = "release" /\ UNCHANGED <<fresh, held, doubtful, tries>>
    BY <1>13 DEF ReleaseSuppressed
  <2>3. CASE Queued(f)
    <3>1. /\ store[f].attempts = item.attempts /\ item.attempts >= 1
          /\ store'[f].tok = store[f].tok /\ store'[f].attempts = store[f].attempts - 1
          /\ \A g \in Families \ {f} : store'[g] = store[g]
      BY <1>t, <1>13, <2>1, <2>3
      DEF ReleaseSuppressed, Record, TypeInv, WorkerShape, Reserved
    <3>2. f \notin doubtful => store[f].tok = item.tok
          /\ tries[item.tok] < store[f].attempts
      BY <1>t, <2>1, <2>2, <3>1 DEF CountInv
    <3>3. tries[item.tok] \in Nat
      BY <1>t, <1>w, <2>2 DEF Holding
    <3>4. NoUncountedAttempt'
      BY <1>t, <2>2, <3>1, <3>2, <3>3 DEF CountInv, NoUncountedAttempt, Present
    <3>5. QED
      BY <2>2, <3>4 DEF CountInv
  <2>4. CASE ~ Queued(f)
    <3>1. store' = store
      BY <1>13, <2>1, <2>4 DEF ReleaseSuppressed
    <3>2. QED
      BY <1>1, <2>2, <3>1
  <2>5. QED
    BY <2>3, <2>4
<1>14. CASE Transmit
  <2>1. /\ pc = "attempt" /\ pc' = "answer"
        /\ tries' = [tries EXCEPT ![item.tok] = @ + 1]
        /\ UNCHANGED <<fresh, held, doubtful, store, item>>
    BY <1>14 DEF Transmit
  <2>2. item.fam \in Families /\ item.tok \in Tokens
    BY <1>w, <2>1 DEF Holding
  <2>3. /\ item.tok \notin fresh
        /\ \A g \in Families : store[g].tok = item.tok => g = item.fam
        /\ \A g \in Families : held[g] = item.tok => g \in doubtful
    BY <2>1 DEF CustodyInv, ItemToken, Holding
  <2>4. \A t \in Tokens : t # item.tok => tries'[t] = tries[t]
    BY <1>t, <2>1
  <2>5. tries'[item.tok] = tries[item.tok] + 1 /\ tries[item.tok] \in Nat
    BY <1>t, <2>1, <2>2
  <2>6. NoUncountedAttempt'
    <3>1. SUFFICES ASSUME NEW f \in Families, Present(f), f \notin doubtful
                   PROVE  tries'[store[f].tok] <= store[f].attempts
      BY <2>1 DEF NoUncountedAttempt, Present
    <3>2. CASE store[f].tok = item.tok
      <4>1. f = item.fam
        BY <2>3, <3>2
      <4>2. tries[item.tok] < store[f].attempts
        BY <2>1, <3>1, <3>2, <4>1 DEF CountInv
      <4>3. QED
        BY <1>t, <2>5, <3>2, <4>2
    <3>3. CASE store[f].tok # item.tok
      BY <1>t, <2>4, <3>1, <3>3 DEF CountInv, NoUncountedAttempt, Present
    <3>4. QED
      BY <3>2, <3>3
  <2>7. \A t \in fresh : tries'[t] = 0
    BY <1>t, <2>3, <2>4 DEF CountInv
  <2>8. \A f \in Families : held[f] # NoToken
        /\ f \notin doubtful => tries'[held[f]] = 0
    BY <1>t, <2>3, <2>4 DEF CountInv
  <2>9. QED
    BY <2>1, <2>6, <2>7, <2>8 DEF CountInv
<1>15. QED
  BY <1>2, <1>3, <1>4, <1>5, <1>6, <1>7, <1>8, <1>9, <1>10, <1>11, <1>12, <1>13, <1>14
  DEF Next, Environment, Worker

\* "A later status or token-store failure must never create an uncounted retry"
\* (remote_revocation.py): whatever fails between the writes, the durable record
\* counts every killtoken attempt that went out for its token.
THEOREM AttemptsAreCounted == Spec => []NoUncountedAttempt
<1>1. Init => CountInv
  BY DEF Init, CountInv, NoUncountedAttempt, Present, Absent
<1>2. CountInv => NoUncountedAttempt
  BY DEF CountInv
<1>3. QED
  BY <1>1, <1>2, TypeInvariant, OwnerInvariant, CustodyInvariant, StepCountInv, PTL
  DEF Spec

-------------------------------------------------------------------------------
(***************************************************************************)
(* Confirmations: the worker confirms what it holds, and the record still  *)
(* holds the same token unless a refresh wrote to it.                      *)
(***************************************************************************)
KilledInv ==
  /\ ConfirmedMeansKilled
  /\ pc \in Holding /\ item.fam \notin clobbered => store[item.fam].tok = item.tok
  /\ pc = "mark" /\ outcome = "confirmed_killed" /\ ~ Marked(item.fam) =>
       item.tok \in killed

LEMMA QuietOutcome ==
  ASSUME TypeInv, QuietStep, pc' = "mark", outcome' = "confirmed_killed"
  PROVE  \/ pc = "mark" /\ outcome = outcome' /\ item' = item
         \/ item' = item /\ item.tok \in killed
         \/ \E f \in Families : Take(f) /\ Marked(f)
<1> USE DEF workerVars, loginVars, ghostVars
<1>1. CASE \E f \in Families : Resume(f) \/ Expire(f) \/ Exhaust(f)
  BY <1>1 DEF Resume, Expire, Exhaust, ToTerminal
<1>2. CASE ~ \E f \in Families : Resume(f) \/ Expire(f) \/ Exhaust(f)
  BY <1>2
  DEF QuietStep, Tick, RetainLogin, BeginRefresh, AbandonRefresh, LoopFree, Begin,
      NothingDue, DeferToBreaker, PostponeSuppressed, ReserveQueue, ReserveAttempt,
      ReleaseSuppressed, ReleaseRefused, Transmit, MiniserverKills, Confirmed, Rejected,
      GiveUp, Failed, Suspend, MarkRefused, Acknowledge, Abort, Restart, Return, vars
<1>3. QED
  BY <1>1, <1>2

LEMMA StepKilledInv ==
  TypeInv /\ OwnerInv /\ CustodyInv /\ KilledInv /\ [Next]_vars => KilledInv'
<1> SUFFICES ASSUME TypeInv, OwnerInv, CustodyInv, KilledInv,
    [Next]_vars PROVE KilledInv'
  OBVIOUS
<1>w. pc \in Holding => item.fam \in Families
  BY DEF TypeInv, WorkerShape
<1> USE DEF workerVars, loginVars, ghostVars, Marked
<1>1. CASE QuietStep
  <2>1. \A f \in Families : store'[f].tok = store[f].tok
        /\ store'[f].outcome = store[f].outcome
    BY <1>1, QuietKeeps DEF Kept
  <2>2. killed \subseteq killed' /\ clobbered' = clobbered
    BY <1>1
    DEF QuietStep, Tick, RetainLogin, BeginRefresh, AbandonRefresh, Begin,
        NothingDue, DeferToBreaker, PostponeSuppressed, Resume, Expire, Exhaust,
        ToTerminal,
        ReserveQueue, ReserveAttempt, ReleaseSuppressed, ReleaseRefused, Transmit,
        MiniserverKills, Confirmed, Rejected, GiveUp, Failed, Suspend, MarkRefused,
        Acknowledge, Abort, Restart, vars
  <2>3. ConfirmedMeansKilled'
    BY <2>1, <2>2 DEF KilledInv, ConfirmedMeansKilled
  <2>4. pc' \in Holding =>
          /\ item'.fam \in Families
          /\ \/ item'.fam \in clobbered
             \/ store[item'.fam].tok = item'.tok
    <3>1. CASE pc' \in Holding => /\ pc \in Holding
                                  /\ item'.tok = item.tok /\ item'.fam = item.fam
      BY <1>w, <3>1 DEF KilledInv
    <3>2. ASSUME NEW f \in Families, Take(f)
          PROVE  item'.fam = f /\ item'.tok = store[f].tok
      BY <3>2 DEF Take
    <3>3. ASSUME NEW f \in Families, NEW t \in Tokens, RetainLogin(f, t)
          PROVE  pc' = pc /\ item' = item
      BY <3>3 DEF RetainLogin
    <3>4. ASSUME Restart PROVE pc' \notin Holding
      BY <3>4 DEF Restart, Return, Holding
    <3>5. QED
      BY <1>1, <1>w, <3>1, <3>2, <3>3, <3>4, QuietTokens DEF KilledInv
  <2>5. ASSUME pc' = "mark", outcome' = "confirmed_killed", ~ Marked(item.fam)'
        PROVE  item'.tok \in killed'
    <3>1. CASE pc = "mark" /\ outcome = outcome' /\ item' = item
      <4>1. item.fam \in Families
        BY <1>w, <3>1 DEF Holding
      <4>2. QED
        BY <2>1, <2>2, <2>5, <3>1, <4>1 DEF KilledInv
    <3>2. CASE item' = item /\ item.tok \in killed
      BY <2>2, <3>2
    <3>3. ASSUME NEW f \in Families, Take(f), Marked(f) PROVE FALSE
      BY <2>1, <2>5, <3>3 DEF Take
    <3>4. QED
      BY <1>1, <2>5, <3>1, <3>2, <3>3, QuietOutcome
  <2>6. QED
    BY <2>1, <2>2, <2>3, <2>4, <2>5 DEF KilledInv
<1>2. ASSUME NEW f \in Families, NEW t \in Tokens, NEW p \in BOOLEAN,
             store' = [store EXCEPT ![f] = Entry(t, p)], pc # "mark",
             UNCHANGED <<pc, item, outcome, killed>>, clobbered \subseteq clobbered',
             pc \in Holding /\ item.fam = f => f \in clobbered' \/ t = store[f].tok
      PROVE  KilledInv'
  <2>1. /\ store'[f].tok = t /\ store'[f].outcome = "none"
        /\ \A g \in Families : g # f => store'[g] = store[g]
    BY <1>2, PutEffect
  <2>2. ConfirmedMeansKilled'
    BY <1>2, <2>1 DEF KilledInv, ConfirmedMeansKilled
  <2>3. pc \in Holding /\ item.fam \notin clobbered' => store'[item.fam].tok = item.tok
    BY <1>2, <1>w, <2>1 DEF KilledInv
  <2>4. QED
    BY <1>2, <2>2, <2>3 DEF KilledInv
<1>3. ASSUME NEW f \in Families, NEW t \in Tokens, Issue(f, t) PROVE KilledInv'
  <2>1. /\ store' = [store EXCEPT ![f] = Entry(t, FALSE)] /\ pc # "mark"
        /\ UNCHANGED <<pc, item, outcome, killed, clobbered>> /\ family[f] = "new"
    BY <1>3 DEF Issue, LoopFree
  <2>2. pc \in Holding => item.fam # f
    BY <2>1 DEF OwnerInv
  <2>3. QED
    BY <1>2, <2>1, <2>2
<1>4. ASSUME NEW f \in Families, NEW t \in Tokens, RefreshPut(f, t) PROVE KilledInv'
  <2>1. /\ store' = [store EXCEPT ![f] = Entry(t, FALSE)] /\ pc # "mark"
        /\ UNCHANGED <<pc, item, outcome, killed>>
        /\ clobbered \subseteq clobbered' /\ (family[f] = "ended" => f \in clobbered')
    BY <1>4 DEF RefreshPut, LoopFree
  <2>2. pc \in Holding /\ item.fam = f => f \in clobbered'
    BY <2>1 DEF OwnerInv
  <2>3. QED
    BY <1>2, <2>1, <2>2
<1>5. ASSUME NEW f \in Families, QueueLogin(f) \/ QueueLoginDoubtful(f) PROVE KilledInv'
  <2>1. /\ store' = [store EXCEPT ![f] = Entry(held[f], TRUE)] /\ pc # "mark"
        /\ UNCHANGED <<pc, item, outcome, killed, clobbered>>
        /\ held[f] \in Tokens /\ held[f] # NoToken
    BY <1>5, Parameters DEF QueueLogin, QueueLoginDoubtful, LoopFree, TypeInv, TypeOK
  <2>2. pc \in Holding /\ item.fam = f => held[f] = store[f].tok
    BY <2>1 DEF OwnerInv, CustodyInv, HeldOnce
  <2>3. QED
    BY <1>2, <2>1, <2>2
<1>6. ASSUME NEW f \in Families, Schedule(f) PROVE KilledInv'
  <2>1. \A g \in Families : store'[g].tok = store[g].tok
        /\ store'[g].outcome = store[g].outcome
    BY <1>6, ScheduleEffect
  <2>2. UNCHANGED <<pc, item, outcome, killed, clobbered>>
    BY <1>6 DEF Schedule
  <2>3. ConfirmedMeansKilled'
    BY <2>1, <2>2 DEF KilledInv, ConfirmedMeansKilled
  <2>4. QED
    BY <1>w, <2>1, <2>2, <2>3 DEF KilledInv, Holding
<1>7. CASE Mark
  <2>1. UNCHANGED <<item, killed, clobbered>> /\ pc = "mark" /\ pc' = "ack"
    BY <1>7 DEF Mark
  <2>2. \A g \in Families : /\ store'[g].tok = store[g].tok
                            /\ g # item.fam => store'[g].outcome = store[g].outcome
    BY <1>7, MarkEffect
  <2>3. item.fam \in Families
        /\ (item.fam \notin clobbered => store[item.fam].tok = item.tok)
    BY <1>w, <2>1 DEF KilledInv, Holding
  <2>4. \/ store'[item.fam].outcome = store[item.fam].outcome
        \/ store'[item.fam].outcome = outcome /\ ~ Marked(item.fam)
    BY <1>7, MarkEffect
  <2>5. store'[item.fam].outcome = "confirmed_killed" /\ item.fam \notin clobbered =>
          store[item.fam].tok \in killed
    BY <2>1, <2>3, <2>4 DEF KilledInv, ConfirmedMeansKilled
  <2>6. ConfirmedMeansKilled'
    BY <2>1, <2>2, <2>5 DEF KilledInv, ConfirmedMeansKilled
  <2>7. QED
    BY <2>1, <2>2, <2>3, <2>6 DEF KilledInv
<1>8. CASE Complete
  <2>1. \A g \in Families : store'[g] = store[g] \/ store'[g].outcome = "none"
    BY <1>8, CompleteEffect DEF Absent
  <2>2. UNCHANGED <<killed, clobbered>> /\ pc' = "idle"
    BY <1>8 DEF Complete, Return
  <2>3. ConfirmedMeansKilled'
    BY <2>1, <2>2 DEF KilledInv, ConfirmedMeansKilled
  <2>4. QED
    BY <2>2, <2>3 DEF KilledInv, Holding
<1>9. QED
  BY <1>1, <1>3, <1>4, <1>5, <1>6, <1>7, <1>8, NextCases

\* A token the queue settles as confirmed_killed was invalidated by the
\* Miniserver, whatever passes stopped in between, except where a refresh put
\* replaced the record of an ended family.
THEOREM ConfirmationsAreTrue == Spec => []ConfirmedMeansKilled
<1>1. Init => KilledInv
  BY DEF Init, KilledInv, ConfirmedMeansKilled, Absent, Holding
<1>2. KilledInv => ConfirmedMeansKilled
  BY DEF KilledInv
<1>3. QED
  BY <1>1, <1>2, TypeInvariant, OwnerInvariant, CustodyInvariant, StepKilledInv, PTL
  DEF Spec

-------------------------------------------------------------------------------
(***************************************************************************)
(* Settling a token takes a marker, a count and a deletion in two files.   *)
(* The receipt makes it look like one step: RemoteRevocation implements    *)
(* RevocationLedger.                                                       *)
(***************************************************************************)

\* A marker is present with its receipt or not at all; the worker's copy of the
\* sidecar agrees with the file on what was counted.
ReceiptInv ==
  /\ ReceiptsUnique
  /\ \A f \in Families :
       IF Marked(f) THEN Queued(f) /\ store[f].receipt \in 1..receipts
                    ELSE store[f].receipt = 0
  /\ value.acked = status.acked /\ value.totals = status.totals
  /\ pc \in {"ack", "complete"} => Queued(item.fam) /\ Marked(item.fam)
  /\ pc = "ack" => outcome = store[item.fam].outcome
  /\ pc = "complete" => store[item.fam].receipt \in status.acked

\* Quiet steps other than Begin and Acknowledge leave what was counted alone.
LEMMA QuietSidecar ==
  ASSUME TypeInv, ReceiptInv, QuietStep, ~ Begin, ~ Acknowledge
  PROVE  /\ status'.acked = status.acked /\ status'.totals = status.totals
         /\ value'.acked = status.acked /\ value'.totals = status.totals
         /\ receipts' = receipts
         /\ pc' \in {"ack", "complete"} => UNCHANGED <<pc, item, outcome>>
<1>1. status \in Sidecar /\ value \in Sidecar
      /\ value.acked = status.acked /\ value.totals = status.totals
  BY DEF TypeInv, TypeOK, ReceiptInv
<1> USE DEF workerVars, loginVars, ghostVars
<1>2. CASE \/ Tick \/ UNCHANGED vars \/ Transmit \/ MiniserverKills \/ ReserveAttempt
           \/ ReleaseSuppressed
           \/ \E f \in Families : BeginRefresh(f) \/ AbandonRefresh(f)
           \/ \E f \in Families : \E t \in Tokens : RetainLogin(f, t)
  BY <1>1, <1>2
  DEF Tick, vars, Transmit, MiniserverKills, ReserveAttempt, ReleaseSuppressed,
     BeginRefresh, AbandonRefresh, RetainLogin
<1>3. CASE NothingDue \/ ReleaseRefused \/ Suspend \/ MarkRefused \/ Abort \/ Restart
  BY <1>1, <1>3
  DEF NothingDue, ReleaseRefused, Suspend, MarkRefused, Abort, Restart, Return
<1>4. CASE \E d \in BreakerDelays : DeferToBreaker(d) \/ PostponeSuppressed(d)
  <2>1. PICK n : status' = [value EXCEPT !.notBefore = n] /\ Return
        /\ receipts' = receipts
    BY <1>4 DEF DeferToBreaker, PostponeSuppressed
  <2>2. QED
    BY <1>1, <2>1 DEF Return, Sidecar
<1>5. CASE \E f \in Families : Resume(f) \/ Expire(f) \/ Exhaust(f)
  BY <1>1, <1>5 DEF Resume, Expire, Exhaust, ToTerminal
<1>6. CASE Failed \/ \E f \in Families : ReserveQueue(f)
  <2>1. PICK n : status' = [value EXCEPT !.notBefore = n] /\ value' = status'
                 /\ receipts' = receipts /\ pc' \in {"suspend", "reserve"}
    BY <1>6 DEF Failed, ReserveQueue
  <2>2. QED
    BY <1>1, <2>1 DEF Sidecar
<1>7. CASE Confirmed \/ Rejected \/ GiveUp
  <2>1. PICK k, n : \/ value' = [value EXCEPT !.notBefore = n]
                    \/ value' = [value EXCEPT !.streak = k, !.notBefore = n]
    BY <1>7 DEF Confirmed, Rejected, GiveUp
  <2>2. status' = status /\ receipts' = receipts /\ pc' = "mark"
    BY <1>7 DEF Confirmed, Rejected, GiveUp
  <2>3. QED
    BY <1>1, <2>1, <2>2 DEF Sidecar
<1>8. QED
  BY <1>2, <1>3, <1>4, <1>5, <1>6, <1>7 DEF QuietStep

LEMMA PutSidecar ==
  ASSUME \/ \E f \in Families : \E t \in Tokens : Issue(f, t) \/ RefreshPut(f, t)
         \/ \E f \in Families : QueueLogin(f) \/ QueueLoginDoubtful(f) \/ Schedule(f)
  PROVE  UNCHANGED <<status, value, receipts, pc, item, outcome>>
  BY DEF Issue, RefreshPut, QueueLogin, QueueLoginDoubtful, Schedule, workerVars,
     loginVars

LEMMA AcknowledgeEffect ==
  ASSUME TypeInv, ReceiptInv, Acknowledge
  PROVE  /\ item.fam \in Families /\ outcome \in Outcomes
         /\ IF store[item.fam].receipt \in status.acked
            THEN status' = status
            ELSE /\ status'.acked = status.acked \cup {store[item.fam].receipt}
                 /\ status'.totals = [status.totals EXCEPT ![outcome] = @ + 1]
         /\ store' = store /\ value' = status'
<1>1. status \in Sidecar /\ value \in Sidecar
      /\ value.acked = status.acked /\ value.totals = status.totals
  BY DEF TypeInv, TypeOK, ReceiptInv
<1>2. item.fam \in Families /\ outcome \in Outcomes
  BY DEF TypeInv, WorkerShape, Holding, Acknowledge
<1>3. CASE store[item.fam].receipt \in status.acked
  BY <1>1, <1>2, <1>3 DEF Acknowledge
<1>4. CASE store[item.fam].receipt \notin status.acked
  <2>1. status' = [value EXCEPT !.acked = @ \cup {store[item.fam].receipt},
                                !.totals[outcome] = @ + 1]
    BY <1>1, <1>4 DEF Acknowledge
  <2>2. QED
    BY <1>1, <1>2, <1>4, <2>1 DEF Acknowledge, Sidecar
<1>5. QED
  BY <1>3, <1>4

LEMMA BeginEffect ==
  ASSUME TypeInv, Begin
  PROVE  /\ status'.acked = status.acked \cap PendingReceipts
         /\ status'.totals = status.totals
         /\ value' = status' /\ pc' = "gate"
         /\ UNCHANGED <<store, receipts>>
  BY DEF TypeInv, TypeOK, Begin, Sidecar

-------------------------------------------------------------------------------
LEMMA StepReceiptInv ==
  TypeInv /\ TypeInv' /\ OwnerInv /\ ReceiptInv /\ [Next]_vars => ReceiptInv'
<1> SUFFICES ASSUME TypeInv, TypeInv', OwnerInv, ReceiptInv,
    [Next]_vars PROVE ReceiptInv'
  OBVIOUS
<1>n. receipts \in Nat /\ status.acked \subseteq Nat
  BY SidecarFields DEF TypeInv, TypeOK
<1>w. pc \in {"ack", "complete"} => item.fam \in Families
  BY DEF TypeInv, WorkerShape, Holding
<1>1. CASE QuietStep
  <2>1. \A f \in Families : /\ Marked(f)' = Marked(f) /\ Queued(f)' = Queued(f)
                            /\ store'[f].receipt = store[f].receipt
                            /\ store'[f].outcome = store[f].outcome
    BY <1>1, QuietKeeps DEF Kept, Present, Queued, Marked
  <2>2. CASE ~ Begin /\ ~ Acknowledge
    BY <1>1, <1>w, <2>1, <2>2, QuietSidecar DEF ReceiptInv, ReceiptsUnique
  <2>3. CASE Begin
    BY <1>w, <2>1, <2>3, BeginEffect DEF ReceiptInv, ReceiptsUnique
  <2>4. CASE Acknowledge
    <3>1. store[item.fam].receipt \in 1..receipts /\ Queued(item.fam)
          /\ Marked(item.fam)
      BY <1>w, <2>4 DEF Acknowledge, ReceiptInv
    <3>2. store[item.fam].receipt \in status'.acked
          /\ status'.acked \subseteq 1..receipts
      BY <2>4, <3>1, AcknowledgeEffect DEF ReceiptInv, ReceiptsUnique
    <3>3. receipts' = receipts /\ pc' = "complete" /\ item' = item /\ value' = status'
      BY <2>4 DEF Acknowledge
    <3>4. QED
      BY <1>w, <2>1, <2>4, <3>1, <3>2, <3>3 DEF ReceiptInv, ReceiptsUnique, Acknowledge
  <2>5. QED
    BY <2>2, <2>3, <2>4
<1>2. ASSUME NEW f \in Families, NEW t \in Tokens, NEW p \in BOOLEAN,
             store' = [store EXCEPT ![f] = Entry(t, p)],
             UNCHANGED <<status, value, receipts, pc, item, outcome>>,
             pc \notin {"ack", "complete"}
      PROVE  ReceiptInv'
  <2>1. \A g \in Families \ {f} : /\ Marked(g)' = Marked(g) /\ Queued(g)' = Queued(g)
                                  /\ store'[g].receipt = store[g].receipt
    BY <1>2, PutEffect DEF Present, Queued, Marked
  <2>2. ~ Marked(f)' /\ store'[f].receipt = 0
    BY <1>2, PutEffect DEF Marked
  <2>3. QED
    BY <1>2, <2>1, <2>2 DEF ReceiptInv, ReceiptsUnique
<1>3. ASSUME NEW f \in Families, NEW t \in Tokens, Issue(f, t) \/ RefreshPut(f, t)
      PROVE  ReceiptInv'
  <2>1. store' = [store EXCEPT ![f] = Entry(t, FALSE)] /\ pc \notin {"ack", "complete"}
    BY <1>3 DEF Issue, RefreshPut, LoopFree
  <2>2. QED
    BY <1>2, <1>3, <2>1, PutSidecar
<1>4. ASSUME NEW f \in Families, QueueLogin(f) \/ QueueLoginDoubtful(f)
      PROVE  ReceiptInv'
  <2>1. /\ store' = [store EXCEPT ![f] = Entry(held[f], TRUE)]
        /\ held[f] \in Tokens
        /\ pc \notin {"ack", "complete"}
    BY <1>4 DEF QueueLogin, QueueLoginDoubtful, LoopFree, TypeInv, TypeOK
  <2>2. QED
    BY <1>2, <1>4, <2>1, PutSidecar
<1>5. ASSUME NEW f \in Families, Schedule(f) PROVE ReceiptInv'
  <2>1. \A g \in Families : /\ Marked(g)' = Marked(g)
                            /\ Queued(g) => Queued(g)'
                            /\ store'[g].receipt = store[g].receipt
                            /\ store'[g].outcome = store[g].outcome
    BY <1>5, ScheduleEffect DEF Present, Queued, Marked
  <2>2. QED
    BY <1>5, <1>w, <2>1, PutSidecar DEF ReceiptInv, ReceiptsUnique
<1>6. CASE Mark
  <2>1. /\ pc' = "ack" /\ status' = status /\ value' = value /\ item' = item
        /\ Queued(item.fam) /\ item.fam \in Families /\ outcome \in Outcomes
    BY <1>6 DEF Mark, TypeInv, WorkerShape, Holding
  <2>2. CASE Marked(item.fam)
    BY <1>6, <2>1, <2>2, MarkEffect
    DEF ReceiptInv, ReceiptsUnique, Marked, Queued, Present
  <2>3. CASE ~ Marked(item.fam)
    <3>1. \A g \in Families \ {item.fam} :
            /\ Marked(g)' = Marked(g) /\ Queued(g)' = Queued(g)
            /\ store'[g].receipt = store[g].receipt
      BY <1>6, MarkEffect DEF Present, Queued, Marked
    <3>2. /\ Marked(item.fam)' /\ Queued(item.fam)' /\ receipts' = receipts + 1
          /\ store'[item.fam].receipt = receipts + 1
          /\ outcome' = store'[item.fam].outcome
      BY <1>6, <2>1, <2>3, MarkEffect DEF Marked, Queued, Present, Outcomes
    <3>3. \A r \in 1..receipts : r \in 1..receipts' /\ r # receipts + 1
      BY <1>n, <3>2
    <3>4. receipts + 1 \in 1..receipts' /\ receipts + 1 # 0
      BY <1>n, <3>2
    <3>5. ReceiptsUnique'
      BY <1>n, <2>1, <3>1, <3>2, <3>3, <3>4 DEF ReceiptInv, ReceiptsUnique
    <3>6. QED
      BY <2>1, <3>1, <3>2, <3>3, <3>4, <3>5 DEF ReceiptInv
  <2>4. QED
    BY <2>2, <2>3
<1>7. CASE Complete
  <2>1. PICK f \in Families : f = item.fam
    BY <1>7, CompleteEffect
  <2>2. \A g \in Families \ {f} :
          /\ Marked(g)' = Marked(g) /\ Queued(g)' = Queued(g)
          /\ store'[g].receipt = store[g].receipt
    BY <1>7, <2>1, CompleteEffect DEF Present, Queued, Marked
  <2>3. ~ Marked(f)' /\ store'[f].receipt = 0
    BY <1>7, <2>1, CompleteEffect DEF Marked, Absent
  <2>4. pc' = "idle" /\ status' = status /\ value' = status' /\ receipts' = receipts
    BY <1>7 DEF Complete, Return
  <2>5. QED
    BY <2>1, <2>2, <2>3, <2>4 DEF ReceiptInv, ReceiptsUnique
<1>8. QED
  BY <1>1, <1>3, <1>4, <1>5, <1>6, <1>7, NextCases

LEMMA ReceiptInvariant == Spec => []ReceiptInv
<1>1. Init => ReceiptInv
  BY DEF Init, ReceiptInv, ReceiptsUnique, Marked, Absent
<1>2. QED
  BY <1>1, TypeInvariant, OwnerInvariant, StepReceiptInv, PTL DEF Spec

\* The receipt of an outcome (remote_revocation.py, _terminal) counts it once.
THEOREM ReceiptsAreUnique == Spec => []ReceiptsUnique
<1>1. ReceiptInv => ReceiptsUnique
  BY DEF ReceiptInv
<1>2. QED
  BY <1>1, ReceiptInvariant, PTL

-------------------------------------------------------------------------------
LEMMA StepOutcomeFinal ==
  ASSUME TypeInv, TypeInv', OwnerInv, ReceiptInv, [Next]_vars,
         NEW f \in Families, Marked(f), Present(f)', store'[f].receipt # 0
  PROVE  store'[f].outcome = store[f].outcome /\ store'[f].receipt = store[f].receipt
<1>1. CASE QuietStep
  BY <1>1, QuietKeeps DEF Kept
<1>2. ASSUME NEW g \in Families, NEW t \in Tokens, Issue(g, t) \/ RefreshPut(g, t)
      PROVE  store'[f].outcome = store[f].outcome
      /\ store'[f].receipt = store[f].receipt
  <2>1. store' = [store EXCEPT ![g] = Entry(t, FALSE)]
    BY <1>2 DEF Issue, RefreshPut
  <2>2. QED
    BY <2>1, PutEffect
<1>3. ASSUME NEW g \in Families, QueueLogin(g) \/ QueueLoginDoubtful(g)
      PROVE  store'[f].outcome = store[f].outcome
      /\ store'[f].receipt = store[f].receipt
  <2>1. store' = [store EXCEPT ![g] = Entry(held[g], TRUE)] /\ held[g] \in Tokens
    BY <1>3 DEF QueueLogin, QueueLoginDoubtful, TypeInv, TypeOK
  <2>2. QED
    BY <2>1, PutEffect
<1>4. ASSUME NEW g \in Families, Schedule(g)
      PROVE  store'[f].outcome = store[f].outcome
      /\ store'[f].receipt = store[f].receipt
  BY <1>4, ScheduleEffect
<1>5. CASE Mark
  BY <1>5, MarkEffect
<1>6. CASE Complete
  BY <1>6, CompleteEffect DEF Present, Absent
<1>7. QED
  BY <1>1, <1>2, <1>3, <1>4, <1>5, <1>6, NextCases

\* A settled outcome is never replaced (mark_remote_revoke_terminal keeps an
\* earlier marker), however often passes stop and resume.
THEOREM OutcomesAreFinal == Spec => OutcomeIsFinal
<1>1. TypeInv /\ TypeInv' /\ OwnerInv /\ ReceiptInv /\ [Next]_vars =>
        [\A f \in Families :
           Marked(f) /\ Present(f)' /\ store'[f].receipt # 0 =>
             /\ store'[f].outcome = store[f].outcome
             /\ store'[f].receipt = store[f].receipt]_vars
  BY StepOutcomeFinal
<1>2. QED
  BY <1>1, TypeInvariant, OwnerInvariant, ReceiptInvariant, PTL DEF Spec, OutcomeIsFinal

-------------------------------------------------------------------------------
\* The ledger's view of the two files.
QueuedSet  == {f \in Families : Queued(f)}
CountedSet == {f \in Families : Queued(f) /\ Marked(f)
/\ store[f].receipt \in status.acked}
WriterSet  == refreshing \cup {f \in Families : held[f] # NoToken}

\* What a ledger step does, in terms of that view.
LEMMA LedgerCases ==
  ASSUME \/ UNCHANGED <<QueuedSet, CountedSet, status.totals, WriterSet>>
         \/ \E f \in Families :
              /\ QueuedSet' = QueuedSet \cup {f}
              /\ UNCHANGED <<CountedSet, status.totals, WriterSet>>
         \/ \E f \in Families, o \in Outcomes :
              /\ f \in QueuedSet \ CountedSet
              /\ CountedSet' = CountedSet \cup {f}
              /\ status'.totals = [status.totals EXCEPT ![o] = @ + 1]
              /\ UNCHANGED <<QueuedSet, WriterSet>>
         \/ \E f \in Families :
              /\ f \in CountedSet
              /\ QueuedSet' = QueuedSet \ {f} /\ CountedSet' = CountedSet \ {f}
              /\ UNCHANGED <<status.totals, WriterSet>>
         \/ \E f \in Families :
              /\ f \in WriterSet
              /\ QueuedSet' \in {QueuedSet \ {f}, QueuedSet \cup {f}}
              /\ CountedSet' = CountedSet \ {f}
              /\ WriterSet' \in {WriterSet, WriterSet \ {f}}
              /\ UNCHANGED status.totals
         \/ \E f \in Families :
              /\ WriterSet' = WriterSet \cup {f}
              /\ UNCHANGED <<QueuedSet, CountedSet, status.totals>>
         \/ /\ WriterSet' \in SUBSET WriterSet
            /\ UNCHANGED <<QueuedSet, CountedSet, status.totals>>
  PROVE  [Ledger!Next]_(Ledger!vars)
  BY DEF QueuedSet, CountedSet, WriterSet, Ledger!Next, Ledger!vars, Ledger!Enqueue,
     Ledger!Settle, Ledger!Remove, Ledger!Overwrite, Ledger!OpenWriter,
     Ledger!CloseWriters

\* Two records that are alike but for attempts and delays look alike.
LEMMA SameView ==
  ASSUME \A f \in Families : Kept(f)
  PROVE  /\ QueuedSet' = QueuedSet
         /\ status'.acked = status.acked => CountedSet' = CountedSet
  BY DEF Kept, QueuedSet, CountedSet, Queued, Present, Marked

LEMMA QuietLedger ==
  ASSUME TypeInv, OwnerInv, ReceiptInv, QuietStep
  PROVE  [Ledger!Next]_(Ledger!vars)
<1>k. \A f \in Families : Kept(f)
  BY QuietKeeps
<1> USE DEF workerVars, loginVars, ghostVars
<1>1. CASE Begin
  <2>1. /\ status'.acked = status.acked \cap PendingReceipts
        /\ status'.totals = status.totals
    BY <1>1, BeginEffect
  <2>2. \A f \in Families : Queued(f)
        /\ Marked(f) => store[f].receipt \in PendingReceipts
    BY DEF PendingReceipts
  <2>3. CountedSet' = CountedSet
    BY <1>k, <2>1, <2>2 DEF CountedSet, Kept, Queued, Present, Marked
  <2>4. UNCHANGED <<QueuedSet, WriterSet>>
    BY <1>1, <1>k, SameView DEF Begin, WriterSet
  <2>5. QED
    BY <2>1, <2>3, <2>4, LedgerCases
<1>2. CASE Acknowledge
  <2>1. UNCHANGED <<QueuedSet, WriterSet>>
    BY <1>2, <1>k, SameView DEF Acknowledge, WriterSet
  <2>2. PICK f \in Families, o \in Outcomes : f = item.fam /\ o = outcome
    BY <1>2, AcknowledgeEffect
  <2>3. Queued(f) /\ Marked(f) /\ store' = store
    BY <1>2, <2>2 DEF Acknowledge, ReceiptInv
  <2>4. CASE store[f].receipt \in status.acked
    <3>1. status' = status
      BY <1>2, <2>2, <2>4, AcknowledgeEffect
    <3>2. CountedSet' = CountedSet
      BY <1>k, <3>1, SameView
    <3>3. QED
      BY <2>1, <3>1, <3>2, LedgerCases
  <2>5. CASE store[f].receipt \notin status.acked
    <3>1. /\ status'.acked = status.acked \cup {store[f].receipt}
          /\ status'.totals = [status.totals EXCEPT ![o] = @ + 1]
      BY <1>2, <2>2, <2>5, AcknowledgeEffect
    <3>2. \A g \in Families : Marked(g) /\ store[g].receipt = store[f].receipt => g = f
      BY DEF ReceiptInv, ReceiptsUnique
    <3>3. CountedSet' = CountedSet \cup {f}
      BY <2>3, <3>1, <3>2 DEF CountedSet, Queued, Present, Marked
    <3>4. f \in QueuedSet \ CountedSet
      BY <2>3, <2>5 DEF QueuedSet, CountedSet
    <3>5. QED
      BY <2>1, <3>1, <3>3, <3>4, LedgerCases
  <2>6. QED
    BY <2>4, <2>5
<1>3. CASE ~ Begin /\ ~ Acknowledge
  <2>1. /\ UNCHANGED <<QueuedSet, CountedSet>>
        /\ status'.totals = status.totals
    BY <1>3, <1>k, QuietSidecar, SameView
  <2>2. \/ \E f \in Families : WriterSet' = WriterSet \cup {f}
        \/ WriterSet' \in SUBSET WriterSet
    <3>1. CASE \E f \in Families : \E t \in Tokens : RetainLogin(f, t)
      <4>1. PICK f \in Families : \E t \in Tokens : RetainLogin(f, t)
        BY <3>1
      <4>2. PICK t \in Tokens : RetainLogin(f, t)
        BY <4>1
      <4>3. held' = [held EXCEPT ![f] = t] /\ refreshing' = refreshing /\ t # NoToken
        BY <4>2, Parameters DEF RetainLogin
      <4>4. held \in [Families -> Tokens \cup {NoToken}]
        BY DEF TypeInv, TypeOK
      <4>5. WriterSet' = WriterSet \cup {f}
        BY <4>3, <4>4 DEF WriterSet
      <4>6. QED
        BY <4>5
    <3>2. CASE \E f \in Families : BeginRefresh(f)
      BY <3>2 DEF BeginRefresh, WriterSet
    <3>3. CASE \E f \in Families : AbandonRefresh(f)
      BY <3>3 DEF AbandonRefresh, WriterSet
    <3>4. CASE Restart
      BY <3>4 DEF Restart, WriterSet
    <3>5. CASE UNCHANGED <<held, refreshing>>
      BY <3>5 DEF WriterSet
    <3>6. QED
      BY <1>3, <3>1, <3>2, <3>3, <3>4, <3>5
      DEF QuietStep, Tick, NothingDue, DeferToBreaker, PostponeSuppressed, Resume,
          Expire,
          Exhaust, ToTerminal, ReserveQueue, ReserveAttempt, ReleaseSuppressed,
          ReleaseRefused, Transmit, MiniserverKills, Confirmed, Rejected, GiveUp,
          Failed,
          Suspend, MarkRefused, Abort, vars
  <2>3. QED
    BY <2>1, <2>2, LedgerCases
<1>4. QED
  BY <1>1, <1>2, <1>3

LEMMA StepLedger ==
  TypeInv /\ OwnerInv /\ ReceiptInv /\ [Next]_vars => [Ledger!Next]_(Ledger!vars)
<1> SUFFICES ASSUME TypeInv, OwnerInv, ReceiptInv, [Next]_vars
             PROVE  [Ledger!Next]_(Ledger!vars)
  OBVIOUS
<1>h. held \in [Families -> Tokens \cup {NoToken}] /\ refreshing \subseteq Families
  BY DEF TypeInv, TypeOK
<1>1. CASE QuietStep
  BY <1>1, QuietLedger
<1>2. ASSUME NEW f \in Families, NEW t \in Tokens, Issue(f, t)
      PROVE  [Ledger!Next]_(Ledger!vars)
  <2>1. store' = [store EXCEPT ![f] = Entry(t, FALSE)] /\ status' = status
        /\ UNCHANGED WriterSet /\ ~ Queued(f)
    BY <1>2, PutSidecar DEF Issue, WriterSet, OwnerInv, Queued
  <2>2. UNCHANGED <<QueuedSet, CountedSet>>
    BY ZenonT(60), <2>1, PutEffect DEF QueuedSet, CountedSet, Queued, Present, Marked
  <2>3. QED
    BY <2>1, <2>2, LedgerCases
<1>3. ASSUME NEW f \in Families, NEW t \in Tokens, NEW p \in BOOLEAN,
             store' = [store EXCEPT ![f] = Entry(t, p)], status' = status,
             f \in WriterSet, WriterSet' \in {WriterSet, WriterSet \ {f}}
      PROVE  [Ledger!Next]_(Ledger!vars)
  <2>1. QueuedSet' \in {QueuedSet \ {f}, QueuedSet \cup {f}}
    <3>1. \A g \in Families \ {f} : Queued(g)' = Queued(g)
      BY <1>3, PutEffect DEF Queued, Present
    <3>2. QED
      BY <3>1 DEF QueuedSet
  <2>2. CountedSet' = CountedSet \ {f}
    <3>1. ~ Marked(f)'
      BY <1>3, PutEffect DEF Marked
    <3>2. \A g \in Families \ {f} : store'[g] = store[g]
      BY <1>3, PutEffect
    <3>3. QED
      BY <1>3, <3>1, <3>2 DEF CountedSet, Queued, Present, Marked
  <2>3. QED
    BY <1>3, <2>1, <2>2, LedgerCases
<1>4. ASSUME NEW f \in Families, NEW t \in Tokens, RefreshPut(f, t)
      PROVE  [Ledger!Next]_(Ledger!vars)
  <2>1. store' = [store EXCEPT ![f] = Entry(t, FALSE)] /\ status' = status
    BY <1>4, PutSidecar DEF RefreshPut
  <2>2. f \in WriterSet /\ WriterSet' \in {WriterSet, WriterSet \ {f}}
    BY <1>4 DEF RefreshPut, WriterSet
  <2>3. QED
    BY <1>3, <2>1, <2>2
<1>5. ASSUME NEW f \in Families, QueueLogin(f) \/ QueueLoginDoubtful(f)
      PROVE  [Ledger!Next]_(Ledger!vars)
  <2>1. store' = [store EXCEPT ![f] = Entry(held[f], TRUE)] /\ status' = status
        /\ held[f] \in Tokens
    BY <1>5, <1>h, PutSidecar DEF QueueLogin, QueueLoginDoubtful
  <2>2. f \in WriterSet /\ WriterSet' \in {WriterSet, WriterSet \ {f}}
    BY <1>5, <1>h, ZenonT(60) DEF QueueLogin, QueueLoginDoubtful, WriterSet, loginVars
  <2>3. QED
    BY <1>3, <2>1, <2>2
<1>6. ASSUME NEW f \in Families, Schedule(f) PROVE [Ledger!Next]_(Ledger!vars)
  <2>1. status' = status /\ UNCHANGED WriterSet /\ Present(f)
    BY <1>6, PutSidecar DEF Schedule, WriterSet
  <2>2. QueuedSet' = QueuedSet \cup {f}
    BY <1>6, <2>1, ScheduleEffect, ZenonT(60) DEF QueuedSet, Queued, Present
  <2>3. CountedSet' = CountedSet
    <3>1. \A g \in Families : Marked(g) => Queued(g)
      BY DEF ReceiptInv
    <3>2. \A g \in Families \ {f} : store'[g] = store[g]
      BY <1>6, ScheduleEffect
    <3>3. /\ Marked(f)' = Marked(f) /\ Queued(f)'
          /\ store'[f].receipt = store[f].receipt
      BY <1>6, <2>1, ScheduleEffect DEF Marked, Queued, Present
    <3>4. QED
      BY <2>1, <3>1, <3>2, <3>3 DEF CountedSet, Queued, Present, Marked
  <2>4. QED
    BY <2>1, <2>2, <2>3, LedgerCases
<1>7. CASE Mark
  <2>1. status' = status /\ UNCHANGED WriterSet
    BY <1>7 DEF Mark, WriterSet, loginVars
  <2>2. QueuedSet' = QueuedSet
    BY <1>7, MarkEffect DEF QueuedSet, Queued, Present
  <2>3. CountedSet' = CountedSet
    <3>1. CASE Marked(item.fam)
      <4>1. store' = store
        BY <1>7, <3>1, MarkEffect
      <4>2. QED
        BY <2>1, <4>1 DEF CountedSet, Queued, Present, Marked
    <3>2. CASE ~ Marked(item.fam)
      <4>1. PICK f \in Families : f = item.fam
        BY <1>7, MarkEffect
      <4>2. store'[f].receipt = receipts + 1
            /\ \A g \in Families \ {f} : store'[g] = store[g]
        BY <1>7, <3>2, <4>1, MarkEffect
      <4>3. receipts + 1 \notin status.acked
        BY DEF ReceiptInv, ReceiptsUnique, TypeInv, TypeOK
      <4>4. QED
        BY <2>1, <3>2, <4>1, <4>2, <4>3 DEF CountedSet, Queued, Present, Marked
    <3>3. QED
      BY <3>1, <3>2
  <2>4. QED
    BY <2>1, <2>2, <2>3, LedgerCases
<1>8. CASE Complete
  <2>1. PICK f \in Families : f = item.fam
    BY <1>8, CompleteEffect
  <2>2. status' = status /\ UNCHANGED WriterSet /\ pc = "complete"
    BY <1>8 DEF Complete, WriterSet, loginVars
  <2>3. f \in CountedSet
    BY <2>1, <2>2 DEF ReceiptInv, CountedSet
  <2>4. store'[f] = Absent /\ \A g \in Families \ {f} : store'[g] = store[g]
    BY <1>8, <2>1, CompleteEffect
  <2>5. QueuedSet' = QueuedSet \ {f}
    BY <2>4 DEF QueuedSet, Queued, Present, Absent
  <2>6. CountedSet' = CountedSet \ {f}
    BY <2>2, <2>4 DEF CountedSet, Queued, Present, Marked, Absent
  <2>7. QED
    BY <2>2, <2>3, <2>5, <2>6, LedgerCases
<1>9. QED
  BY <1>1, <1>2, <1>4, <1>5, <1>6, <1>7, <1>8, NextCases

\* The worker with its two files implements the ledger: settling a token looks
\* atomic, and only a settled token, or one an outstanding put replaces, leaves
\* the queue.
THEOREM ImplementsLedger == Spec => LedgerSpec
<1>1. Init => Ledger!Init
  BY DEF Init, Ledger!Init, Queued, Present, Marked, Absent
<1>2. QED
  BY <1>1, TypeInvariant, OwnerInvariant, ReceiptInvariant, StepLedger, PTL
  DEF Spec, LedgerSpec, Ledger!Spec
===============================================================================
