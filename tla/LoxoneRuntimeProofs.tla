-------------------------- MODULE LoxoneRuntimeProofs --------------------------
(***************************************************************************)
(* Theorems about LoxoneRuntime.                                           *)
(***************************************************************************)
EXTENDS LoxoneRuntime, FiniteSetTheorems, TLAPS

-------------------------------------------------------------------------------
(***************************************************************************)
(* 1. Types.                                                               *)
(***************************************************************************)

LEMMA InitTypeOK == Init => TypeOK
  BY Parameters DEF Init, TypeOK, CacheStates, ConnStates, PCs

\* Taking a family's record, and giving its lock back.
LEMMA PopTypes ==
  ASSUME TypeOK, NEW f \in Families, NEW h \in Requests \cup {"revoke", "close"}, Pop(f, h)
  PROVE  /\ records' \in [Families -> Requests \cup {None}]
         /\ lock' \in [Families -> Requests \cup {"free", "revoke", "close"}]
         /\ cut' \in [Families -> Requests \cup {None}]
         /\ cache' \in [Families -> CacheStates]
  BY DEF TypeOK, Pop, CacheStates

LEMMA DrainedTypes ==
  ASSUME TypeOK, NEW f \in Families, Drained(f)
  PROVE  /\ lock' \in [Families -> Requests \cup {"free", "revoke", "close"}]
         /\ cut' \in [Families -> Requests \cup {None}]
         /\ cache' \in [Families -> CacheStates]
  BY DEF TypeOK, Drained, CacheStates

LEMMA StepTypeOK == TypeOK /\ [Next]_vars => TypeOK'
  <1> SUFFICES ASSUME TypeOK, [Next]_vars PROVE TypeOK'
    OBVIOUS
  <1> USE DEF vars, requestVars, streamVars, lockVars, endVars
  <1>1. ASSUME NEW r \in Requests,
               \/ Enter(r) \/ Admit(r) \/ Pruned(r) \/ Leave(r)
               \/ \E g \in Families : Evict(r, g)
        PROVE  TypeOK'
    BY <1>1 DEF TypeOK, Enter, Admit, Pruned, Leave, Evict, Go, PCs, Admitted, Connecting,
       Others, Unusable, HasRecord, Connected
  <1>2. ASSUME NEW r \in Requests, EvictPop(r) \/ EvictDrained(r)
        PROVE  TypeOK'
    <2>1. target[r] \in Families
      BY <1>2 DEF EvictPop, EvictDrained, TypeOK
    <2>2. CASE EvictPop(r)
      BY <2>1, <2>2, PopTypes DEF EvictPop, TypeOK, Go, PCs, Admitted, Connecting
    <2>3. CASE EvictDrained(r)
      BY <2>1, <2>3, DrainedTypes DEF EvictDrained, TypeOK, Go, PCs, Admitted, Connecting
    <2>4. QED
      BY <1>2, <2>2, <2>3
  <1>3. ASSUME NEW r \in Requests,
               \/ Lock(r) \/ Opened(r) \/ OpenFails(r) \/ Loaded(r) \/ LoadFails(r) \/ Aborted(r)
        PROVE  TypeOK'
    BY <1>3 DEF TypeOK, Lock, Opened, OpenFails, Loaded, LoadFails, Aborted, Go, Release,
       PCs, Admitted, Connecting, CacheStates, ConnStates
  <1>4. ASSUME NEW r \in Requests,
               \/ Ready(r) \/ NotReady(r) \/ CloseUnstarted(r) \/ Unwound(r) \/ Refused(r)
        PROVE  TypeOK'
    BY <1>4 DEF TypeOK, Ready, NotReady, CloseUnstarted, Unwound, Refused, Go, Release,
       PCs, Admitted, Connecting, CacheStates, ConnStates
  <1>5. ASSUME NEW r \in Requests, Serve(r) \/ RefreshStart(r) \/ RefreshEnd(r)
        PROVE  TypeOK'
    BY <1>5 DEF TypeOK, Serve, RefreshStart, RefreshEnd, Go, PCs, Admitted, Connecting,
       CacheStates
  <1>6. ASSUME NEW c \in Requests, Task(c)
        PROVE  TypeOK'
    BY <1>6 DEF TypeOK, Task, Start, Event, Stop, Renew, Renewed, Close, Stream,
       CacheStates, ConnStates
  <1>7. ASSUME NEW f \in Families, Revocation(f)
        PROVE  TypeOK'
    <2>1. CASE EndGrant(f) \/ LateNotice(f)
      <3>1. CASE EndGrant(f)
        <4>1. grant' \in [Families -> BOOLEAN]
          BY <3>1 DEF TypeOK, EndGrant
        <4>2. notice' \in [Families -> {"none", "asked", "draining", "done"}]
          BY <3>1 DEF TypeOK, EndGrant
        <4>3. QED
          BY <3>1, <4>1, <4>2 DEF TypeOK, EndGrant
      <3>2. CASE LateNotice(f)
        BY <3>2 DEF TypeOK, LateNotice
      <3>3. QED
        BY <2>1, <3>1, <3>2
    <2>2. CASE RevokePop(f) \/ RevokeDrained(f)
      BY <2>2, PopTypes, DrainedTypes DEF TypeOK, RevokePop, RevokeDrained
    <2>3. QED
      BY <1>7, <2>1, <2>2 DEF Revocation
  <1>8. CASE Shutdown
    <2>1. CASE CloseAsk \/ CloseAdmit \/ CloseDone
      BY <2>1 DEF TypeOK, CloseAsk, CloseAdmit, CloseDone, CacheStates
    <2>2. ASSUME NEW f \in Families, ClosePop(f) \/ CloseDrained(f)
          PROVE  TypeOK'
      BY <2>2, PopTypes, DrainedTypes DEF TypeOK, ClosePop, CloseDrained
    <2>3. QED
      BY <1>8, <2>1, <2>2 DEF Shutdown
  <1>9. CASE UNCHANGED vars
    BY <1>9 DEF TypeOK
  <1>10. QED
    BY <1>1, <1>2, <1>3, <1>4, <1>5, <1>6, <1>7, <1>8, <1>9 DEF Next, Request

\* Every variable keeps its type.
THEOREM TypeCorrect == Spec => []TypeOK
  <1>1. QED
    BY InitTypeOK, StepTypeOK, PTL DEF Spec

-------------------------------------------------------------------------------
(***************************************************************************)
(* 2. Locks.                                                               *)
(***************************************************************************)

\* Admission is held by the request that makes room or connects, or by close.
AdmissionInv ==
  /\ \A r \in Requests : pc[r] \in Admitted <=> admission = r
  /\ admission = "close" <=> closing \in {"holding", "draining"}

\* The revoke task belongs to a family that has ended.
NoticeInv == \A f \in Families : notice[f] # "none" => ~ grant[f]

\* What a request holds: its own family's lock while it connects, another's while
\* it waits for the end of the connection that it evicts.
HolderInv ==
  \A r \in Requests :
    /\ pc[r] \in Connecting => lock[fam[r]] = r
    /\ pc[r] \in {"evicting", "draining"} => target[r] # fam[r]
    /\ pc[r] = "draining" => lock[target[r]] = r

\* Who holds the lock of a family, and that a connection which is cancelled under
\* it has left the records.
LockInv ==
  \A f \in Families :
    /\ lock[f] \in Requests =>
         \/ pc[lock[f]] \in Connecting /\ fam[lock[f]] = f /\ cut[f] = None
         \/ pc[lock[f]] = "draining" /\ target[lock[f]] = f /\ cut[f] # None
    /\ lock[f] = "revoke" <=> notice[f] = "draining"
    /\ lock[f] \in {"revoke", "close"} => cut[f] # None
    /\ lock[f] = "close" => closing = "draining" /\ f \in toClose
    /\ lock[f] = "free" => cut[f] = None
    /\ cut[f] # None => records[f] = None

\* Close drains one family at a time.
CloseInv ==
  /\ \A f, g \in Families : lock[f] = "close" /\ lock[g] = "close" => f = g
  /\ closing = "draining" => \E f \in Families : lock[f] = "close"

Locks == TypeOK /\ NoticeInv /\ AdmissionInv /\ HolderInv /\ LockInv /\ CloseInv

\* A request is not one of the other holders.
LEMMA Names ==
  ASSUME NEW r \in Requests
  PROVE  r \notin {"free", "revoke", "close"} /\ r # None
  BY Parameters

LEMMA InitLocks == Init => Locks
  BY InitTypeOK, Names, Parameters
  DEF Init, Locks, NoticeInv, AdmissionInv, HolderInv, LockInv, CloseInv, Admitted, Connecting

LEMMA StepNotice == TypeOK /\ NoticeInv /\ [Next]_vars => NoticeInv'
  <1> SUFFICES ASSUME TypeOK, NoticeInv, [Next]_vars PROVE NoticeInv'
    OBVIOUS
  <1> USE DEF vars, endVars, TypeOK, NoticeInv
  <1>1. CASE UNCHANGED endVars
    BY <1>1
  <1>2. ASSUME NEW f \in Families, EndGrant(f)
        PROVE  NoticeInv'
    BY <1>2 DEF EndGrant
  <1>3. ASSUME NEW f \in Families, LateNotice(f) \/ RevokePop(f) \/ RevokeDrained(f)
        PROVE  NoticeInv'
    BY <1>3 DEF LateNotice, RevokePop, RevokeDrained
  <1>4. CASE Shutdown
    BY <1>4 DEF Shutdown, CloseAsk, CloseAdmit, CloseDone, ClosePop, CloseDrained
  <1>5. ASSUME NEW r \in Requests, Request(r) \/ Task(r)
        PROVE  UNCHANGED endVars
    BY <1>5 DEF Request, Enter, Admit, EvictPop, EvictDrained, Pruned, Leave, Evict, Lock,
       Opened, OpenFails, Loaded, LoadFails, Aborted, Ready, NotReady, CloseUnstarted,
       Unwound, Refused, Serve, RefreshStart, RefreshEnd, Task, Start, Event, Stop, Renew,
       Renewed, Close, Stream
  <1>6. QED
    BY <1>1, <1>2, <1>3, <1>4, <1>5 DEF Next, Revocation

LEMMA StepLocks == Locks /\ [Next]_vars => Locks'
  <1> SUFFICES ASSUME Locks, [Next]_vars
               PROVE  AdmissionInv' /\ HolderInv' /\ LockInv' /\ CloseInv'
    BY StepTypeOK, StepNotice DEF Locks
  <1>t. TypeOK /\ TypeOK'
    BY StepTypeOK DEF Locks
  <1> USE <1>t, Names
      DEF vars, requestVars, streamVars, lockVars, endVars, Locks, TypeOK, AdmissionInv,
          HolderInv, LockInv, CloseInv, Go, Admitted, Connecting
  <1>1. ASSUME NEW r \in Requests,
               \/ Enter(r) \/ Admit(r) \/ Pruned(r) \/ Leave(r)
               \/ \E g \in Families : Evict(r, g)
        PROVE  AdmissionInv' /\ HolderInv' /\ LockInv' /\ CloseInv'
    <2>1. CASE Enter(r)
      BY <2>1 DEF Enter
    <2>2. CASE Admit(r)
      <3>1. AdmissionInv'
        BY <2>2 DEF Admit
      <3>2. HolderInv' /\ CloseInv'
        BY <2>2 DEF Admit
      <3>3. LockInv'
        <4>1. /\ pc[r] = "queued" /\ pc'[r] \in {"pruning", "done"}
              /\ \A q \in Requests \ {r} : pc'[q] = pc[q]
              /\ UNCHANGED <<fam, target, lock, cut, notice, closing, toClose, records>>
          BY <2>2 DEF Admit
        <4>2. QED
          BY <4>1
      <3>4. QED
        BY <3>1, <3>2, <3>3
    <2>3. CASE Pruned(r) \/ Leave(r)
      BY <2>3 DEF Pruned, Leave
    <2>4. ASSUME NEW g \in Families, Evict(r, g)
          PROVE  AdmissionInv' /\ HolderInv' /\ LockInv' /\ CloseInv'
      BY <2>4 DEF Evict, Others
    <2> HIDE DEF AdmissionInv, HolderInv, LockInv, CloseInv
    <2>5. QED
      BY <1>1, <2>1, <2>2, <2>3, <2>4
  <1>2. ASSUME NEW r \in Requests, EvictPop(r) \/ EvictDrained(r)
        PROVE  AdmissionInv' /\ HolderInv' /\ LockInv' /\ CloseInv'
    <2>1. CASE EvictPop(r)
      BY <2>1 DEF EvictPop, Pop, HasRecord
    <2>2. CASE EvictDrained(r)
      BY <2>2 DEF EvictDrained, Drained
    <2>3. QED
      BY <1>2, <2>1, <2>2
  <1>3. ASSUME NEW r \in Requests,
               \/ Lock(r) \/ Opened(r) \/ OpenFails(r) \/ Loaded(r) \/ LoadFails(r) \/ Aborted(r)
        PROVE  AdmissionInv' /\ HolderInv' /\ LockInv' /\ CloseInv'
    <2>1. CASE Lock(r)
      BY <2>1 DEF Lock
    <2>2. CASE Opened(r)
      BY <2>2 DEF Opened
    <2>3. CASE OpenFails(r)
      BY <2>3 DEF OpenFails, Release
    <2>4. CASE Loaded(r)
      BY <2>4 DEF Loaded
    <2>5. CASE LoadFails(r)
      BY <2>5 DEF LoadFails
    <2>6. CASE Aborted(r)
      BY <2>6 DEF Aborted, Release
    <2> HIDE DEF AdmissionInv, HolderInv, LockInv, CloseInv
    <2>7. QED
      BY <1>3, <2>1, <2>2, <2>3, <2>4, <2>5, <2>6
  <1>4. ASSUME NEW r \in Requests,
               \/ Ready(r) \/ NotReady(r) \/ CloseUnstarted(r) \/ Unwound(r) \/ Refused(r)
        PROVE  AdmissionInv' /\ HolderInv' /\ LockInv' /\ CloseInv'
    <2>1. CASE Ready(r)
      <3>1. CASE grant[fam[r]] /\ ~ Closed
        <4>1. AdmissionInv' /\ CloseInv'
          BY <2>1, <3>1 DEF Ready, Release
        <4>2. HolderInv'
          BY <2>1, <3>1 DEF Ready, Release
        <4>3. LockInv'
          BY <2>1, <3>1 DEF Ready, Release
        <4>4. QED
          BY <4>1, <4>2, <4>3
      <3>2. CASE ~ (grant[fam[r]] /\ ~ Closed)
        BY <2>1, <3>2 DEF Ready
      <3>3. QED
        BY <3>1, <3>2
    <2>2. CASE NotReady(r)
      BY <2>2 DEF NotReady
    <2>3. CASE CloseUnstarted(r)
      BY <2>3 DEF CloseUnstarted
    <2>4. CASE Unwound(r)
      BY <2>4 DEF Unwound, Release
    <2>5. CASE Refused(r)
      BY <2>5 DEF Refused, Release
    <2> HIDE DEF AdmissionInv, HolderInv, LockInv, CloseInv
    <2>6. QED
      BY <1>4, <2>1, <2>2, <2>3, <2>4, <2>5
  <1>5. ASSUME NEW r \in Requests, Serve(r) \/ RefreshStart(r) \/ RefreshEnd(r)
        PROVE  AdmissionInv' /\ HolderInv' /\ LockInv' /\ CloseInv'
    BY <1>5 DEF Serve, RefreshStart, RefreshEnd
  <1>6. ASSUME NEW c \in Requests, Task(c)
        PROVE  AdmissionInv' /\ HolderInv' /\ LockInv' /\ CloseInv'
    BY <1>6 DEF Task, Start, Event, Stop, Renew, Renewed, Close, Stream
  <1>7. ASSUME NEW f \in Families, Revocation(f)
        PROVE  AdmissionInv' /\ HolderInv' /\ LockInv' /\ CloseInv'
    <2>1. CASE EndGrant(f) \/ LateNotice(f)
      <3>1. notice[f] = "none"
        BY <2>1 DEF NoticeInv, EndGrant, LateNotice
      <3>2. QED
        BY <2>1, <3>1 DEF EndGrant, LateNotice
    <2>2. CASE RevokePop(f)
      BY <2>2 DEF RevokePop, Pop, HasRecord
    <2>3. CASE RevokeDrained(f)
      BY <2>3 DEF RevokeDrained, Drained
    <2>4. QED
      BY <1>7, <2>1, <2>2, <2>3 DEF Revocation
  <1>8. CASE CloseAsk \/ CloseAdmit \/ CloseDone
    BY <1>8 DEF CloseAsk, CloseAdmit, CloseDone
  <1>9. ASSUME NEW f \in Families, ClosePop(f) \/ CloseDrained(f)
        PROVE  AdmissionInv' /\ HolderInv' /\ LockInv' /\ CloseInv'
    BY <1>9 DEF ClosePop, CloseDrained, Pop, Drained, HasRecord
  <1>10. CASE UNCHANGED vars
    BY <1>10
  <1>11. QED
    BY <1>1, <1>2, <1>3, <1>4, <1>5, <1>6, <1>7, <1>8, <1>9, <1>10 DEF Next, Request, Shutdown
-------------------------------------------------------------------------------
(***************************************************************************)
(* 3. Connections.                                                         *)
(***************************************************************************)

\* A request has no connection before it has opened one.
Early == {"new", "queued", "pruning", "evicting", "draining", "locking", "opening"}

\* A connection, as far as its request has got.
StageInv ==
  \A c \in Requests :
    /\ pc[c] \in Early => conn[c] = "none"
    /\ pc[c] \in {"loading", "aborting"} => conn[c] = "open"
    /\ pc[c] = "readying" => conn[c] \in ConnStates \ {"none", "open"}
    /\ pc[c] = "unwinding" => conn[c] # "none"
    /\ pc[c] = "refusing" => c \in ready
    /\ c \in ready => conn[c] \in {"running", "renewing", "closing", "done"}

\* A published or cancelled connection is its family's, was ready, and its request
\* has let go of it.
OwnerInv ==
  \A c \in Requests, f \in Families : records[f] = c \/ cut[f] = c =>
    fam[c] = f /\ c \in ready /\ pc[c] \notin Connecting

\* Only a family without a usable connection gets one.
NeedInv == \A r \in Requests : pc[r] \in {"locking"} \cup Connecting => Unusable(fam[r])

Streams == StageInv /\ OwnerInv /\ NeedInv /\ NoStreamLeft

LEMMA InitStreams == Init => Streams
  BY Names, Parameters
  DEF Init, Streams, StageInv, OwnerInv, NeedInv, NoStreamLeft, Early, Connecting, Alive, Unusable

LEMMA StepStreams == Locks /\ Streams /\ [Next]_vars => Streams'
  <1> SUFFICES ASSUME Locks, Streams, [Next]_vars
               PROVE  Streams'
    OBVIOUS
  <1>t. TypeOK /\ Locks'
    BY StepLocks DEF Locks
  <1> USE <1>t, Names
      DEF vars, requestVars, streamVars, lockVars, endVars, Locks, TypeOK, AdmissionInv,
          HolderInv, LockInv, Streams, StageInv, OwnerInv, NeedInv, NoStreamLeft, Early, Alive,
          Ended, Unusable, ConnStates, Cancelled, Go, Admitted, Connecting
  <1>1. ASSUME NEW r \in Requests,
               \/ Enter(r) \/ Admit(r) \/ Pruned(r) \/ Leave(r)
               \/ \E g \in Families : Evict(r, g)
        PROVE  Streams'
    BY <1>1 DEF Enter, Admit, Pruned, Leave, Evict
  <1>2. ASSUME NEW r \in Requests, EvictPop(r)
        PROVE  Streams'
    BY <1>2 DEF EvictPop, Pop, HasRecord
  <1>3. ASSUME NEW r \in Requests, EvictDrained(r)
        PROVE  Streams'
    BY <1>3 DEF EvictDrained, Drained
  <1>4. ASSUME NEW r \in Requests,
               \/ Lock(r) \/ Opened(r) \/ OpenFails(r) \/ Loaded(r) \/ LoadFails(r) \/ Aborted(r)
        PROVE  Streams'
    <2>1. CASE Lock(r)
      <3>1. CASE grant[fam[r]] /\ ~ Closed
        BY <2>1, <3>1 DEF Lock
      <3>2. CASE ~ (grant[fam[r]] /\ ~ Closed)
        BY <2>1, <3>2 DEF Lock
      <3>3. QED
        BY <3>1, <3>2
    <2>2. CASE Opened(r)
      BY <2>2 DEF Opened
    <2>3. CASE OpenFails(r)
      BY <2>3 DEF OpenFails, Release
    <2>4. CASE Loaded(r)
      BY <2>4 DEF Loaded
    <2>5. CASE LoadFails(r)
      BY <2>5 DEF LoadFails
    <2>6. CASE Aborted(r)
      BY <2>6 DEF Aborted, Release
    <2> HIDE DEF Streams
    <2>7. QED
      BY <1>4, <2>1, <2>2, <2>3, <2>4, <2>5, <2>6
  <1>5. ASSUME NEW r \in Requests,
               \/ Ready(r) \/ NotReady(r) \/ CloseUnstarted(r) \/ Unwound(r) \/ Refused(r)
        PROVE  Streams'
    <2>1. CASE Ready(r)
      BY <2>1 DEF Ready, Release
    <2>2. CASE NotReady(r)
      BY <2>2 DEF NotReady
    <2>3. CASE CloseUnstarted(r)
      BY <2>3 DEF CloseUnstarted
    <2>4. CASE Unwound(r)
      BY <2>4 DEF Unwound, Release
    <2>5. CASE Refused(r)
      BY <2>5 DEF Refused, Release
    <2> HIDE DEF Streams
    <2>6. QED
      BY <1>5, <2>1, <2>2, <2>3, <2>4, <2>5
  <1>6. ASSUME NEW r \in Requests, Serve(r) \/ RefreshStart(r) \/ RefreshEnd(r)
        PROVE  Streams'
    BY <1>6 DEF Serve, RefreshStart, RefreshEnd
  <1>7. ASSUME NEW c \in Requests, Task(c)
        PROVE  Streams'
    BY <1>7 DEF Task, Start, Event, Stop, Renew, Renewed, Close, Stream
  <1>8. ASSUME NEW f \in Families, EndGrant(f) \/ LateNotice(f)
        PROVE  Streams'
    BY <1>8 DEF EndGrant, LateNotice
  <1>9. ASSUME NEW f \in Families, RevokePop(f)
        PROVE  Streams'
    BY <1>9 DEF RevokePop, Pop, HasRecord
  <1>10. ASSUME NEW f \in Families, RevokeDrained(f)
         PROVE  Streams'
    BY <1>10 DEF RevokeDrained, Drained
  <1>11. CASE CloseAsk \/ CloseAdmit \/ CloseDone
    BY <1>11 DEF CloseAsk, CloseAdmit, CloseDone
  <1>12. ASSUME NEW f \in Families, ClosePop(f)
         PROVE  Streams'
    BY <1>12 DEF ClosePop, Pop, HasRecord
  <1>13. ASSUME NEW f \in Families, CloseDrained(f)
         PROVE  Streams'
    BY <1>13 DEF CloseDrained, Drained
  <1>14. CASE UNCHANGED vars
    BY <1>14
  <1> HIDE DEF vars, Locks, Streams, TypeOK, AdmissionInv, HolderInv, LockInv, StageInv, OwnerInv,
               NeedInv, NoStreamLeft
  <1>15. QED
    BY <1>1, <1>2, <1>3, <1>4, <1>5, <1>6, <1>7, <1>8, <1>9, <1>10, <1>11, <1>12, <1>13,
       <1>14 DEF Next, Request, Revocation, Shutdown

-------------------------------------------------------------------------------
(***************************************************************************)
(* 4. The cache, and what is over.                                         *)
(***************************************************************************)

\* Until the structure has come, a family that has no record has no cache.
FreshInv ==
  \A r \in Requests : pc[r] \in {"opening", "loading", "aborting"} =>
    HasRecord(fam[r]) \/ cache[fam[r]] = "absent"

\* Close finds every record, and no request is admitted after it.
EndInv ==
  /\ \A f \in Families : notice[f] = "done" => lock[f] = "free" /\ ~ HasRecord(f)
  /\ closing \in {"holding", "draining"} => \A f \in Families : HasRecord(f) => f \in toClose
  /\ closing = "done" =>
       /\ \A f \in Families : ~ HasRecord(f)
       /\ \A r \in Requests : pc[r] \notin Admitted

Ends == FreshInv /\ CacheFollowsStream /\ EndInv /\ OverIsOver

LEMMA InitEnds == Init => Ends
  BY Names, Parameters
  DEF Init, Ends, FreshInv, CacheFollowsStream, EndInv, OverIsOver, Admitted, Connecting, Alive, HasRecord

LEMMA StepEnds == Locks /\ Streams /\ Ends /\ [Next]_vars => Ends'
  <1> SUFFICES ASSUME Locks, Streams, Ends, [Next]_vars
               PROVE  Ends'
    OBVIOUS
  <1>t. TypeOK /\ Locks' /\ Streams'
    BY StepLocks, StepStreams DEF Locks
  <1> USE <1>t, Names
      DEF vars, requestVars, streamVars, lockVars, endVars, Locks, TypeOK, NoticeInv, AdmissionInv,
          HolderInv, LockInv, CloseInv, Streams, StageInv, OwnerInv, NeedInv, NoStreamLeft, Early, Alive,
          Ended, Unusable, ConnStates, Cancelled, Go, Admitted, Connecting, HasRecord, Owns, Connected, Closed,
          Ends, FreshInv, CacheFollowsStream, EndInv, OverIsOver, CacheStates
  <1>1. ASSUME NEW r \in Requests,
               \/ Enter(r) \/ Admit(r) \/ Pruned(r) \/ Leave(r)
               \/ \E g \in Families : Evict(r, g)
        PROVE  Ends'
    BY <1>1 DEF Enter, Admit, Pruned, Leave, Evict
  <1>2. ASSUME NEW r \in Requests, EvictPop(r)
        PROVE  Ends'
    BY <1>2 DEF EvictPop, Pop, HasRecord
  <1>3. ASSUME NEW r \in Requests, EvictDrained(r)
        PROVE  Ends'
    BY <1>3 DEF EvictDrained, Drained
  <1>4. ASSUME NEW r \in Requests,
               \/ Lock(r) \/ Opened(r) \/ OpenFails(r) \/ Loaded(r) \/ LoadFails(r) \/ Aborted(r)
        PROVE  Ends'
    <2>1. CASE Lock(r)
      BY <2>1 DEF Lock
    <2>2. CASE Opened(r)
      BY <2>2 DEF Opened
    <2>3. CASE OpenFails(r)
      BY <2>3 DEF OpenFails, Release
    <2>4. CASE Loaded(r)
      BY <2>4 DEF Loaded
    <2>5. CASE LoadFails(r)
      BY <2>5 DEF LoadFails
    <2>6. CASE Aborted(r)
      BY <2>6 DEF Aborted, Release
    <2> HIDE DEF Ends
    <2>7. QED
      BY <1>4, <2>1, <2>2, <2>3, <2>4, <2>5, <2>6
  <1>5. ASSUME NEW r \in Requests,
               \/ Ready(r) \/ NotReady(r) \/ CloseUnstarted(r) \/ Unwound(r) \/ Refused(r)
        PROVE  Ends'
    <2>1. CASE Ready(r)
      BY <2>1 DEF Ready, Release
    <2>2. CASE NotReady(r) \/ CloseUnstarted(r)
      BY <2>2 DEF NotReady, CloseUnstarted
    <2>3. CASE Unwound(r)
      BY <2>3 DEF Unwound, Release
    <2>4. CASE Refused(r)
      BY <2>4 DEF Refused, Release
    <2>5. QED
      BY <1>5, <2>1, <2>2, <2>3, <2>4
  <1>6. ASSUME NEW r \in Requests, Serve(r) \/ RefreshStart(r) \/ RefreshEnd(r)
        PROVE  Ends'
    BY <1>6 DEF Serve, RefreshStart, RefreshEnd
  <1>7. ASSUME NEW c \in Requests, Task(c)
        PROVE  Ends'
    <2>1. CASE Start(c)
      BY <2>1 DEF Start, Stream
    <2>r. CASE Renew(c)
      BY <2>r DEF Renew, Stream
    <2>c. CASE Close(c)
      BY <2>c DEF Close, Stream
    <2>2. CASE Event(c)
      BY <2>2 DEF Event
    <2>3. CASE Stop(c)
      BY <2>3 DEF Stop, Stream
    <2>4. CASE Renewed(c)
      BY <2>4 DEF Renewed, Stream
    <2> HIDE DEF Ends
    <2>5. QED
      BY <1>7, <2>1, <2>r, <2>c, <2>2, <2>3, <2>4 DEF Task
  <1>8. ASSUME NEW f \in Families, EndGrant(f) \/ LateNotice(f)
        PROVE  Ends'
    BY <1>8 DEF EndGrant, LateNotice
  <1>9. ASSUME NEW f \in Families, RevokePop(f)
        PROVE  Ends'
    BY <1>9 DEF RevokePop, Pop, HasRecord
  <1>10. ASSUME NEW f \in Families, RevokeDrained(f)
         PROVE  Ends'
    BY <1>10 DEF RevokeDrained, Drained
  <1>11. CASE CloseAsk \/ CloseAdmit \/ CloseDone
    BY <1>11 DEF CloseAsk, CloseAdmit, CloseDone
  <1>12. ASSUME NEW f \in Families, ClosePop(f)
         PROVE  Ends'
    BY <1>12 DEF ClosePop, Pop, HasRecord
  <1>13. ASSUME NEW f \in Families, CloseDrained(f)
         PROVE  Ends'
    BY <1>13 DEF CloseDrained, Drained
  <1>14. CASE UNCHANGED vars
    BY <1>14
  <1> HIDE DEF vars, Locks, Streams, Ends, TypeOK, NoticeInv, AdmissionInv, HolderInv, LockInv,
               CloseInv, StageInv, OwnerInv, NeedInv, NoStreamLeft, FreshInv, EndInv,
               CacheFollowsStream, OverIsOver
  <1>15. QED
    BY <1>1, <1>2, <1>3, <1>4, <1>5, <1>6, <1>7, <1>8, <1>9, <1>10, <1>11, <1>12, <1>13,
       <1>14 DEF Next, Request, Revocation, Shutdown

-------------------------------------------------------------------------------
(***************************************************************************)
(* 5. Capacity.                                                            *)
(***************************************************************************)

\* The connections that count.
Live == {c \in Requests : Alive(c) /\ ~ Cancelled(c)}

\* A request that has passed the check for room still has it.
RoomInv == \A r \in Requests : pc[r] \in {"locking", "opening"} => Cardinality(Live) < MaxActive

Room == RoomInv /\ CapacityKept

LEMMA LiveIsFinite == IsFiniteSet(Live) /\ Cardinality(Live) \in Nat
  BY Parameters, FS_Subset, FS_CardinalityType DEF Live

\* Nobody becomes live but the connection that is opened.
LEMMA LiveShrinks ==
  ASSUME Locks, Streams, [Next]_vars, \A r \in Requests : ~ Opened(r)
  PROVE  Live' \subseteq Live
  <1> SUFFICES ASSUME NEW x \in Requests, Alive(x)', ~ Cancelled(x)'
               PROVE  Alive(x) /\ ~ Cancelled(x)
    BY DEF Live
  <1>t. TypeOK /\ Locks' /\ Streams'
    BY StepLocks, StepStreams DEF Locks
  <1> DEFINE G == Alive(x) /\ ~ Cancelled(x)
  <1> USE <1>t, Names
      DEF vars, requestVars, streamVars, lockVars, endVars, Locks, TypeOK, AdmissionInv,
          HolderInv, LockInv, Streams, StageInv, OwnerInv, NoStreamLeft, Early, Alive,
          Ended, ConnStates, Cancelled, Go, Admitted, Connecting
  <1>1. ASSUME NEW r \in Requests,
               \/ Enter(r) \/ Admit(r) \/ Pruned(r) \/ Leave(r)
               \/ \E g \in Families : Evict(r, g)
        PROVE  G
    BY <1>1 DEF Enter, Admit, Pruned, Leave, Evict
  <1>2. ASSUME NEW r \in Requests, EvictPop(r)
        PROVE  G
    BY <1>2 DEF EvictPop, Pop, HasRecord
  <1>3. ASSUME NEW r \in Requests, EvictDrained(r)
        PROVE  G
    BY <1>3 DEF EvictDrained, Drained
  <1>4. ASSUME NEW r \in Requests,
               \/ Lock(r) \/ Opened(r) \/ OpenFails(r) \/ Loaded(r) \/ LoadFails(r) \/ Aborted(r)
        PROVE  G
    BY <1>4 DEF Lock, Opened, OpenFails, Loaded, LoadFails, Aborted, Release
  <1>5. ASSUME NEW r \in Requests,
               \/ Ready(r) \/ NotReady(r) \/ CloseUnstarted(r) \/ Unwound(r) \/ Refused(r)
        PROVE  G
    BY <1>5 DEF Ready, NotReady, CloseUnstarted, Unwound, Refused, Release
  <1>6. ASSUME NEW r \in Requests, Serve(r) \/ RefreshStart(r) \/ RefreshEnd(r)
        PROVE  G
    BY <1>6 DEF Serve, RefreshStart, RefreshEnd
  <1>7. ASSUME NEW c \in Requests, Task(c)
        PROVE  G
    BY <1>7 DEF Task, Start, Event, Stop, Renew, Renewed, Close, Stream
  <1>8. ASSUME NEW f \in Families, EndGrant(f) \/ LateNotice(f)
        PROVE  G
    BY <1>8 DEF EndGrant, LateNotice
  <1>9. ASSUME NEW f \in Families, RevokePop(f)
        PROVE  G
    BY <1>9 DEF RevokePop, Pop, HasRecord
  <1>10. ASSUME NEW f \in Families, RevokeDrained(f)
         PROVE  G
    BY <1>10 DEF RevokeDrained, Drained
  <1>11. CASE CloseAsk \/ CloseAdmit \/ CloseDone
    BY <1>11 DEF CloseAsk, CloseAdmit, CloseDone
  <1>12. ASSUME NEW f \in Families, ClosePop(f)
         PROVE  G
    BY <1>12 DEF ClosePop, Pop, HasRecord
  <1>13. ASSUME NEW f \in Families, CloseDrained(f)
         PROVE  G
    BY <1>13 DEF CloseDrained, Drained
  <1>14. CASE UNCHANGED vars
    BY <1>14
  <1>15. QED
    BY <1>1, <1>2, <1>3, <1>4, <1>5, <1>6, <1>7, <1>8, <1>9, <1>10, <1>11, <1>12, <1>13,
       <1>14 DEF Next, Request, Revocation, Shutdown
\* At the check for room, every live connection is the record of one of the others.
LEMMA RoomCounts ==
  ASSUME Locks, Streams, NEW r \in Requests, Pruned(r), Unusable(fam[r])
  PROVE  Cardinality(Live) < MaxActive
  <1> DEFINE Used == {g \in Others(fam[r]) : ~ Ended(records[g])}
             owner == [c \in Live |-> fam[c]]
             holds == [g \in Used |-> records[g]]
  <1> USE DEF Locks, TypeOK
  <1>1. Cardinality(Used) < MaxActive /\ pc[r] = "pruning"
    BY DEF Pruned
  <1>2. ASSUME NEW c \in Live
        PROVE  records[fam[c]] = c /\ fam[c] \in Used
    <2>1. c \in Requests /\ Alive(c) /\ ~ Cancelled(c)
      BY DEF Live
    <2>2. pc[c] \notin Connecting
      BY <1>1, <2>1 DEF AdmissionInv, Admitted, Connecting
    <2>3. records[fam[c]] = c
      BY <2>1, <2>2 DEF Streams, NoStreamLeft, Cancelled
    <2>4. ~ Ended(c) /\ c # None
      BY <2>1, Names DEF Alive, Ended
    <2>5. fam[c] \in Families \ {fam[r]}
      BY <2>1, <2>3, <2>4 DEF Unusable
    <2>6. QED
      BY <2>3, <2>4, <2>5 DEF Others, HasRecord
  <1>3. \A g \in Used : records[g] \in Requests /\ fam[records[g]] = g
    BY DEF Streams, OwnerInv, Others, HasRecord
  <1>4. IsFiniteSet(Used)
    <2> HIDE DEF Used
    <2>1. holds \in Injection(Used, Requests)
      BY <1>3 DEF Injection, IsInjective
    <2>2. QED
      BY <2>1, FS_Injection, Parameters
  <1>5. Cardinality(Live) <= Cardinality(Used)
    <2> HIDE DEF Used
    <2>1. owner \in Injection(Live, Used)
      BY <1>2 DEF Injection, IsInjective
    <2>2. QED
      BY <2>1, <1>4, FS_Injection
  <1>6. Cardinality(Used) \in Nat
    BY <1>4, FS_CardinalityType
  <1>7. QED
    BY <1>1, <1>5, <1>6, LiveIsFinite, Parameters

LEMMA InitRoom == Init => Room
  <1> SUFFICES ASSUME Init PROVE Room
    OBVIOUS
  <1>1. Live = {}
    BY DEF Init, Live, Alive
  <1>2. QED
    BY <1>1, FS_EmptySet, Parameters DEF Init, Room, RoomInv, CapacityKept, Live

LEMMA StepRoom == Locks /\ Streams /\ Room /\ [Next]_vars => Room'
  <1> SUFFICES ASSUME Locks, Streams, Room, [Next]_vars PROVE Room'
    OBVIOUS
  <1>f. /\ IsFiniteSet(Live) /\ Cardinality(Live) \in Nat /\ Cardinality(Live) <= MaxActive
        /\ MaxActive \in Nat
    BY LiveIsFinite, Parameters DEF Room, CapacityKept, Live
  <1>t. TypeOK /\ AdmissionInv /\ Locks' /\ TypeOK' /\ AdmissionInv'
    BY StepLocks DEF Locks
  <1>1. ASSUME NEW r \in Requests, Opened(r)
        PROVE  Room'
    <2>1. Cardinality(Live) < MaxActive
      BY <1>1 DEF Opened, Room, RoomInv
    <2>2. Live' \subseteq Live \cup {r}
      BY <1>1 DEF Live, Opened, Alive, Cancelled, Go, lockVars, TypeOK, Locks
    <2>3. Cardinality(Live') <= MaxActive
      <3>1. /\ IsFiniteSet(Live \cup {r})
            /\ Cardinality(Live \cup {r}) <= Cardinality(Live) + 1
            /\ Cardinality(Live \cup {r}) \in Nat
        <4>1. /\ IsFiniteSet(Live \cup {r})
              /\ \/ Cardinality(Live \cup {r}) = Cardinality(Live)
                 \/ Cardinality(Live \cup {r}) = Cardinality(Live) + 1
          BY <1>f, FS_AddElement
        <4>2. QED
          BY <1>f, <4>1
      <3>2. Cardinality(Live') <= Cardinality(Live \cup {r}) /\ Cardinality(Live') \in Nat
        BY <2>2, <3>1, FS_Subset, FS_CardinalityType
      <3>3. QED
        BY <1>f, <2>1, <3>1, <3>2
    <2>4. \A q \in Requests : pc'[q] \notin {"locking", "opening"}
      BY <1>1, <1>t DEF Opened, Go, TypeOK, AdmissionInv, Admitted, Connecting
    <2>5. QED
      BY <2>3, <2>4 DEF Room, RoomInv, CapacityKept, Live
  <1>2. ASSUME \A r \in Requests : ~ Opened(r)
        PROVE  Room'
    <2>1. Live' \subseteq Live
      BY <1>2, LiveShrinks
    <2>2. Cardinality(Live') <= Cardinality(Live) /\ Cardinality(Live') \in Nat
      BY <1>f, <2>1, FS_Subset, FS_CardinalityType
    <2>3. ASSUME NEW q \in Requests, pc'[q] \in {"locking", "opening"}
          PROVE  Cardinality(Live) < MaxActive
      <3>1. \/ pc[q] \in {"locking", "opening"}
            \/ Pruned(q) /\ Unusable(fam[q])
        <4> USE DEF Go, TypeOK, vars, requestVars
        <4>1. ASSUME NEW r \in Requests, Request(r)
              PROVE  pc[q] \in {"locking", "opening"} \/ (Pruned(q) /\ Unusable(fam[q]))
          <5>1. CASE Pruned(r)
            <6>1. r = q \/ pc'[q] = pc[q]
              BY <1>t, <5>1 DEF Pruned
            <6>2. CASE r = q
              BY <1>t, <2>3, <5>1, <6>2 DEF Pruned
            <6>3. QED
              BY <2>3, <6>1, <6>2
          <5>2. CASE Enter(r) \/ Admit(r) \/ EvictPop(r) \/ EvictDrained(r) \/ Leave(r)
                     \/ \E g \in Families : Evict(r, g)
            BY <1>t, <2>3, <5>2 DEF Enter, Admit, EvictPop, EvictDrained, Leave, Evict
          <5>3. CASE \/ Lock(r) \/ Opened(r) \/ OpenFails(r) \/ Loaded(r) \/ LoadFails(r)
                     \/ Aborted(r)
            BY <1>t, <2>3, <5>3 DEF Lock, Opened, OpenFails, Loaded, LoadFails, Aborted
          <5>4. CASE \/ Ready(r) \/ NotReady(r) \/ CloseUnstarted(r) \/ Unwound(r)
                     \/ Refused(r) \/ Serve(r) \/ RefreshStart(r) \/ RefreshEnd(r)
            BY <1>t, <2>3, <5>4 DEF Ready, NotReady, CloseUnstarted, Unwound, Refused, Serve,
               RefreshStart, RefreshEnd
          <5>5. QED
            BY <4>1, <5>1, <5>2, <5>3, <5>4 DEF Request
        <4>2. CASE UNCHANGED requestVars
          BY <2>3, <4>2
        <4>3. ASSUME NEW c \in Requests, Task(c) PROVE UNCHANGED requestVars
          BY <4>3 DEF Task, Start, Event, Stop, Renew, Renewed, Close, Stream
        <4>4. ASSUME NEW f \in Families, Revocation(f) PROVE UNCHANGED requestVars
          BY <4>4 DEF Revocation, EndGrant, LateNotice, RevokePop, RevokeDrained
        <4>5. ASSUME Shutdown PROVE UNCHANGED requestVars
          BY <4>5 DEF Shutdown, CloseAsk, CloseAdmit, CloseDone, ClosePop, CloseDrained
        <4>6. QED
          BY <4>1, <4>2, <4>3, <4>4, <4>5 DEF Next
      <3>2. QED
        BY <3>1, RoomCounts DEF Room, RoomInv
    <2>4. QED
      BY <1>f, <2>2, <2>3 DEF Room, RoomInv, CapacityKept, Live
  <1>3. QED
    BY <1>1, <1>2

-------------------------------------------------------------------------------
(***************************************************************************)
(* 6. The theorems.                                                        *)
(***************************************************************************)

RuntimeInv == Locks /\ Streams /\ Ends /\ Room

LEMMA RuntimeInvariant == Spec => []RuntimeInv
  <1>1. Init => RuntimeInv
    BY InitLocks, InitStreams, InitEnds, InitRoom DEF RuntimeInv
  <1>2. RuntimeInv /\ [Next]_vars => RuntimeInv'
    BY StepLocks, StepStreams, StepEnds, StepRoom DEF RuntimeInv
  <1>3. QED
    BY <1>1, <1>2, PTL DEF Spec

\* The limit of active sessions holds for any number of families and requests: the
\* check for room, the login and the publication stand under one admission.
THEOREM CapacityIsKept == Spec => []CapacityKept
  <1>1. RuntimeInv => CapacityKept
    BY DEF RuntimeInv, Room
  <1>2. QED
    BY <1>1, RuntimeInvariant, PTL

\* No connection outlives those who know of it, at whichever point an eviction, the
\* end of a family or shutdown finds it.
THEOREM NoStreamIsLeft == Spec => []NoStreamLeft
  <1>1. RuntimeInv => NoStreamLeft
    BY DEF RuntimeInv, Streams
  <1>2. QED
    BY <1>1, RuntimeInvariant, PTL

\* The cache of a family goes with its connection, and nobody who is late brings it
\* back.
THEOREM CacheIsOfStream == Spec => []CacheFollowsStream
  <1>1. RuntimeInv => CacheFollowsStream
    BY DEF RuntimeInv, Ends
  <1>2. QED
    BY <1>1, RuntimeInvariant, PTL

\* A family that was ended, and a service that was closed, stay without connections.
THEOREM OverStaysOver == Spec => []OverIsOver
  <1>1. RuntimeInv => OverIsOver
    BY DEF RuntimeInv, Ends
  <1>2. QED
    BY <1>1, RuntimeInvariant, PTL
===============================================================================
