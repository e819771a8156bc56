----------------------------- MODULE LoxoneRuntime -----------------------------
(***************************************************************************)
(* The live connections of the runtime (src/mcpserver/loxone/runtime.py).  *)
(*                                                                         *)
(* A request for a snapshot uses the connection its OAuth family has, or   *)
(* opens one: a session, a task that maintains it, and a place in the      *)
(* state cache.  Connections end by themselves, are evicted for another    *)
(* family, cut because their family ended, and cut at shutdown.  All of it *)
(* is one asyncio program: code between two awaits is one action, and the  *)
(* order of the rest is free.                                              *)
(*                                                                         *)
(* Locks, always taken in this order: admission, which is held while room  *)
(* is made and a connection is opened and published; a family's lock,      *)
(* which every change of its record is made under; and apart from these a  *)
(* record's refresh lock.                                                  *)
(*                                                                         *)
(* A connection has the name of the request that opened it.  The login     *)
(* coordinator, the network and the Miniserver answer or fail; time limits *)
(* bound both.  Which connection is idle or least recently used is free.   *)
(***************************************************************************)
EXTENDS Integers, FiniteSets

CONSTANTS
  Families,    \* OAuth families
  Requests,    \* requests for a snapshot, each made once
  None,        \* no connection
  MaxActive    \* max_active_sessions

ASSUME Parameters ==
  /\ IsFiniteSet(Requests)
  /\ None \notin Requests
  /\ Requests \cap {"free", "revoke", "close"} = {}
  /\ MaxActive \in Nat \ {0}

VARIABLES
  grant,      \* family -> its OAuth grant lives
  notice,     \* family -> the revoke task: "none", "asked", "draining", "done"
  closing,    \* the close call: "no", "asked", "holding", "draining", "done"
  toClose,    \* families that close has still to disconnect
  admission,  \* holder of the admission lock
  lock,       \* family -> holder of its lock
  cut,        \* family -> the connection that holder has cancelled and awaits
  records,    \* family -> its published connection
  cache,      \* family -> its part of the state cache
  pc,         \* request -> where it is
  fam,        \* request -> its family
  target,     \* request -> the family it evicts, or the connection it uses
  conn,       \* connection -> its session and its maintain task
  ready       \* connections that have received their first batch of states

requestVars == <<pc, fam, target>>
streamVars == <<conn, ready>>
lockVars == <<admission, lock, cut>>
endVars == <<grant, notice, closing, toClose>>
vars == <<grant, notice, closing, toClose, admission, lock, cut, records, cache,
          pc, fam, target, conn, ready>>

\* The cache of a family: nothing, an open connection but no value of it, values
\* of an open connection, or the stale rest of a connection that ended.
CacheStates == {"absent", "waiting", "current", "down"}

\* A connection: its session is open and no task has it; the task is created, runs
\* the event pump, renews the token (pump and websocket are closed), closes, is done.
ConnStates == {"none", "open", "starting", "running", "renewing", "closing", "done"}

Connecting == {"opening", "loading", "aborting", "readying", "unwinding", "refusing"}
Admitted == {"pruning", "evicting", "draining", "locking"} \cup Connecting
PCs == {"new", "queued", "serving", "waiting", "refreshing", "done"} \cup Admitted

Init ==
  /\ grant = [f \in Families |-> TRUE]
  /\ notice = [f \in Families |-> "none"]
  /\ closing = "no"
  /\ toClose = {}
  /\ admission = "free"
  /\ lock = [f \in Families |-> "free"]
  /\ cut = [f \in Families |-> None]
  /\ records = [f \in Families |-> None]
  /\ cache = [f \in Families |-> "absent"]
  /\ pc = [r \in Requests |-> "new"]
  /\ fam \in [Requests -> Families]
  /\ target = [r \in Requests |-> None]
  /\ conn = [r \in Requests |-> "none"]
  /\ ready = {}

Closed == closing # "no"

Ended(c) == conn[c] = "done"

\* record.connected and not record.task.done()
Connected(c) == conn[c] \in {"starting", "running", "renewing"}

HasRecord(f) == records[f] # None

\* The record of f is of no use: a new connection is needed.
Unusable(f) == records[f] = None \/ Ended(records[f])

\* The task of connection c has been told to stop.
Cancelled(c) == cut[fam[c]] = c \/ pc[c] \in {"unwinding", "refusing"}

-------------------------------------------------------------------------------
(***************************************************************************)
(* disconnect: the same three steps for a request that evicts, for the end *)
(* of a family and for shutdown.  Without a record there is nothing to     *)
(* wait for.                                                               *)
(***************************************************************************)

Pop(f, holder) ==
  /\ records' = [records EXCEPT ![f] = None]
  /\ IF HasRecord(f)
     THEN /\ lock' = [lock EXCEPT ![f] = holder]
          /\ cut' = [cut EXCEPT ![f] = records[f]]
          /\ UNCHANGED cache
     ELSE /\ cache' = [cache EXCEPT ![f] = "absent"]
          /\ UNCHANGED <<lock, cut>>

Drained(f) ==
  /\ Ended(cut[f])
  /\ lock' = [lock EXCEPT ![f] = "free"]
  /\ cut' = [cut EXCEPT ![f] = None]
  /\ cache' = [cache EXCEPT ![f] = "absent"]

-------------------------------------------------------------------------------
(***************************************************************************)
(* A request: admission and room.                                          *)
(***************************************************************************)

Go(r, to) == pc' = [pc EXCEPT ![r] = to]

Busy == admission # "free" \/ \E r \in Requests : pc[r] = "queued"

\* A family with a live connection does not queue behind others.
Enter(r) ==
  LET f == fam[r]
  IN  /\ pc[r] = "new"
      /\ IF ~ grant[f]
         THEN Go(r, "done") /\ UNCHANGED target
         ELSE IF Busy /\ HasRecord(f) /\ Connected(records[f])
         THEN IF Closed
              THEN Go(r, "done") /\ UNCHANGED target
              ELSE Go(r, "serving") /\ target' = [target EXCEPT ![r] = records[f]]
         ELSE Go(r, "queued") /\ UNCHANGED target
      /\ UNCHANGED <<fam, streamVars, lockVars, endVars, records, cache>>

\* Mutant of Admit: several requests open connections at a time.
AdmitMany(r) ==
  /\ pc[r] = "queued"
  /\ IF grant[fam[r]] /\ ~ Closed THEN Go(r, "pruning") ELSE Go(r, "done")
  /\ UNCHANGED <<fam, target, streamVars, lockVars, endVars, records, cache>>

Admit(r) ==
  /\ pc[r] = "queued"
  /\ admission = "free"
  /\ IF grant[fam[r]] /\ ~ Closed
     THEN Go(r, "pruning") /\ admission' = r
     ELSE Go(r, "done") /\ UNCHANGED admission
  /\ UNCHANGED <<fam, target, streamVars, lock, cut, endVars, records, cache>>

Others(f) == {g \in Families \ {f} : HasRecord(g)}

\* Another family's connection is idle, or it is the one to make room.
Evict(r, g) ==
  /\ pc[r] = "pruning"
  /\ g \in Others(fam[r])
  /\ Go(r, "evicting")
  /\ target' = [target EXCEPT ![r] = g]
  /\ UNCHANGED <<fam, streamVars, lockVars, endVars, records, cache>>

EvictPop(r) ==
  LET g == target[r]
  IN  /\ pc[r] = "evicting"
      /\ lock[g] = "free"
      /\ Pop(g, r)
      /\ Go(r, IF HasRecord(g) THEN "draining" ELSE "pruning")
      /\ UNCHANGED <<fam, target, streamVars, admission, endVars>>

EvictDrained(r) ==
  /\ pc[r] = "draining"
  /\ Drained(target[r])
  /\ Go(r, "pruning")
  /\ UNCHANGED <<fam, target, streamVars, admission, endVars, records>>

\* Mutant of Pruned: the record is the one looked up before the wait.
PrunedStale(r) ==
  LET f == fam[r]
  IN  /\ pc[r] = "pruning"
      /\ Cardinality({g \in Others(f) : ~ Ended(records[g])}) < MaxActive
      /\ IF Unusable(f)
         THEN Go(r, "locking") /\ UNCHANGED admission
         ELSE Go(r, "serving") /\ admission' = "free"
      /\ UNCHANGED <<fam, target, streamVars, lock, cut, endVars, records, cache>>

\* There is room.
Pruned(r) ==
  LET f == fam[r]
  IN  /\ pc[r] = "pruning"
      /\ Cardinality({g \in Others(f) : ~ Ended(records[g])}) < MaxActive
      /\ IF Unusable(f)
         THEN Go(r, "locking") /\ UNCHANGED <<admission, target>>
         ELSE /\ Go(r, "serving")
              /\ admission' = "free"
              /\ target' = [target EXCEPT ![r] = records[f]]
      /\ UNCHANGED <<fam, streamVars, lock, cut, endVars, records, cache>>

\* A request that waits for a lock is cancelled by its client.
Leave(r) ==
  /\ pc[r] \in {"queued", "evicting", "locking", "waiting"}
  /\ Go(r, "done")
  /\ admission' = IF admission = r THEN "free" ELSE admission
  /\ UNCHANGED <<fam, target, streamVars, lock, cut, endVars, records, cache>>

-------------------------------------------------------------------------------
(***************************************************************************)
(* A request: the connection.                                              *)
(***************************************************************************)

\* The request is done with both locks.
Release(r) ==
  /\ admission' = "free"
  /\ lock' = [lock EXCEPT ![fam[r]] = "free"]
  /\ UNCHANGED cut

\* Access is checked under the family's lock, and once more when the coordinator
\* grants the login; a check that fails later is OpenFails.
Lock(r) ==
  LET f == fam[r]
  IN  /\ pc[r] = "locking"
      /\ lock[f] = "free"
      /\ IF grant[f] /\ ~ Closed
         THEN Go(r, "opening") /\ lock' = [lock EXCEPT ![f] = r] /\ UNCHANGED admission
         ELSE Go(r, "done") /\ admission' = "free" /\ UNCHANGED lock
      /\ UNCHANGED <<fam, target, streamVars, cut, endVars, records, cache>>

Opened(r) ==
  /\ pc[r] = "opening"
  /\ Go(r, "loading")
  /\ conn' = [conn EXCEPT ![r] = "open"]
  /\ UNCHANGED <<fam, target, ready, lockVars, endVars, records, cache>>

\* No token, no login, or the request is cancelled.
OpenFails(r) ==
  /\ pc[r] = "opening"
  /\ Go(r, "done")
  /\ Release(r)
  /\ UNCHANGED <<fam, target, streamVars, endVars, records, cache>>

\* The structure has come: the cache begins anew and the task is created.
Loaded(r) ==
  /\ pc[r] = "loading"
  /\ Go(r, "readying")
  /\ conn' = [conn EXCEPT ![r] = "starting"]
  /\ cache' = [cache EXCEPT ![fam[r]] = "waiting"]
  /\ UNCHANGED <<fam, target, ready, lockVars, endVars, records>>

LoadFails(r) ==
  /\ pc[r] = "loading"
  /\ Go(r, "aborting")
  /\ UNCHANGED <<fam, target, streamVars, lockVars, endVars, records, cache>>

Aborted(r) ==
  /\ pc[r] = "aborting"
  /\ Go(r, "done")
  /\ conn' = [conn EXCEPT ![r] = "done"]
  /\ cache' = IF HasRecord(fam[r]) THEN cache ELSE [cache EXCEPT ![fam[r]] = "absent"]
  /\ Release(r)
  /\ UNCHANGED <<fam, target, ready, endVars, records>>

\* The first states have come; access is checked, then the record is published.
Ready(r) ==
  /\ pc[r] = "readying"
  /\ r \in ready
  /\ IF grant[fam[r]] /\ ~ Closed
     THEN /\ Go(r, "serving")
          /\ records' = [records EXCEPT ![fam[r]] = r]
          /\ target' = [target EXCEPT ![r] = r]
          /\ Release(r)
     ELSE /\ Go(r, "refusing")
          /\ UNCHANGED <<records, target, lockVars>>
  /\ UNCHANGED <<fam, streamVars, endVars, cache>>

\* Mutant of NotReady: the task is left to itself.
NotReadyLeft(r) ==
  /\ pc[r] = "readying"
  /\ Go(r, "done")
  /\ cache' = IF HasRecord(fam[r]) THEN cache ELSE [cache EXCEPT ![fam[r]] = "absent"]
  /\ Release(r)
  /\ UNCHANGED <<fam, target, streamVars, endVars, records>>

\* No states in time, or the stream has failed, or the request is cancelled.
NotReady(r) ==
  /\ pc[r] = "readying"
  /\ Go(r, "unwinding")
  /\ UNCHANGED <<fam, target, streamVars, lockVars, endVars, records, cache>>

\* The task had not begun: the request closes the session itself.
CloseUnstarted(r) ==
  /\ pc[r] = "unwinding"
  /\ conn[r] = "open"
  /\ conn' = [conn EXCEPT ![r] = "done"]
  /\ UNCHANGED <<requestVars, ready, lockVars, endVars, records, cache>>

Unwound(r) ==
  /\ pc[r] = "unwinding"
  /\ Ended(r)
  /\ Go(r, "done")
  /\ cache' = [cache EXCEPT ![fam[r]] = IF HasRecord(fam[r]) THEN "down" ELSE "absent"]
  /\ Release(r)
  /\ UNCHANGED <<fam, target, streamVars, endVars, records>>

\* The connection may not be published: it is drained, and its cache cleared.
Refused(r) ==
  /\ pc[r] = "refusing"
  /\ Ended(r)
  /\ Go(r, "done")
  /\ cache' = [cache EXCEPT ![fam[r]] = "absent"]
  /\ Release(r)
  /\ UNCHANGED <<fam, target, streamVars, endVars, records>>

-------------------------------------------------------------------------------
(***************************************************************************)
(* A request: its snapshot, and the structure it may have to refresh over  *)
(* a session of its own.                                                   *)
(***************************************************************************)

Serve(r) ==
  /\ pc[r] = "serving"
  /\ \/ Go(r, "waiting")
     \/ Go(r, "done")
  /\ UNCHANGED <<fam, target, streamVars, lockVars, endVars, records, cache>>

\* The connection that the request uses is still the family's, and connected.
Owns(r) == records[fam[r]] = target[r] /\ Connected(target[r])

RefreshStart(r) ==
  /\ pc[r] = "waiting"
  /\ \A q \in Requests : pc[q] = "refreshing" => target[q] # target[r]
  /\ Go(r, IF Owns(r) THEN "refreshing" ELSE "done")
  /\ UNCHANGED <<fam, target, streamVars, lockVars, endVars, records, cache>>

\* Mutant of RefreshEnd: whoever comes back publishes.
RefreshEndUnowned(r) ==
  /\ pc[r] = "refreshing"
  /\ Go(r, "done")
  /\ \/ UNCHANGED cache
     \/ cache' = [cache EXCEPT ![fam[r]] = IF @ = "current" THEN @ ELSE "waiting"]
  /\ UNCHANGED <<fam, target, streamVars, lockVars, endVars, records>>

\* The structure has come or not; it is published by the owner alone, and the
\* cache applies the new set of visible states.
RefreshEnd(r) ==
  /\ pc[r] = "refreshing"
  /\ Go(r, "done")
  /\ \/ UNCHANGED cache
     \/ /\ Owns(r)
        /\ cache' = [cache EXCEPT ![fam[r]] = IF @ = "current" THEN @ ELSE "waiting"]
  /\ UNCHANGED <<fam, target, streamVars, lockVars, endVars, records>>

-------------------------------------------------------------------------------
(***************************************************************************)
(* The task of a connection.                                               *)
(***************************************************************************)

Stream(c, to) ==
  /\ conn' = [conn EXCEPT ![c] = to]
  /\ UNCHANGED <<requestVars, lockVars, endVars, records>>

\* Its first step.  A task that is cancelled before has done nothing.
Start(c) ==
  /\ conn[c] = "starting"
  /\ Stream(c, IF Cancelled(c) THEN "open" ELSE "running")
  /\ UNCHANGED <<ready, cache>>

\* The pump, a task of its own, applies a batch of states.
Event(c) ==
  /\ conn[c] = "running"
  /\ cache' = [cache EXCEPT ![fam[c]] = "current"]
  /\ ready' = ready \cup {c}
  /\ UNCHANGED <<conn, requestVars, lockVars, endVars, records>>

\* The stream ends, fails or is cancelled: the pump is drained, the record is no
\* longer connected and its values are stale, then the websocket closes.
Stop(c) ==
  /\ conn[c] = "running"
  /\ Stream(c, "closing")
  /\ cache' = [cache EXCEPT ![fam[c]] = "down"]
  /\ UNCHANGED ready

\* The token is due: the pump is drained and the websocket closed first.
Renew(c) ==
  /\ conn[c] = "running"
  /\ Stream(c, "renewing")
  /\ UNCHANGED <<ready, cache>>

\* The token was renewed over a session of its own, or was not.
Renewed(c) ==
  /\ conn[c] = "renewing"
  /\ Stream(c, "closing")
  /\ cache' = [cache EXCEPT ![fam[c]] = "down"]
  /\ UNCHANGED ready

Close(c) ==
  /\ conn[c] = "closing"
  /\ Stream(c, "done")
  /\ UNCHANGED <<ready, cache>>

-------------------------------------------------------------------------------
(***************************************************************************)
(* The end of a family, and of the service.                                *)
(***************************************************************************)

\* This process ends it and creates the revoke task, or the Admin process ends it.
EndGrant(f) ==
  /\ grant[f]
  /\ grant' = [grant EXCEPT ![f] = FALSE]
  /\ \E told \in {"none", "asked"} : notice' = [notice EXCEPT ![f] = told]
  /\ UNCHANGED <<closing, toClose, requestVars, streamVars, lockVars, records, cache>>

\* The expired records of a family are collected in this process.
LateNotice(f) ==
  /\ ~ grant[f]
  /\ notice[f] = "none"
  /\ notice' = [notice EXCEPT ![f] = "asked"]
  /\ UNCHANGED <<grant, closing, toClose, requestVars, streamVars, lockVars, records, cache>>

\* Mutant of RevokePop: a connection that is being opened is not waited for.
RevokePopUnlocked(f) ==
  /\ notice[f] = "asked"
  /\ HasRecord(f) => lock[f] = "free"
  /\ Pop(f, "revoke")
  /\ notice' = [notice EXCEPT ![f] = IF HasRecord(f) THEN "draining" ELSE "done"]
  /\ UNCHANGED <<grant, closing, toClose, requestVars, streamVars, admission>>

\* Mutant of RevokePop: admission is awaited under the family's lock.
RevokePopReversed(f) ==
  /\ notice[f] = "asked"
  /\ \/ /\ lock[f] = "free"
        /\ lock' = [lock EXCEPT ![f] = "revoke"]
        /\ UNCHANGED <<cut, records, cache, notice>>
     \/ /\ lock[f] = "revoke"
        /\ admission = "free"
        /\ lock' = [lock EXCEPT ![f] = IF HasRecord(f) THEN "revoke" ELSE "free"]
        /\ cut' = [cut EXCEPT ![f] = records[f]]
        /\ records' = [records EXCEPT ![f] = None]
        /\ cache' = IF HasRecord(f) THEN cache ELSE [cache EXCEPT ![f] = "absent"]
        /\ notice' = [notice EXCEPT ![f] = IF HasRecord(f) THEN "draining" ELSE "done"]
  /\ UNCHANGED <<grant, closing, toClose, requestVars, streamVars, admission>>

RevokePop(f) ==
  /\ notice[f] = "asked"
  /\ lock[f] = "free"
  /\ Pop(f, "revoke")
  /\ notice' = [notice EXCEPT ![f] = IF HasRecord(f) THEN "draining" ELSE "done"]
  /\ UNCHANGED <<grant, closing, toClose, requestVars, streamVars, admission>>

RevokeDrained(f) ==
  /\ notice[f] = "draining"
  /\ Drained(f)
  /\ notice' = [notice EXCEPT ![f] = "done"]
  /\ UNCHANGED <<grant, closing, toClose, requestVars, streamVars, admission, records>>

CloseAsk ==
  /\ closing = "no"
  /\ closing' = "asked"
  /\ UNCHANGED <<grant, notice, toClose, requestVars, streamVars, lockVars, records, cache>>

CloseAdmit ==
  /\ closing = "asked"
  /\ admission = "free"
  /\ admission' = "close"
  /\ closing' = "holding"
  /\ toClose' = {f \in Families : HasRecord(f)}
  /\ UNCHANGED <<grant, notice, requestVars, streamVars, lock, cut, records, cache>>

ClosePop(f) ==
  /\ closing = "holding"
  /\ f \in toClose
  /\ lock[f] = "free"
  /\ Pop(f, "close")
  /\ IF HasRecord(f)
     THEN closing' = "draining" /\ UNCHANGED toClose
     ELSE toClose' = toClose \ {f} /\ UNCHANGED closing
  /\ UNCHANGED <<grant, notice, requestVars, streamVars, admission>>

CloseDrained(f) ==
  /\ closing = "draining"
  /\ lock[f] = "close"
  /\ Drained(f)
  /\ closing' = "holding"
  /\ toClose' = toClose \ {f}
  /\ UNCHANGED <<grant, notice, requestVars, streamVars, admission, records>>

CloseDone ==
  /\ closing = "holding"
  /\ toClose = {}
  /\ closing' = "done"
  /\ cache' = [f \in Families |-> "absent"]
  /\ admission' = "free"
  /\ UNCHANGED <<grant, notice, toClose, requestVars, streamVars, lock, cut, records>>

-------------------------------------------------------------------------------

Request(r) ==
  \/ Enter(r) \/ Admit(r) \/ EvictPop(r) \/ EvictDrained(r) \/ Pruned(r) \/ Leave(r)
  \/ \E g \in Families : Evict(r, g)
  \/ Lock(r) \/ Opened(r) \/ OpenFails(r) \/ Loaded(r) \/ LoadFails(r) \/ Aborted(r)
  \/ Ready(r) \/ NotReady(r) \/ CloseUnstarted(r) \/ Unwound(r) \/ Refused(r)
  \/ Serve(r) \/ RefreshStart(r) \/ RefreshEnd(r)

Task(c) == Start(c) \/ Event(c) \/ Stop(c) \/ Renew(c) \/ Renewed(c) \/ Close(c)

Revocation(f) == EndGrant(f) \/ LateNotice(f) \/ RevokePop(f) \/ RevokeDrained(f)

Shutdown ==
  CloseAsk \/ CloseAdmit \/ CloseDone \/ \E f \in Families : ClosePop(f) \/ CloseDrained(f)

Next ==
  \/ \E r \in Requests : Request(r) \/ Task(r)
  \/ \E f \in Families : Revocation(f)
  \/ Shutdown

Spec == Init /\ [][Next]_vars

\* A request that can go on does, whether or not its client leaves: the network,
\* the login and the wait for the first states are bounded by time limits.
Progress(r) ==
  \/ Enter(r) \/ Admit(r) \/ EvictPop(r) \/ EvictDrained(r) \/ Pruned(r)
  \/ \E g \in Families : Evict(r, g)
  \/ Lock(r) \/ Opened(r) \/ OpenFails(r) \/ Loaded(r) \/ LoadFails(r) \/ Aborted(r)
  \/ Ready(r) \/ NotReady(r) \/ CloseUnstarted(r) \/ Unwound(r) \/ Refused(r)
  \/ Serve(r) \/ RefreshStart(r) \/ RefreshEnd(r)

\* A stream may last for ever, unless its task is cancelled.
StopCancelled(c) == Cancelled(c) /\ Stop(c)

FairSpec ==
  /\ Spec
  /\ \A r \in Requests :
       /\ WF_vars(Progress(r))
       /\ WF_vars(Start(r) \/ StopCancelled(r) \/ Renewed(r) \/ Close(r))
  /\ \A f \in Families : WF_vars(RevokePop(f) \/ RevokeDrained(f))
  /\ WF_vars(CloseAdmit \/ CloseDone \/ \E f \in Families : ClosePop(f) \/ CloseDrained(f))

-------------------------------------------------------------------------------
(***************************************************************************)
(* Properties.                                                             *)
(***************************************************************************)

TypeOK ==
  /\ grant \in [Families -> BOOLEAN]
  /\ notice \in [Families -> {"none", "asked", "draining", "done"}]
  /\ closing \in {"no", "asked", "holding", "draining", "done"}
  /\ toClose \subseteq Families
  /\ admission \in Requests \cup {"free", "close"}
  /\ lock \in [Families -> Requests \cup {"free", "revoke", "close"}]
  /\ cut \in [Families -> Requests \cup {None}]
  /\ records \in [Families -> Requests \cup {None}]
  /\ cache \in [Families -> CacheStates]
  /\ pc \in [Requests -> PCs]
  /\ fam \in [Requests -> Families]
  /\ target \in [Requests -> Families \cup Requests \cup {None}]
  /\ \A r \in Requests :
       /\ pc[r] \in {"evicting", "draining"} => target[r] \in Families
       /\ pc[r] \in {"serving", "waiting", "refreshing"} => target[r] \in Requests
  /\ conn \in [Requests -> ConnStates]
  /\ ready \subseteq Requests

Alive(c) == conn[c] \notin {"none", "done"}

\* Concurrent new families keep to the limit of active sessions (#318): no more
\* connections are published or being opened than the limit, those that somebody
\* is tearing down left aside.
CapacityKept == Cardinality({c \in Requests : Alive(c) /\ ~ Cancelled(c)}) <= MaxActive

\* No session outlives those who know of it: its request is still opening it, or
\* it is published, or somebody has cancelled it and waits for its end.
NoStreamLeft ==
  \A c \in Requests : Alive(c) =>
    pc[c] \in Connecting \/ records[fam[c]] = c \/ cut[fam[c]] = c

\* No late step recreates the cache of a family that was cleaned up (#319), and
\* values are current only while a connection is open that has streamed them (#320).
CacheFollowsStream ==
  \A f \in Families :
    /\ cache[f] # "absent" => HasRecord(f) \/ lock[f] # "free"
    /\ cache[f] = "current" =>
         \E c \in Requests : fam[c] = f /\ c \in ready /\ conn[c] \in {"running", "renewing"}

\* What is over leaves nothing and does not come back, whatever requests were on the
\* way: the connections and values of an ended family once its revoke task is done, and
\* all of them once close is done (#324), unless a revoke task had taken a connection
\* over before and is still draining it.
OverIsOver ==
  /\ \A f \in Families : notice[f] = "done" =>
       /\ ~ HasRecord(f)
       /\ cache[f] = "absent"
       /\ \A c \in Requests : fam[c] = f => ~ Alive(c)
  /\ closing = "done" => \A f \in Families :
       /\ ~ HasRecord(f)
       /\ cache[f] # "absent" => lock[f] = "revoke"
       /\ \A c \in Requests : fam[c] = f /\ Alive(c) => cut[f] = c /\ lock[f] = "revoke"

\* Nobody is on the way: no request, revoke task or close.
Quiet ==
  /\ \A r \in Requests : pc[r] \in {"new", "done"}
  /\ \A f \in Families : notice[f] \in {"none", "done"}
  /\ closing \in {"no", "done"}

\* Nobody waits for ever.  Each request, revoke task and close is made at most once,
\* so the locks and waits of #318 and #324 let all of them come to an end, under
\* whatever the others do.
EverythingEnds == <>[]Quiet

\* "invalidates connection status and cache freshness on every terminal stream
\* path, after draining the pump and before awaiting websocket teardown"
\* (docs/development/runtime-lifecycle-audit.md:45): values are current only while
\* a pump runs.
CurrentMeansPumped ==
  \A f \in Families : cache[f] = "current" =>
    \E c \in Requests : fam[c] = f /\ conn[c] = "running"

===============================================================================
