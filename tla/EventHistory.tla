----------------------------- MODULE EventHistory ------------------------------
(***************************************************************************)
(* The local event history (loxone/event_history.py): a recorder task that *)
(* subscribes to the selected states, and the SQLite store it writes       *)
(* changes and capture intervals (rows of "coverage") to.  Every write is  *)
(* one transaction in a thread of its own; a cancelled task leaves the     *)
(* thread it waited for behind.                                            *)
(*                                                                         *)
(* Time goes in steps of two: odd numbers are the instants between, such   *)
(* as the retention limit and nextafter of an evicted event.  Not          *)
(* modelled: weather and solar recordings, removed_sources and the byte    *)
(* totals (display), migrations of old files.                              *)
(***************************************************************************)
EXTENDS Integers, FiniteSets, SequencesExt

CONSTANTS
  Sources,      \* pairs of a control and a state that may be selected
  StateOf,      \* the state of each source: one event reports it for all of them
  Values,
  Retention,    \* retention_seconds
  MaxRecords,   \* maximum_bytes: events and capture intervals that fit
  Batch,        \* records dropped at a time when they do not
  NoValue,
  MaxTime,      \* bound: the clock
  MaxFaults     \* bound: failed writes, lost connections and crashes

Parameters ==
  /\ IsFiniteSet(Sources) /\ Sources # {}
  /\ DOMAIN StateOf = Sources
  /\ NoValue \notin Values
  /\ Retention \in Nat /\ Retention % 2 = 1
  /\ Batch \in Nat \ {0} /\ MaxRecords \in Nat /\ MaxFaults \in Nat
  /\ MaxTime \in Nat /\ MaxTime % 2 = 0

VARIABLES
  now,
  sources,   \* configured sources
  store,     \* the database: see Init
  recorder,  \* the task: see Init
  left,      \* writes of cancelled tasks that are still to be carried out
  seen,      \* history: what the recorder was told each source to be, by time
  faults

vars == <<now, sources, store, recorder, left, seen, faults>>

Times == {t \in 0..MaxTime : t % 2 = 0}
Never == MaxTime + 1                 \* ended_at of an interval that is not over

States == {StateOf[s] : s \in Sources}
NoBase == [p \in States |-> NoValue]
Idle(pc) == [pc |-> pc, active |-> {}, base |-> NoBase, at |-> 0, todo |-> {}, value |-> NoValue]

Init ==
  /\ now = 0
  /\ sources \in SUBSET Sources
  /\ store = [events |-> <<>>,       \* by observed_at, then id
              rows |-> <<>>,         \* coverage, by id
              totals |-> [s \in Sources |-> 0]]
  /\ recorder = Idle("starting")
  /\ left = {}
  /\ seen = [t \in Times |-> [s \in Sources |-> "unknown"]]
  /\ faults = 0

Fault == faults < MaxFaults /\ faults' = faults + 1
NoFault == faults' = faults

-------------------------------------------------------------------------------
(***************************************************************************)
(* The store.                                                              *)
(***************************************************************************)

Used(d) == Len(d.events) + Len(d.rows)
Counted(d) ==
  [d EXCEPT !.totals = [s \in Sources |-> Cardinality({k \in DOMAIN d.events : d.events[k].src = s})]]

\* An interval that starts later than it did knows no initial value.
From(r, t) == [r EXCEPT !.start = t, !.init = NoValue]
Moved(rows, bound) == [k \in DOMAIN rows |->
  LET r == rows[k]
  IN  IF r.start < bound[r.src] /\ bound[r.src] < r.end THEN From(r, bound[r.src]) ELSE r]

\* Older than the retention period
Aged(d, t) ==
  LET cutoff == t - Retention
  IN  [d EXCEPT !.events = SelectSeq(@, LAMBDA e : e.at >= cutoff),
                !.rows = SelectSeq(Moved(@, [s \in Sources |-> cutoff]), LAMBDA r : r.end >= cutoff)]

\* The oldest events go, and with them every claim on the time up to them.
Evicted(d) ==
  LET n == IF Len(d.events) < Batch THEN Len(d.events) ELSE Batch
      gone == SubSeq(d.events, 1, n)
      Ats(s) == {gone[k].at : k \in {j \in DOMAIN gone : gone[j].src = s}}
      bound == [s \in Sources |-> IF Ats(s) = {} THEN -1 ELSE 1 + Max(Ats(s))]
  IN  [d EXCEPT !.events = SubSeq(@, n + 1, Len(@)),
                !.rows = Moved(SelectSeq(@, LAMBDA r : r.end > bound[r.src]), bound)]

\* Without events the intervals that ended first go.
Ended(d) == {k \in DOMAIN d.rows : d.rows[k].end # Never}
Forgotten(d) ==
  LET first == CHOOSE k \in Ended(d) : \A j \in Ended(d) :
                 d.rows[k].end < d.rows[j].end \/ (d.rows[k].end = d.rows[j].end /\ k <= j)
  IN  [d EXCEPT !.rows = RemoveAt(@, first)]

\* One round: a batch of events, or else of ended intervals, when there are too many
\* records.  Each round drops one at least, so Used(d) rounds are enough.
Shrink(d) ==
  IF Used(d) <= MaxRecords THEN d
  ELSE IF d.events # <<>> THEN Evicted(d)
  ELSE FoldLeft(LAMBDA c, k : IF Ended(c) = {} THEN c ELSE Forgotten(c), d, [k \in 1..Batch |-> k])
Shrunk(d) == FoldLeft(LAMBDA c, k : Shrink(c), d, [k \in 1..Used(d) |-> k])

\* _prune
Pruned(d, t) ==
  LET c == Shrunk(Aged(d, t)) IN IF Len(c.events) # Len(d.events) THEN Counted(c) ELSE c

\* Mutant of Interrupted: as if the capture had gone on until now.
InterruptedNow(d) ==
  [d EXCEPT !.rows = [k \in DOMAIN @ |-> IF @[k].end = Never THEN [@[k] EXCEPT !.end = now]
                                       ELSE @[k]]]

\* initialize: nobody knows how long a capture went on that was not ended
Interrupted(d) ==
  [d EXCEPT !.rows = [k \in DOMAIN @ |-> IF @[k].end = Never THEN [@[k] EXCEPT !.end = d.rows[k].start]
                                       ELSE @[k]]]

\* begin_coverage
Begun(d, active, base, t) ==
  [d EXCEPT !.rows = @ \o FoldLeft(
     LAMBDA rows, s : Append(rows, [src |-> s, start |-> t, end |-> Never, init |-> base[StateOf[s]]]),
     <<>>, SetToSeq(active))]

\* end_coverage: the last open interval of each source
Closed(d, active, t) ==
  LET open(s) == {k \in DOMAIN d.rows : d.rows[k].src = s /\ d.rows[k].end = Never}
  IN  [d EXCEPT !.rows = [k \in DOMAIN @ |->
         IF \E s \in active : k \in open(s) /\ k = Max(open(s)) THEN [@[k] EXCEPT !.end = t] ELSE @[k]]]

\* record_transition
Recorded(d, s, t, v) ==
  LET e == [src |-> s, at |-> t, value |-> v]
  IN  Pruned([d EXCEPT !.events = SelectSeq(@, LAMBDA o : o.at <= t) \o <<e>>
                                     \o SelectSeq(@, LAMBDA o : o.at > t),
                       !.totals[s] = @ + 1], t)

-------------------------------------------------------------------------------
(***************************************************************************)
(* The clock, and what the recorder was told while it ran.                 *)
(***************************************************************************)

\* A change of s was delivered and is not stored.
Unwritten(s) == recorder.pc = "write" /\ s \in recorder.todo

\* "over": the capture has ended, and its end is being written
Told(s) ==
  IF recorder.pc \notin {"begin", "capture", "write", "ending"} \/ s \notin recorder.active THEN "unknown"
  ELSE IF recorder.pc = "ending" THEN "over"
  ELSE IF Unwritten(s) THEN "lost"
  ELSE IF recorder.pc = "write" /\ StateOf[s] = StateOf[CHOOSE r \in recorder.todo : TRUE]
  THEN recorder.value
  ELSE recorder.base[StateOf[s]]

Tick ==
  /\ now < MaxTime
  /\ now' = now + 2
  /\ seen' = [seen EXCEPT ![now] = [s \in Sources |-> Told(s)]]
  /\ UNCHANGED <<sources, store, recorder, left, faults>>

\* What was seen, once a change of s delivered at t is stored after all.
Caught(s, t, v) ==
  [u \in Times |->
    IF u >= t /\ \A w \in Times : t <= w /\ w <= u => seen[w][s] = "lost"
    THEN [seen[u] EXCEPT ![s] = v] ELSE seen[u]]

-------------------------------------------------------------------------------
(***************************************************************************)
(* The recorder.                                                           *)
(***************************************************************************)

\* start: the task is created if there is something to record.
Start ==
  /\ recorder.pc = "starting"
  /\ store' = Pruned(Interrupted(store), now)
  /\ recorder' = Idle(IF sources = {} THEN "off" ELSE "init")
  /\ NoFault
  /\ UNCHANGED <<now, sources, left, seen>>

StartFails ==
  /\ recorder.pc = "starting"
  /\ store' \in {store, Interrupted(store)}
  /\ recorder' = Idle("off")
  /\ Fault
  /\ UNCHANGED <<now, sources, left, seen>>

\* _run, from the top of its loop to the subscription.  Assumed: start's own
\* initialize overtakes a write left behind, this one does not.
Initialize ==
  /\ recorder.pc = "init" /\ left = {}
  /\ store' = Pruned(Interrupted(store), now)
  /\ recorder' = Idle("connect")
  /\ NoFault
  /\ UNCHANGED <<now, sources, left, seen>>

InitializeFails ==
  /\ recorder.pc = "init"
  /\ store' \in {store, Interrupted(store)}
  /\ recorder' = Idle("failed")
  /\ Fault
  /\ UNCHANGED <<now, sources, left, seen>>

\* A log-in takes time: what an earlier capture wrote is older.
LoggedIn ==
  /\ \A k \in DOMAIN store.events : store.events[k].at < now
  /\ \A k \in Ended(store) : store.rows[k].end < now

Connect ==
  /\ recorder.pc = "connect" /\ LoggedIn
  /\ \E visible \in SUBSET sources :
       recorder' = IF visible = {} THEN Idle("failed")
                   ELSE [Idle("baseline") EXCEPT !.active = visible]
  /\ NoFault
  /\ UNCHANGED <<now, sources, store, left, seen>>

\* The connection ends: capture is over at the time this is noticed.
Disconnect ==
  /\ recorder.pc \in {"connect", "baseline", "capture"}
  /\ recorder' = IF recorder.pc = "capture"
                 THEN [Idle("ending") EXCEPT !.active = recorder.active, !.at = now]
                 ELSE Idle("failed")
  /\ Fault
  /\ UNCHANGED <<now, sources, store, left, seen>>

Retry ==
  /\ recorder.pc = "failed"
  /\ recorder' = Idle("init")
  /\ NoFault
  /\ UNCHANGED <<now, sources, store, left, seen>>

\* An event: the first values of all states begin a capture, later ones are changes.
Event(p, v) ==
  /\ \E s \in recorder.active : StateOf[s] = p
  /\ \/ /\ recorder.pc = "baseline"
        /\ LET base == [recorder.base EXCEPT ![p] = v]
               all == \A s \in recorder.active : base[StateOf[s]] # NoValue
           IN  recorder' = [recorder EXCEPT !.base = base, !.pc = IF all THEN "begin" ELSE @,
                                            !.at = IF all THEN now ELSE @]
     \/ /\ recorder.pc = "capture" /\ recorder.base[p] # v
        /\ recorder' = [recorder EXCEPT !.pc = "write", !.at = now, !.value = v,
                                        !.todo = {s \in recorder.active : StateOf[s] = p}]
  /\ NoFault
  /\ UNCHANGED <<now, sources, store, left, seen>>

Begin ==
  /\ recorder.pc = "begin"
  /\ store' = Begun(store, recorder.active, recorder.base, recorder.at)
  /\ recorder' = [recorder EXCEPT !.pc = "capture", !.at = 0]
  /\ NoFault
  /\ UNCHANGED <<now, sources, left, seen>>

BeginFails ==
  /\ recorder.pc = "begin"
  /\ recorder' = Idle("failed")
  /\ Fault
  /\ UNCHANGED <<now, sources, store, left, seen>>

Record(s) ==
  /\ recorder.pc = "write" /\ s \in recorder.todo
  /\ LET p == StateOf[s]
         rest == recorder.todo \ {s}
     IN  /\ store' = Recorded(store, s, recorder.at, recorder.value)
         /\ seen' = Caught(s, recorder.at, recorder.value)
         /\ recorder' = IF rest # {} THEN [recorder EXCEPT !.todo = rest]
                        ELSE [recorder EXCEPT !.pc = "capture", !.base[p] = recorder.value,
                                              !.at = 0, !.todo = {}, !.value = NoValue]
  /\ NoFault
  /\ UNCHANGED <<now, sources, left>>

\* A write that fails, or that was committed and could not be compacted
RecordFails(s) ==
  /\ recorder.pc = "write" /\ s \in recorder.todo
  /\ \/ UNCHANGED <<store, seen>>
     \/ /\ store' = Recorded(store, s, recorder.at, recorder.value)
        /\ seen' = Caught(s, recorder.at, recorder.value)
  /\ recorder' = [Idle("ending") EXCEPT !.active = recorder.active, !.at = now]
  /\ Fault
  /\ UNCHANGED <<now, sources, left>>

\* The end of the capture is written when the error is handled, and again in the
\* finally block if the task is cancelled meanwhile.
After == IF recorder.pc = "ending" THEN "failed" ELSE "starting"

End ==
  /\ recorder.pc \in {"ending", "closing"}
  /\ store' = Closed(store, recorder.active, recorder.at)
  /\ recorder' = Idle(After)
  /\ NoFault
  /\ UNCHANGED <<now, sources, left, seen>>

EndFails ==
  /\ recorder.pc \in {"ending", "closing"}
  /\ recorder' = Idle(After)
  /\ Fault
  /\ UNCHANGED <<now, sources, store, left, seen>>

\* The write the task waits for: its thread goes on without it.
Awaited ==
  LET Op(op, active, at) == [op |-> op, active |-> active, at |-> at, base |-> recorder.base,
                             value |-> recorder.value]
  IN  CASE recorder.pc = "init" -> {Op("initialize", {}, now)}
        [] recorder.pc = "begin" -> {Op("begin", recorder.active, recorder.at)}
        [] recorder.pc = "write" -> {Op("record", {s}, recorder.at) : s \in recorder.todo}
        [] recorder.pc = "ending" -> {Op("end", recorder.active, recorder.at)}
        [] OTHER -> {}

\* update_config, with the service's shutdown and next start as the case that the
\* sources stay the same
Reconfigure(new) ==
  /\ recorder.pc \notin {"starting", "closing"}
  /\ sources' = new
  /\ \/ Awaited = {} /\ left' = left
     \/ \E op \in Awaited : left' = left \cup {op}
  /\ recorder' = IF recorder.pc \in {"capture", "write", "ending"}
                 THEN [Idle("closing") EXCEPT !.active = recorder.active, !.at = now]
                 ELSE Idle("starting")
  /\ NoFault
  /\ UNCHANGED <<now, store, seen>>

LeftOver(op) ==
  /\ left' = left \ {op}
  /\ store' = CASE op.op = "initialize" -> Pruned(Interrupted(store), now)
                [] op.op = "begin" -> Begun(store, op.active, op.base, op.at)
                [] op.op = "end" -> Closed(store, op.active, op.at)
                [] op.op = "record" -> Recorded(store, CHOOSE s \in op.active : TRUE, op.at, op.value)
  /\ seen' = IF op.op = "record" THEN Caught(CHOOSE s \in op.active : TRUE, op.at, op.value) ELSE seen
  /\ NoFault
  /\ UNCHANGED <<now, sources, recorder>>

LeftOverFails(op) ==
  /\ left' = left \ {op}
  /\ Fault
  /\ UNCHANGED <<now, sources, store, recorder, seen>>

Crash ==
  /\ recorder' = Idle("starting")
  /\ left' = {}
  /\ Fault
  /\ UNCHANGED <<now, sources, store, seen>>

-------------------------------------------------------------------------------
(***************************************************************************)
(* Readers and the Admin page.                                             *)
(***************************************************************************)

\* page, coverage_many: reading prunes first.
Read ==
  /\ store' = Pruned(store, now)
  /\ NoFault
  /\ UNCHANGED <<now, sources, recorder, left, seen>>

\* purge_source of a source that is no longer configured
Purge(s) ==
  /\ s \notin sources
  /\ store' = [events |-> SelectSeq(store.events, LAMBDA e : e.src # s),
               rows |-> SelectSeq(store.rows, LAMBDA r : r.src # s),
               totals |-> [store.totals EXCEPT ![s] = 0]]
  /\ NoFault
  /\ UNCHANGED <<now, sources, recorder, left, seen>>

\* clear, with the service stopped
Clear ==
  /\ recorder.pc = "starting" /\ left = {}
  /\ store' = [events |-> <<>>, rows |-> <<>>, totals |-> [s \in Sources |-> 0]]
  /\ NoFault
  /\ UNCHANGED <<now, sources, recorder, left, seen>>

Next ==
  \/ Tick
  \/ Start \/ StartFails \/ Initialize \/ InitializeFails
  \/ Connect \/ Disconnect \/ Retry
  \/ \E p \in States, v \in Values : Event(p, v)
  \/ Begin \/ BeginFails
  \/ \E s \in Sources : Record(s) \/ RecordFails(s)
  \/ End \/ EndFails
  \/ \E new \in SUBSET Sources : Reconfigure(new)
  \/ \E op \in left : LeftOver(op) \/ LeftOverFails(op)
  \/ Crash
  \/ Read \/ Clear
  \/ \E s \in Sources : Purge(s)

Spec == Init /\ [][Next]_vars

-------------------------------------------------------------------------------
(***************************************************************************)
(* Properties.                                                             *)
(***************************************************************************)

\* The store is well formed, and the totals shown for a source are those of its events.
TypeOK ==
  /\ now \in Times /\ sources \subseteq Sources /\ faults \in 0..MaxFaults
  /\ store.totals = Counted(store).totals
  /\ \A k \in DOMAIN store.events : store.events[k].src \in Sources /\ store.events[k].value \in Values
  /\ \A j, k \in DOMAIN store.events : j < k => store.events[j].at <= store.events[k].at
  /\ \A k \in DOMAIN store.rows :
       LET r == store.rows[k]
       IN  /\ r.src \in Sources /\ r.init \in Values \cup {NoValue}
           /\ r.start \in 0..MaxTime /\ r.end \in 0..Never
  /\ recorder.active \subseteq Sources
  /\ recorder.todo \subseteq recorder.active

\* analysis_phases: an interval is read up to now and back to the retention limit;
\* a value is the last one stored in it, or else its initial value.
PhaseStart(r) == IF r.start < now - Retention THEN now - Retention ELSE r.start
Covers(r, t) == PhaseStart(r) <= t /\ t < r.end /\ t < now
ReadAt(r, t) ==
  LET changes == SelectSeq(store.events, LAMBDA e : e.src = r.src /\ PhaseStart(r) <= e.at /\ e.at <= t)
  IN  IF changes # <<>> THEN Last(changes).value
      ELSE IF r.start >= now - Retention THEN r.init ELSE NoValue

\* Intervals that are over
Past == {store.rows[k] : k \in Ended(store)}

\* "Reconnect gaps stay gaps" (docs/user/capabilities.en.md:46), also over crashes,
\* writes left behind and eviction: an interval covers no time at which the recorder
\* was not capturing its source, and what is read from it is what the recorder was
\* told.  Excepted are the time a capture's end takes to be written and changes that
\* could not be stored (CoverageIsCapture).
PhasesAreTrue ==
  \A r \in Past, t \in Times :
    Covers(r, t) =>
      seen[t][r.src] \in {"lost", "over"} \cup
                        (IF ReadAt(r, t) = NoValue THEN Values ELSE {ReadAt(r, t)})

\* "Only `coverage` establishes capture for the requested period"
\* (docs/user/capabilities.en.md:304): in a covered period every change was stored.
CoverageIsCapture ==
  \A r \in Past, t \in Times : Covers(r, t) => seen[t][r.src] # "lost"
===============================================================================
