--------------------------- MODULE AuthCoordinator ---------------------------
(***************************************************************************)
(* The circuit breaker before every Miniserver login                       *)
(* (src/mcpserver/loxone/auth_diagnostics.py).                             *)
(*                                                                         *)
(* Several coordinators, in the service and in Admin processes, share one  *)
(* file.  A login attempt holds an interprocess lock from the reload of    *)
(* that file to the save of its outcome, so at most one attempt is under   *)
(* way.  It is admitted by what the file says, reserves in the file what a *)
(* crash would otherwise forget, uses the network and records the outcome. *)
(* A coordinator that could not save goes on with its own copy and denies  *)
(* further attempts.                                                       *)
(*                                                                         *)
(* The code stores timestamps and compares them with the clock.  Here each *)
(* is the time left until it has passed, and Tick counts it down.  Events  *)
(* and counters kept for display are left out, and so are denials that     *)
(* change nothing: a held lock, an unreadable file, a pause, a reservation *)
(* or a coordinator that could not save.  Left out is also force_probe,    *)
(* which no caller sets.                                                   *)
(***************************************************************************)
EXTENDS Integers

CONSTANTS
  Coordinators,  \* MiniserverAuthCoordinator objects over the same file
  NoOne,         \* no coordinator
  MaxLevel,      \* cap of backoff_level, 31 in the code
  Delay,         \* backoff level -> source-IP recovery delay
  MaxGuardLevel, \* cap of a guard's level, 6 in the code
  Pause,         \* guard level -> pause after rejections
  LongestPause,  \* what a reservation covers at least, 3600 seconds
  Limit,         \* rejections that start a pause, 3 in the code
  Window,        \* ... when they lie this close together, 300 seconds
  ProbeGap,      \* least distance of an early probe, 60 seconds
  AttemptTime    \* an attempt is answered or times out within this time

Max2(a, b) == IF a >= b THEN a ELSE b
Min2(a, b) == IF a <= b THEN a ELSE b

ASSUME Parameters ==
  /\ NoOne \notin Coordinators
  /\ MaxLevel \in Nat
  /\ Delay \in [0..MaxLevel -> Nat]
  /\ \A i, j \in 0..MaxLevel : i <= j => Delay[i] <= Delay[j]
  /\ MaxGuardLevel \in Nat
  /\ Pause \in [0..MaxGuardLevel -> Nat]
  /\ LongestPause \in Nat
  /\ \A i \in 0..MaxGuardLevel : Pause[i] <= LongestPause
  /\ Limit \in Nat \ {0}
  /\ Window \in Nat
  /\ ProbeGap \in Nat
  /\ AttemptTime \in Nat
  /\ Max2(Window, ProbeGap) + AttemptTime <= LongestPause

\* failure_guard and public_failure_guard
Guards == {"trusted", "public"}

\* Who asks: the runtime and login cleanup; background services and the token
\* cleanup worker, which never probe an open breaker; the sign-in page; the
\* early probe an administrator asks for.
Callers == {"runtime", "background", "public", "early"}

VARIABLES
  disk,     \* the shared file
  mem,      \* coordinator -> the state it loaded or saved last
  retain,   \* coordinators that could not save: they do not reload
  pc,       \* the attempt under way: "free" (none), "operation", "token"
  by,       \* the coordinator that runs it
  caller,   \* on behalf of whom
  age,      \* time since it was admitted
  owed,     \* the waits that the answers of the Miniserver call for
  stale     \* a copy older than the file was written over the file

attemptVars == <<pc, by, caller, age>>
vars == <<disk, mem, retain, attemptVars, owed, stale>>

\* The failures of the last Window, newest first: the time left until each is
\* too old to count; 0 when there are fewer.
NoFailures == [i \in 1..Limit |-> 0]

OneMore(fails) == [i \in 1..Limit |-> IF i = 1 THEN Window ELSE fails[i - 1]]

Fallback ==
  [open |-> FALSE, retry |-> 0, level |-> 0, pending |-> 0,
   guard |-> [g \in Guards |->
     [fails |-> NoFailures, level |-> 0, paused |-> FALSE,
      until |-> 0, probe |-> 0, pending |-> 0]]]

Init ==
  /\ disk = Fallback
  /\ mem = [p \in Coordinators |-> Fallback]
  /\ retain = {}
  /\ pc = "free"
  /\ by = NoOne
  /\ caller = "none"
  /\ age = 0
  /\ owed = [block |-> 0, pause |-> [g \in Guards |-> 0],
             fails |-> [g \in Guards |-> NoFailures], probe |-> 0]
  /\ stale = FALSE

-------------------------------------------------------------------------------
(***************************************************************************)
(* Time.                                                                   *)
(***************************************************************************)

Less(t) == Max2(t - 1, 0)

FailuresLater(fails) == [i \in 1..Limit |-> Less(fails[i])]

GuardLater(g) ==
  [g EXCEPT !.fails = FailuresLater(@), !.until = Less(@), !.probe = Less(@),
            !.pending = Less(@)]

StateLater(s) ==
  [s EXCEPT !.retry = Less(@), !.pending = Less(@),
            !.guard = [g \in Guards |-> GuardLater(@[g])]]

OwedLater(o) ==
  [block |-> Less(o.block), pause |-> [g \in Guards |-> Less(o.pause[g])],
   fails |-> [g \in Guards |-> FailuresLater(o.fails[g])], probe |-> Less(o.probe)]

Tick ==
  /\ pc = "free" \/ age < AttemptTime
  /\ disk' = StateLater(disk)
  /\ mem' = [p \in Coordinators |-> StateLater(mem[p])]
  /\ age' = IF pc = "free" THEN 0 ELSE age + 1
  /\ owed' = OwedLater(owed)
  /\ UNCHANGED <<retain, pc, by, caller, stale>>

-------------------------------------------------------------------------------
(***************************************************************************)
(* The shared file.                                                        *)
(***************************************************************************)

\* What the coordinator works with once it has the lock: _reload_state.
Reloaded(p) == IF p \in retain THEN mem[p] ELSE disk

Save(p, s) ==
  /\ disk' = s
  /\ mem' = [mem EXCEPT ![p] = s]
  /\ retain' = retain \ {p}

\* A write error, before or after the file was replaced.
SaveFails(p, s) ==
  /\ disk' \in {disk, s}
  /\ mem' = [mem EXCEPT ![p] = s]
  /\ retain' = retain \cup {p}

SaveBestEffort(p, s) == Save(p, s) \/ SaveFails(p, s)

\* current_status, or a new coordinator in a restarted process.
Reload(p) ==
  /\ by # p
  /\ p \notin retain
  /\ mem' = [mem EXCEPT ![p] = disk]
  /\ UNCHANGED <<disk, retain, attemptVars, owed, stale>>

Restart(p) ==
  /\ by # p
  /\ p \in retain
  /\ mem' = [mem EXCEPT ![p] = disk]
  /\ retain' = retain \ {p}
  /\ UNCHANGED <<disk, attemptVars, owed, stale>>

-------------------------------------------------------------------------------
(***************************************************************************)
(* Admission.                                                              *)
(***************************************************************************)

\* The guards an attempt must find open.
Checked(c) == IF c \in {"public", "early"} THEN Guards ELSE {"trusted"}

Suppressed(s, c) == s.open /\ (c = "background" \/ s.retry > 0)

Admits(s, c) ==
  /\ ~ Suppressed(s, c)
  /\ s.pending = 0
  /\ \A g \in Checked(c) :
       /\ s.guard[g].pending = 0
       /\ IF c = "early" THEN s.guard[g].probe = 0 ELSE s.guard[g].until = 0

\* The delay of the next block, on top of the one that is open.
NextDelay(s) == Delay[Min2(s.level + 1, MaxLevel)]

RecoveryReservation(s) ==
  Max2(Max2(LongestPause, Delay[0]), IF s.open THEN NextDelay(s) ELSE 0)

Reserve(s, guards) ==
  [s EXCEPT !.guard = [g \in Guards |->
     IF g \in guards
     THEN [@[g] EXCEPT !.probe = ProbeGap, !.pending = RecoveryReservation(s)]
     ELSE @[g]]]

\* Mutant of Reservation: a block that a crash leaves unrecorded is forgotten.
ReservationOfGuards(s, c) == Reserve(s, IF c = "public" THEN {"public"} ELSE Checked(c))

\* The sign-in page reserves the trusted guard only for its token phase.
Reservation(s, c) ==
  [Reserve(s, IF c = "public" THEN {"public"} ELSE Checked(c))
     EXCEPT !.pending = IF s.open THEN NextDelay(s) ELSE Delay[0]]

Admit(p, c) ==
  /\ pc = "free"
  /\ p \notin retain
  /\ Admits(disk, c)
  /\ Save(p, Reservation(disk, c))
  /\ pc' = "operation"
  /\ by' = p
  /\ caller' = c
  /\ age' = 0
  /\ owed' = [owed EXCEPT !.probe = ProbeGap]
  /\ UNCHANGED stale

\* The reservation cannot be saved: nothing is sent.
AdmitFails(p, c) ==
  /\ pc = "free"
  /\ p \notin retain
  /\ Admits(disk, c)
  /\ SaveFails(p, Reservation(disk, c))
  /\ UNCHANGED <<attemptVars, owed, stale>>

\* The open breaker turns the attempt away; at most once a minute that is put
\* on record, with everything else this coordinator knows.
Suppress(p) ==
  /\ pc = "free"
  /\ {c \in Callers : Suppressed(Reloaded(p), c)} # {}
  /\ SaveBestEffort(p, Reloaded(p))
  /\ stale' = (stale \/ disk' # disk)
  /\ UNCHANGED <<attemptVars, owed>>

-------------------------------------------------------------------------------
(***************************************************************************)
(* Outcomes.                                                               *)
(***************************************************************************)

\* The guards this attempt has reserved.
InPlay == IF caller = "public" /\ pc = "operation" THEN {"public"} ELSE Checked(caller)

\* Mutants of Finish: the probe gap runs from the admission of the attempt; a
\* pause is not restarted.
FinishKeepsProbe(s, guards, restart) ==
  [s EXCEPT
    !.pending = 0,
    !.guard = [g \in Guards |->
      IF g \in guards
      THEN [@[g] EXCEPT !.pending = 0,
                        !.until = IF restart /\ s.guard[g].paused
                                  THEN Pause[s.guard[g].level] ELSE @]
      ELSE @[g]]]

FinishKeepsPause(s, guards, restart) ==
  [s EXCEPT
    !.pending = 0,
    !.guard = [g \in Guards |->
      IF g \in guards THEN [@[g] EXCEPT !.pending = 0, !.probe = ProbeGap] ELSE @[g]]]

\* finish_guards: give the reservations back; restart = a pause starts anew.
Finish(s, guards, restart) ==
  [s EXCEPT
    !.pending = 0,
    !.guard = [g \in Guards |->
      IF g \in guards
      THEN [@[g] EXCEPT !.pending = 0, !.probe = ProbeGap,
                        !.until = IF restart /\ s.guard[g].paused
                                  THEN Pause[s.guard[g].level]
                                  ELSE s.guard[g].until]
      ELSE @[g]]]

\* A source-IP delay that began when the attempt was admitted.
SinceAdmission(d) == Max2(d - age, 0)

\* _open_source_ip_breaker, for a block first asked about d ago
Opened(s, d) ==
  LET level == IF s.open THEN Min2(s.level + 1, MaxLevel) ELSE s.level
  IN  [s EXCEPT !.open = TRUE, !.level = level, !.retry = Max2(Delay[level] - d, 0)]

\* Mutant of ChargedGuard: every rejection counts against the service.
ChargedTrusted == "trusted"

\* The guard a rejection is charged to: a wrong password on the sign-in page
\* never counts against the tokens of the service.
ChargedGuard == IF caller = "public" /\ pc = "operation" THEN "public" ELSE "trusted"

\* _refresh_failed_probe
ProbeFailed(s) == IF s.open THEN [s EXCEPT !.retry = SinceAdmission(Delay[s.level])] ELSE s

\* One rejection charged to guard g.
Charged(s, g) ==
  LET fails == OneMore(s.guard[g].fails)
      again == s.guard[g].paused
      level == IF again THEN Min2(s.guard[g].level + 1, MaxGuardLevel)
               ELSE s.guard[g].level
  IN  [s EXCEPT !.guard[g] =
        IF again \/ fails[Limit] > 0
        THEN [@ EXCEPT !.fails = fails, !.level = level, !.paused = TRUE,
                       !.until = Pause[level]]
        ELSE [@ EXCEPT !.fails = fails]]

\* The attempt is over and its locks are free.
Over ==
  /\ pc' = "free"
  /\ by' = NoOne
  /\ caller' = "none"
  /\ age' = 0

Concludes(s) ==
  /\ pc # "free"
  /\ SaveBestEffort(by, s)
  /\ Over
  /\ UNCHANGED stale

\* What each answer calls for, judged by the file and whether or not it can be
\* saved: the delay of a block, begun with the attempt, the pause of a guard.
OwedBlock(o) ==
  [o EXCEPT !.block = SinceAdmission(IF disk.open THEN NextDelay(disk) ELSE Delay[disk.level])]

OwedProbe(o) ==
  [o EXCEPT !.block = IF disk.open THEN SinceAdmission(Delay[disk.level]) ELSE @,
            !.probe = ProbeGap]

OwedRejection(o) ==
  LET g     == ChargedGuard
      fails == OneMore(o.fails[g])
  IN  [o EXCEPT !.fails[g] = fails,
                !.pause[g] = IF disk.guard[g].paused
                             THEN SinceAdmission(Pause[Min2(disk.guard[g].level + 1, MaxGuardLevel)])
                             ELSE IF fails[Limit] > 0 THEN SinceAdmission(Pause[0]) ELSE @]

OwedRestart(o) ==
  [o EXCEPT !.pause = [g \in Guards |->
     IF g \in InPlay /\ disk.guard[g].paused
     THEN SinceAdmission(Pause[disk.guard[g].level]) ELSE @[g]]]

\* The Miniserver has blocked this source address, as such or by code 4003.
Blocked ==
  /\ Concludes(Opened(Finish(mem[by], InPlay, FALSE), age))
  /\ owed' = [OwedBlock(owed) EXCEPT !.probe = ProbeGap]

Rejected ==
  /\ Concludes(ProbeFailed(Charged(Finish(mem[by], InPlay, FALSE), ChargedGuard)))
  /\ owed' = OwedProbe(OwedRejection(owed))

CommandRejected ==
  /\ Concludes(ProbeFailed(Finish(mem[by], InPlay, FALSE)))
  /\ owed' = OwedProbe(owed)

\* Cancelled, timed out, or any other failure of the transport.
Interrupted ==
  /\ Concludes(ProbeFailed(Finish(mem[by], InPlay, TRUE)))
  /\ owed' = OwedProbe(OwedRestart(owed))

\* The password was right; reserve the trusted guard for the token.
TokenPhase ==
  /\ pc = "operation"
  /\ caller = "public"
  /\ Save(by, Reserve(mem[by], {"trusted"}))
  /\ pc' = "token"
  /\ UNCHANGED <<by, caller, age, owed, stale>>

\* That reservation cannot be saved: the token is not used, and the failure is
\* recorded like one of the transport.
TokenPhaseFails ==
  /\ pc = "operation"
  /\ caller = "public"
  /\ LET reserved == Reserve(mem[by], {"trusted"})
         s        == ProbeFailed(Finish(reserved, Guards, TRUE))
     IN  \/ Save(by, s)
         \/ /\ disk' \in {disk, reserved, s}
            /\ mem' = [mem EXCEPT ![by] = s]
            /\ retain' = retain \cup {by}
  /\ Over
  /\ owed' = OwedProbe(owed)
  /\ UNCHANGED stale

Authenticated ==
  /\ pc = "token" \/ caller # "public"
  /\ LET s == Finish(mem[by], InPlay, FALSE)
     IN  Concludes([s EXCEPT
           !.open = FALSE,
           !.retry = 0,
           !.level = 0,
           !.guard = [g \in Guards |->
             IF g \in InPlay
             THEN [@[g] EXCEPT !.until = 0, !.level = 0, !.paused = FALSE]
             ELSE @[g]]])
  /\ owed' = [owed EXCEPT !.block = 0, !.probe = ProbeGap,
                !.pause = [g \in Guards |-> IF g \in InPlay THEN 0 ELSE @[g]]]

\* The process dies during the attempt; its answer may have arrived.
Crash ==
  /\ pc # "free"
  /\ mem' = [mem EXCEPT ![by] = disk]
  /\ retain' = retain \ {by}
  /\ Over
  /\ owed' \in {owed, OwedBlock(owed), OwedRejection(owed)}
  /\ UNCHANGED <<disk, stale>>

-------------------------------------------------------------------------------
(***************************************************************************)
(* A block seen outside of an attempt: observe_source_ip_blocked.          *)
(***************************************************************************)

\* Mutant of ObserveIn: the interprocess lock is not taken.
ObserveInUnlocked(p, s) ==
  /\ LET t == IF s.open THEN s ELSE Opened(s, 0)
     IN  /\ SaveBestEffort(p, t)
         /\ owed' = IF disk' = t /\ ~ s.open THEN [owed EXCEPT !.block = Delay[0]] ELSE owed
  /\ stale' = (stale \/ (s # disk /\ disk' # disk))
  /\ UNCHANGED attemptVars

\* The Admin discovery session is told of a block.
ObserveIn(p, s) ==
  /\ pc = "free"
  /\ LET t == IF s.open THEN s ELSE Opened(s, 0)
     IN  /\ SaveBestEffort(p, t)
         /\ owed' = IF disk' = t /\ ~ s.open THEN [owed EXCEPT !.block = Delay[0]] ELSE owed
  /\ stale' = (stale \/ (s # disk /\ disk' # disk))
  /\ UNCHANGED attemptVars

Observe(p) == ObserveIn(p, Reloaded(p))

\* The same while the file cannot be read: it counts as an empty one.
ObserveUnreadable(p) == p \notin retain /\ ObserveIn(p, Fallback)

\* Another coordinator holds the lock for longer than this one waits: it opens
\* its own breaker only.
ObserveBusy(p) ==
  /\ pc # "free"
  /\ by # p
  /\ mem' = [mem EXCEPT ![p] = Opened(mem[p], 0)]
  /\ retain' = retain \cup {p}
  /\ UNCHANGED <<disk, attemptVars, owed, stale>>

Next ==
  \/ Tick
  \/ \E p \in Coordinators :
       \/ Reload(p)
       \/ Restart(p)
       \/ \E c \in Callers : Admit(p, c) \/ AdmitFails(p, c)
       \/ Suppress(p)
       \/ Observe(p)
       \/ ObserveUnreadable(p)
       \/ ObserveBusy(p)
  \/ Blocked
  \/ Rejected
  \/ CommandRejected
  \/ Interrupted
  \/ TokenPhase
  \/ TokenPhaseFails
  \/ Authenticated
  \/ Crash

Spec == Init /\ [][Next]_vars

-------------------------------------------------------------------------------
(***************************************************************************)
(* Properties.                                                             *)
(***************************************************************************)

\* No wait is longer than the longest of the configured ones: whatever is
\* reserved, paused or blocked ends by itself.
Time == 0..Max2(Max2(Delay[MaxLevel], LongestPause), Max2(Window, ProbeGap))

Failures == [1..Limit -> 0..Window]

Guard == [fails : Failures, level : 0..MaxGuardLevel, paused : BOOLEAN,
          until : Time, probe : Time, pending : Time]

State == [open : BOOLEAN, retry : Time, level : 0..MaxLevel, pending : Time,
          guard : [Guards -> Guard]]

Owed == [block : Time, pause : [Guards -> Time], fails : [Guards -> Failures],
         probe : Time]

\* Types; the levels keep their caps and every wait is bounded by Time.
TypeOK ==
  /\ disk \in State
  /\ mem \in [Coordinators -> State]
  /\ retain \subseteq Coordinators
  /\ pc \in {"free", "operation", "token"}
  /\ by \in Coordinators \cup {NoOne}
  /\ caller \in Callers \cup {"none"}
  /\ age \in 0..AttemptTime
  /\ owed \in Owed
  /\ stale \in BOOLEAN

Sends == pc = "free" /\ pc' = "operation"

\* A confirmed source-IP block keeps every coordinator off the network until its
\* delay, doubled while blocks follow each other, has passed: across crashes
\* and outcomes that could not be saved (the reservation source_ip_pending_until
\* and the breaker), unless a coordinator wrote an outdated copy over the file.
BlockHonoured == [][~ stale /\ Sends => owed.block = 0]_vars

\* The same without the exception: "Reload persisted diagnostics unless an
\* unwritten local breaker is stricter" (auth_diagnostics.py:270) promises that
\* a copy that is kept, and may be written later, is stricter than the file.
BlockAlwaysHonoured == [][Sends => owed.block = 0]_vars

\* Limit rejections within Window, by attempts of any coordinator, pause every
\* further attempt that checks the same guard, rejected or interrupted probes
\* prolong the pause, and a crash or a failed save forgets none of it.  Only
\* the early probe of an administrator goes past a pause.
PauseHonoured ==
  [][~ stale /\ Sends /\ caller' # "early" =>
       \A g \in Checked(caller') : owed.pause[g] = 0]_vars

\* Early probes keep their distance to any attempt, of whatever process, that
\* was answered before them.
EarlyProbesSpaced == [][~ stale /\ Sends /\ caller' = "early" => owed.probe = 0]_vars

\* While only a password was sent, the sign-in page has neither reserved nor
\* charged the budget of the service, however the attempt ends.
PublicSparesTrusted ==
  [][pc = "operation" /\ caller = "public" =>
       /\ disk.guard["trusted"].pending = 0
       /\ \A i \in 1..Limit :
            disk'.guard["trusted"].fails[i] <= disk.guard["trusted"].fails[i]]_vars

\* Between reload and save the file belongs to the attempt: nobody else writes
\* it, so the outcome never overwrites what another coordinator recorded.
AttemptOwnsFile == pc # "free" => disk = mem[by] /\ by \notin retain
===============================================================================
