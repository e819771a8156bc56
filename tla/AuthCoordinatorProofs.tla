------------------------ MODULE AuthCoordinatorProofs ------------------------
(***************************************************************************)
(* Theorems about AuthCoordinator.                                         *)
(***************************************************************************)
EXTENDS AuthCoordinator, TLAPS

-------------------------------------------------------------------------------
(***************************************************************************)
(* 1. Waits.                                                               *)
(***************************************************************************)

\* Every configured wait is a Time.
LEMMA ConfiguredWaits ==
  /\ 0 \in Time
  /\ \A i \in 0..MaxLevel : Delay[i] \in Time
  /\ \A i \in 0..MaxGuardLevel : Pause[i] \in Time
  /\ LongestPause \in Time
  /\ ProbeGap \in Time
  /\ 0..Window \subseteq Time
  <1> DEFINE top == Max2(Max2(Delay[MaxLevel], LongestPause), Max2(Window, ProbeGap))
  <1>1. \A i \in 0..MaxLevel : Delay[i] \in Nat /\ Delay[i] <= Delay[MaxLevel]
    BY Parameters
  <1>2. \A i \in 0..MaxGuardLevel : Pause[i] \in Nat /\ Pause[i] <= LongestPause
    BY Parameters
  <1>3. /\ top \in Nat
        /\ Delay[MaxLevel] <= top
        /\ LongestPause <= top
        /\ Window <= top
        /\ ProbeGap <= top
    <2>1. Delay[MaxLevel] \in Nat
      BY <1>1, Parameters
    <2>2. QED
      BY <2>1, Parameters DEF Max2
  <1>4. Time = 0..top
    BY DEF Time
  <1> HIDE DEF top
  <1>5. \A i \in 0..MaxLevel : Delay[i] \in Time
    BY <1>1, <1>3, <1>4, Parameters
  <1>6. \A i \in 0..MaxGuardLevel : Pause[i] \in Time
    BY <1>2, <1>3, <1>4, Parameters
  <1>7. QED
    BY <1>3, <1>4, <1>5, <1>6, Parameters

\* Time is a range that starts at 0.
LEMMA TimeRange ==
  /\ Time \subseteq Nat
  /\ \A t \in Time, u \in Nat : u <= t => u \in Time
  <1> DEFINE top == Max2(Max2(Delay[MaxLevel], LongestPause), Max2(Window, ProbeGap))
  <1>1. top \in Nat
    <2>1. Delay[MaxLevel] \in Nat
      BY Parameters
    <2>2. QED
      BY <2>1, Parameters DEF Max2
  <1>2. Time = 0..top
    BY DEF Time
  <1> HIDE DEF top
  <1>3. QED
    BY <1>1, <1>2

\* What is left of a wait is a wait.
LEMMA Shorter ==
  ASSUME NEW t \in Time, NEW d \in Nat
  PROVE  Max2(t - d, 0) \in Time /\ Less(t) \in Time /\ Less(t) <= t
  <1>1. t \in Nat
    BY TimeRange
  <1>2. /\ Max2(t - d, 0) \in Nat /\ Max2(t - d, 0) <= t
        /\ Less(t) \in Nat /\ Less(t) <= t
    BY <1>1 DEF Max2, Less
  <1>3. QED
    BY <1>2, TimeRange

-------------------------------------------------------------------------------
(***************************************************************************)
(* 2. The operators on a state.                                            *)
(***************************************************************************)

\* The fields of a state
LEMMA StateFields ==
  ASSUME NEW s \in State
  PROVE  /\ s.open \in BOOLEAN
         /\ s.retry \in Time
         /\ s.level \in 0..MaxLevel
         /\ s.pending \in Time
         /\ s.guard \in [Guards -> Guard]
  BY DEF State

\* The fields of a guard
LEMMA GuardFields ==
  ASSUME NEW s \in State, NEW g \in Guards
  PROVE  /\ s.guard[g] \in Guard
         /\ s.guard[g].fails \in Failures
         /\ s.guard[g].level \in 0..MaxGuardLevel
         /\ s.guard[g].paused \in BOOLEAN
         /\ s.guard[g].until \in Time
         /\ s.guard[g].probe \in Time
         /\ s.guard[g].pending \in Time
  <1>1. s.guard \in [Guards -> Guard]
    BY StateFields
  <1>2. s.guard[g] \in Guard
    BY <1>1
  <1>3. QED
    BY <1>2 DEF Guard

\* The delay of a block is at least the delay of the one before.
LEMMA NextDelayIsTime ==
  ASSUME NEW s \in State
  PROVE  NextDelay(s) \in Time /\ NextDelay(s) >= Delay[s.level]
  <1>1. s.level \in 0..MaxLevel
    BY StateFields
  <1>2. Min2(s.level + 1, MaxLevel) \in 0..MaxLevel /\ s.level <= Min2(s.level + 1, MaxLevel)
    <2>1. MaxLevel \in Nat
      BY Parameters
    <2>2. QED
      BY <1>1, <2>1 DEF Min2
  <1>3. QED
    BY <1>1, <1>2, ConfiguredWaits, Parameters DEF NextDelay

\* The state of an empty file is well typed.
LEMMA FallbackState == Fallback \in State
  <1>1. NoFailures \in Failures
    BY Parameters DEF NoFailures, Failures
  <1>2. [fails |-> NoFailures, level |-> 0, paused |-> FALSE,
         until |-> 0, probe |-> 0, pending |-> 0] \in Guard
    BY <1>1, ConfiguredWaits, Parameters DEF Guard
  <1>3. QED
    BY <1>2, ConfiguredWaits, Parameters DEF Fallback, State

\* A rejection of this moment.
LEMMA OneMoreFailure ==
  ASSUME NEW fails \in Failures
  PROVE  OneMore(fails) \in Failures
  BY Parameters DEF OneMore, Failures

\* Rejections a moment later
LEMMA FailuresLaterOn ==
  ASSUME NEW fails \in Failures
  PROVE  /\ FailuresLater(fails) \in Failures
         /\ \A i \in 1..Limit : FailuresLater(fails)[i] = Less(fails[i])
  BY Parameters DEF FailuresLater, Failures, Less, Max2

\* A state a moment later: only the waits change.
LEMMA StateLaterOn ==
  ASSUME NEW s \in State
  PROVE  /\ StateLater(s) \in State
         /\ StateLater(s).open = s.open
         /\ StateLater(s).level = s.level
         /\ StateLater(s).retry = Less(s.retry)
         /\ StateLater(s).pending = Less(s.pending)
         /\ \A g \in Guards :
              /\ StateLater(s).guard[g].fails = FailuresLater(s.guard[g].fails)
              /\ StateLater(s).guard[g].level = s.guard[g].level
              /\ StateLater(s).guard[g].paused = s.guard[g].paused
              /\ StateLater(s).guard[g].until = Less(s.guard[g].until)
              /\ StateLater(s).guard[g].probe = Less(s.guard[g].probe)
              /\ StateLater(s).guard[g].pending = Less(s.guard[g].pending)
  <1>1. ASSUME NEW h \in Guard
        PROVE  /\ GuardLater(h) \in Guard
               /\ GuardLater(h).fails = FailuresLater(h.fails)
               /\ GuardLater(h).level = h.level
               /\ GuardLater(h).paused = h.paused
               /\ GuardLater(h).until = Less(h.until)
               /\ GuardLater(h).probe = Less(h.probe)
               /\ GuardLater(h).pending = Less(h.pending)
    <2>1. FailuresLater(h.fails) \in Failures
      BY FailuresLaterOn DEF Guard
    <2>2. Less(h.until) \in Time /\ Less(h.probe) \in Time /\ Less(h.pending) \in Time
      BY Shorter DEF Guard
    <2>3. QED
      BY <2>1, <2>2 DEF GuardLater, Guard
  <1>2. /\ StateLater(s).open = s.open
        /\ StateLater(s).level = s.level
        /\ StateLater(s).retry = Less(s.retry)
        /\ StateLater(s).pending = Less(s.pending)
        /\ \A g \in Guards : StateLater(s).guard[g] = GuardLater(s.guard[g])
    BY DEF StateLater, State
  <1>3. Less(s.retry) \in Time /\ Less(s.pending) \in Time
    BY Shorter, StateFields
  <1>4. \A g \in Guards : s.guard[g] \in Guard
    BY GuardFields
  <1>5. StateLater(s) \in State
    BY <1>1, <1>3, <1>4 DEF StateLater, State
  <1>6. QED
    BY <1>1, <1>2, <1>4, <1>5

\* The reservation of some guards
LEMMA ReserveOn ==
  ASSUME NEW s \in State, NEW G \in SUBSET Guards
  PROVE  /\ Reserve(s, G) \in State
         /\ Reserve(s, G).open = s.open
         /\ Reserve(s, G).level = s.level
         /\ Reserve(s, G).retry = s.retry
         /\ Reserve(s, G).pending = s.pending
         /\ \A g \in Guards :
              /\ Reserve(s, G).guard[g].fails = s.guard[g].fails
              /\ Reserve(s, G).guard[g].level = s.guard[g].level
              /\ Reserve(s, G).guard[g].paused = s.guard[g].paused
              /\ Reserve(s, G).guard[g].until = s.guard[g].until
              /\ g \notin G => Reserve(s, G).guard[g] = s.guard[g]
              /\ g \in G => /\ Reserve(s, G).guard[g].probe = ProbeGap
                            /\ Reserve(s, G).guard[g].pending >= LongestPause
  <1> DEFINE R == RecoveryReservation(s)
  <1>1. R \in Time /\ R >= LongestPause
    <2>1. /\ LongestPause \in Time /\ Delay[0] \in Time /\ NextDelay(s) \in Time /\ 0 \in Time
          /\ Time \subseteq Nat
      BY NextDelayIsTime, ConfiguredWaits, TimeRange, Parameters
    <2>2. \A x, y \in Time : Max2(x, y) \in Time /\ Max2(x, y) >= x
      BY <2>1 DEF Max2
    <2>3. (IF s.open THEN NextDelay(s) ELSE 0) \in Time
      BY <2>1
    <2>4. Max2(LongestPause, Delay[0]) \in Time /\ Max2(LongestPause, Delay[0]) >= LongestPause
      BY <2>1, <2>2
    <2>5. R \in Time /\ R >= Max2(LongestPause, Delay[0])
      BY <2>2, <2>3, <2>4 DEF RecoveryReservation
    <2>6. R \in Nat /\ LongestPause \in Nat /\ Max2(LongestPause, Delay[0]) \in Nat
      BY <2>1, <2>4, <2>5
    <2>7. QED
      BY <2>4, <2>5, <2>6
  <1> DEFINE H(h) == [h EXCEPT !.probe = ProbeGap, !.pending = R]
  <1>2. ASSUME NEW h \in Guard
        PROVE  /\ H(h) \in Guard
               /\ H(h).fails = h.fails
               /\ H(h).level = h.level
               /\ H(h).paused = h.paused
               /\ H(h).until = h.until
               /\ H(h).probe = ProbeGap
               /\ H(h).pending = R
    <2> HIDE DEF R
    <2>1. QED
      BY <1>1, ConfiguredWaits DEF Guard
  <1>3. /\ Reserve(s, G).open = s.open
        /\ Reserve(s, G).level = s.level
        /\ Reserve(s, G).retry = s.retry
        /\ Reserve(s, G).pending = s.pending
        /\ \A g \in Guards : Reserve(s, G).guard[g] = IF g \in G THEN H(s.guard[g]) ELSE s.guard[g]
    BY DEF Reserve, State
  <1>4. Reserve(s, G) = [s EXCEPT !.guard = [g \in Guards |-> IF g \in G THEN H(s.guard[g]) ELSE s.guard[g]]]
    BY DEF Reserve, State
  <1> HIDE DEF H, R
  <1>5. \A g \in Guards : s.guard[g] \in Guard
    BY GuardFields
  <1>6. Reserve(s, G) \in State
    BY <1>2, <1>4, <1>5 DEF State
  <1>7. QED
    BY <1>1, <1>2, <1>3, <1>5, <1>6

\* The reservation of an attempt
LEMMA ReservationOn ==
  ASSUME NEW s \in State, NEW c \in Callers
  PROVE  /\ Reservation(s, c) \in State
         /\ Reservation(s, c).open = s.open
         /\ Reservation(s, c).level = s.level
         /\ Reservation(s, c).retry = s.retry
         /\ Reservation(s, c).pending = IF s.open THEN NextDelay(s) ELSE Delay[0]
         /\ \A g \in Guards :
              /\ Reservation(s, c).guard[g].fails = s.guard[g].fails
              /\ Reservation(s, c).guard[g].level = s.guard[g].level
              /\ Reservation(s, c).guard[g].paused = s.guard[g].paused
              /\ Reservation(s, c).guard[g].until = s.guard[g].until
              /\ LET G == IF c = "public" THEN {"public"} ELSE Checked(c)
                 IN  /\ g \notin G => Reservation(s, c).guard[g] = s.guard[g]
                     /\ g \in G => /\ Reservation(s, c).guard[g].probe = ProbeGap
                                   /\ Reservation(s, c).guard[g].pending >= LongestPause
  <1> DEFINE G == IF c = "public" THEN {"public"} ELSE Checked(c)
             r == Reserve(s, G)
             x == IF s.open THEN NextDelay(s) ELSE Delay[0]
  <1>1. G \in SUBSET Guards
    BY DEF Checked, Guards
  <1>2. x \in Time
    BY NextDelayIsTime, ConfiguredWaits, Parameters
  <1>3. r \in State
    BY <1>1, ReserveOn
  <1>4. Reservation(s, c) = [r EXCEPT !.pending = x]
    BY DEF Reservation
  <1> HIDE DEF r, x
  <1>5. /\ Reservation(s, c) \in State
        /\ Reservation(s, c).open = r.open
        /\ Reservation(s, c).level = r.level
        /\ Reservation(s, c).retry = r.retry
        /\ Reservation(s, c).pending = x
        /\ Reservation(s, c).guard = r.guard
    BY <1>2, <1>3, <1>4 DEF State
  <1> USE DEF r, x
  <1> HIDE DEF G
  <1>6. QED
    BY <1>1, <1>5, ReserveOn DEF G

\* The end of a reservation
LEMMA FinishOn ==
  ASSUME NEW s \in State, NEW G \in SUBSET Guards, NEW restart \in BOOLEAN
  PROVE  /\ Finish(s, G, restart) \in State
         /\ Finish(s, G, restart).open = s.open
         /\ Finish(s, G, restart).level = s.level
         /\ Finish(s, G, restart).retry = s.retry
         /\ Finish(s, G, restart).pending = 0
         /\ \A g \in Guards :
              /\ Finish(s, G, restart).guard[g].fails = s.guard[g].fails
              /\ Finish(s, G, restart).guard[g].level = s.guard[g].level
              /\ Finish(s, G, restart).guard[g].paused = s.guard[g].paused
              /\ g \notin G => Finish(s, G, restart).guard[g] = s.guard[g]
              /\ g \in G =>
                   /\ Finish(s, G, restart).guard[g].probe = ProbeGap
                   /\ Finish(s, G, restart).guard[g].pending = 0
                   /\ Finish(s, G, restart).guard[g].until =
                        IF restart /\ s.guard[g].paused THEN Pause[s.guard[g].level]
                        ELSE s.guard[g].until
  <1> DEFINE U(h) == IF restart /\ h.paused THEN Pause[h.level] ELSE h.until
             H(h) == [h EXCEPT !.pending = 0, !.probe = ProbeGap, !.until = U(h)]
  <1>1. ASSUME NEW h \in Guard
        PROVE  /\ H(h) \in Guard
               /\ H(h).fails = h.fails
               /\ H(h).level = h.level
               /\ H(h).paused = h.paused
               /\ H(h).until = U(h)
               /\ H(h).probe = ProbeGap
               /\ H(h).pending = 0
    <2>1. U(h) \in Time
      BY ConfiguredWaits DEF Guard
    <2> HIDE DEF U
    <2>2. QED
      BY <2>1, ConfiguredWaits DEF Guard
  <1>2. /\ Finish(s, G, restart).open = s.open
        /\ Finish(s, G, restart).level = s.level
        /\ Finish(s, G, restart).retry = s.retry
        /\ Finish(s, G, restart).pending = 0
    BY DEF Finish, State
  <1>3. \A g \in Guards : Finish(s, G, restart).guard[g] =
          IF g \in G THEN H(s.guard[g]) ELSE s.guard[g]
    BY DEF Finish, State
  <1>4. \A g \in Guards : s.guard[g] \in Guard
    BY GuardFields
  <1>5. Finish(s, G, restart) \in State
    <2> DEFINE f == [g \in Guards |-> IF g \in G THEN H(s.guard[g]) ELSE s.guard[g]]
    <2>1. f \in [Guards -> Guard]
      BY <1>1, <1>4
    <2>2. Finish(s, G, restart) = [s EXCEPT !.pending = 0, !.guard = f]
      BY DEF Finish
    <2> HIDE DEF f
    <2>3. QED
      BY <2>1, <2>2, ConfiguredWaits DEF State
  <1> HIDE DEF H
  <1>6. QED
    BY <1>1, <1>2, <1>3, <1>4, <1>5

\* A block
LEMMA OpenedOn ==
  ASSUME NEW s \in State, NEW d \in Nat
  PROVE  LET level == IF s.open THEN Min2(s.level + 1, MaxLevel) ELSE s.level
         IN  /\ Opened(s, d) \in State
             /\ Opened(s, d).open = TRUE
             /\ Opened(s, d).level = level
             /\ Opened(s, d).retry = Max2(Delay[level] - d, 0)
             /\ Opened(s, d).pending = s.pending
             /\ Opened(s, d).guard = s.guard
  <1> DEFINE level == IF s.open THEN Min2(s.level + 1, MaxLevel) ELSE s.level
             x == Max2(Delay[level] - d, 0)
  <1>1. level \in 0..MaxLevel
    <2>1. s.level \in 0..MaxLevel
      BY StateFields
    <2>2. Min2(s.level + 1, MaxLevel) \in 0..MaxLevel
      <3>1. MaxLevel \in Nat
        BY Parameters
      <3>2. QED
        BY <2>1, <3>1 DEF Min2
    <2>3. QED
      BY <2>1, <2>2
  <1>2. x \in Time
    BY <1>1, Shorter, ConfiguredWaits
  <1>3. Opened(s, d) = [s EXCEPT !.open = TRUE, !.level = level, !.retry = x]
    BY DEF Opened
  <1> HIDE DEF level, x
  <1>4. /\ Opened(s, d) \in State
        /\ Opened(s, d).open = TRUE
        /\ Opened(s, d).level = level
        /\ Opened(s, d).retry = x
        /\ Opened(s, d).pending = s.pending
        /\ Opened(s, d).guard = s.guard
    BY <1>1, <1>2, <1>3 DEF State
  <1>5. QED
    BY <1>4 DEF level, x

\* A probe that failed
LEMMA ProbeFailedOn ==
  ASSUME NEW s \in State, age \in Nat
  PROVE  /\ ProbeFailed(s) \in State
         /\ ProbeFailed(s).open = s.open
         /\ ProbeFailed(s).level = s.level
         /\ ProbeFailed(s).retry = IF s.open THEN SinceAdmission(Delay[s.level]) ELSE s.retry
         /\ ProbeFailed(s).pending = s.pending
         /\ ProbeFailed(s).guard = s.guard
  <1> DEFINE x == SinceAdmission(Delay[s.level])
  <1>1. x \in Time
    BY Shorter, ConfiguredWaits, StateFields DEF SinceAdmission
  <1>2. ProbeFailed(s) = IF s.open THEN [s EXCEPT !.retry = x] ELSE s
    BY DEF ProbeFailed
  <1> HIDE DEF x
  <1>3. /\ ProbeFailed(s) \in State
        /\ ProbeFailed(s).open = s.open
        /\ ProbeFailed(s).level = s.level
        /\ ProbeFailed(s).retry = IF s.open THEN x ELSE s.retry
        /\ ProbeFailed(s).pending = s.pending
        /\ ProbeFailed(s).guard = s.guard
    BY <1>1, <1>2 DEF State
  <1>4. QED
    BY <1>3 DEF x

\* A rejection
LEMMA ChargedOn ==
  ASSUME NEW s \in State, NEW g \in Guards
  PROVE  LET fails == OneMore(s.guard[g].fails)
             again == s.guard[g].paused
             level == IF again THEN Min2(s.guard[g].level + 1, MaxGuardLevel) ELSE s.guard[g].level
         IN  /\ Charged(s, g) \in State
             /\ Charged(s, g).open = s.open
             /\ Charged(s, g).level = s.level
             /\ Charged(s, g).retry = s.retry
             /\ Charged(s, g).pending = s.pending
             /\ \A h \in Guards \ {g} : Charged(s, g).guard[h] = s.guard[h]
             /\ Charged(s, g).guard[g].fails = fails
             /\ Charged(s, g).guard[g].probe = s.guard[g].probe
             /\ Charged(s, g).guard[g].pending = s.guard[g].pending
             /\ again \/ fails[Limit] > 0 =>
                  /\ Charged(s, g).guard[g].level = level
                  /\ Charged(s, g).guard[g].paused = TRUE
                  /\ Charged(s, g).guard[g].until = Pause[level]
             /\ ~ (again \/ fails[Limit] > 0) =>
                  /\ Charged(s, g).guard[g].level = s.guard[g].level
                  /\ Charged(s, g).guard[g].paused = s.guard[g].paused
                  /\ Charged(s, g).guard[g].until = s.guard[g].until
  <1> DEFINE o     == s.guard[g]
             fails == OneMore(o.fails)
             again == o.paused
             level == IF again THEN Min2(o.level + 1, MaxGuardLevel) ELSE o.level
             hard  == again \/ fails[Limit] > 0
             h     == IF hard THEN [o EXCEPT !.fails = fails, !.level = level, !.paused = TRUE,
                                             !.until = Pause[level]]
                      ELSE [o EXCEPT !.fails = fails]
  <1>1. o \in Guard
    BY GuardFields
  <1>2. fails \in Failures
    BY <1>1, OneMoreFailure DEF Guard
  <1>3. level \in 0..MaxGuardLevel
    <2>1. o.level \in 0..MaxGuardLevel
      BY <1>1 DEF Guard
    <2>2. Min2(o.level + 1, MaxGuardLevel) \in 0..MaxGuardLevel
      <3>1. MaxGuardLevel \in Nat
        BY Parameters
      <3>2. QED
        BY <2>1, <3>1 DEF Min2
    <2>3. QED
      BY <2>1, <2>2
  <1>4. Charged(s, g) = [s EXCEPT !.guard[g] = h]
    BY DEF Charged
  <1> HIDE DEF o, fails, level, hard
  <1>5. /\ h \in Guard
        /\ h.fails = fails
        /\ h.probe = o.probe
        /\ h.pending = o.pending
        /\ hard => h.level = level /\ h.paused = TRUE /\ h.until = Pause[level]
        /\ ~ hard => h.level = o.level /\ h.paused = o.paused /\ h.until = o.until
    BY <1>1, <1>2, <1>3, ConfiguredWaits DEF Guard
  <1> HIDE DEF h
  <1>6. /\ Charged(s, g) \in State
        /\ Charged(s, g).open = s.open
        /\ Charged(s, g).level = s.level
        /\ Charged(s, g).retry = s.retry
        /\ Charged(s, g).pending = s.pending
        /\ \A k \in Guards \ {g} : Charged(s, g).guard[k] = s.guard[k]
        /\ Charged(s, g).guard[g] = h
    BY <1>4, <1>5, StateFields DEF State
  <1>7. QED
    BY <1>5, <1>6 DEF o, fails, level, hard

\* What Authenticated makes of a state whose reservations are given back
Cleared(s, G) ==
  [s EXCEPT
    !.open = FALSE,
    !.retry = 0,
    !.level = 0,
    !.guard = [g \in Guards |->
      IF g \in G THEN [@[g] EXCEPT !.until = 0, !.level = 0, !.paused = FALSE] ELSE @[g]]]

\* An accepted login closes the breaker and ends the pauses of the guards G.
LEMMA ClearedOn ==
  ASSUME NEW s \in State, NEW G \in SUBSET Guards
  PROVE  /\ Cleared(s, G) \in State
         /\ Cleared(s, G).open = FALSE
         /\ Cleared(s, G).level = 0
         /\ Cleared(s, G).retry = 0
         /\ Cleared(s, G).pending = s.pending
         /\ \A g \in Guards :
              /\ Cleared(s, G).guard[g].fails = s.guard[g].fails
              /\ Cleared(s, G).guard[g].probe = s.guard[g].probe
              /\ Cleared(s, G).guard[g].pending = s.guard[g].pending
              /\ g \notin G => Cleared(s, G).guard[g] = s.guard[g]
              /\ g \in G => /\ Cleared(s, G).guard[g].paused = FALSE
                            /\ Cleared(s, G).guard[g].level = 0
                            /\ Cleared(s, G).guard[g].until = 0
  <1> DEFINE H(h) == [h EXCEPT !.until = 0, !.level = 0, !.paused = FALSE]
             f == [g \in Guards |-> IF g \in G THEN H(s.guard[g]) ELSE s.guard[g]]
  <1>0. 0 \in 0..MaxLevel /\ 0 \in 0..MaxGuardLevel /\ 0 \in Time
    BY ConfiguredWaits, Parameters
  <1>1. ASSUME NEW h \in Guard
        PROVE  /\ H(h) \in Guard
               /\ H(h).fails = h.fails
               /\ H(h).paused = FALSE
               /\ H(h).level = 0
               /\ H(h).until = 0
               /\ H(h).probe = h.probe
               /\ H(h).pending = h.pending
    BY <1>0 DEF Guard
  <1>2. Cleared(s, G) = [s EXCEPT !.open = FALSE, !.retry = 0, !.level = 0, !.guard = f]
    BY DEF Cleared
  <1> HIDE DEF H
  <1>3. \A g \in Guards : s.guard[g] \in Guard
    BY GuardFields
  <1>4. f \in [Guards -> Guard]
    BY <1>1, <1>3
  <1>5. \A g \in Guards : f[g] = IF g \in G THEN H(s.guard[g]) ELSE s.guard[g]
    OBVIOUS
  <1> HIDE DEF f
  <1>6. /\ Cleared(s, G) \in State
        /\ Cleared(s, G).open = FALSE
        /\ Cleared(s, G).level = 0
        /\ Cleared(s, G).retry = 0
        /\ Cleared(s, G).pending = s.pending
        /\ Cleared(s, G).guard = f
    BY <1>0, <1>2, <1>4 DEF State
  <1>7. \A g \in Guards : Cleared(s, G).guard[g] = IF g \in G THEN H(s.guard[g]) ELSE s.guard[g]
    BY <1>5, <1>6, Zenon
  <1>8. ASSUME NEW g \in Guards
        PROVE  /\ Cleared(s, G).guard[g].fails = s.guard[g].fails
               /\ Cleared(s, G).guard[g].probe = s.guard[g].probe
               /\ Cleared(s, G).guard[g].pending = s.guard[g].pending
               /\ g \notin G => Cleared(s, G).guard[g] = s.guard[g]
               /\ g \in G => /\ Cleared(s, G).guard[g].paused = FALSE
                             /\ Cleared(s, G).guard[g].level = 0
                             /\ Cleared(s, G).guard[g].until = 0
    <2>1. CASE g \in G
      <3>1. Cleared(s, G).guard[g] = H(s.guard[g])
        BY <1>7, <2>1
      <3>2. /\ H(s.guard[g]).fails = s.guard[g].fails
            /\ H(s.guard[g]).paused = FALSE
            /\ H(s.guard[g]).level = 0
            /\ H(s.guard[g]).until = 0
            /\ H(s.guard[g]).probe = s.guard[g].probe
            /\ H(s.guard[g]).pending = s.guard[g].pending
        BY <1>1, <1>3, Zenon
      <3>3. QED
        BY <2>1, <3>1, <3>2, Zenon
    <2>2. CASE g \notin G
      BY <1>7, <2>2
    <2>3. QED
      BY <2>1, <2>2
  <1>9. QED
    BY <1>6, <1>8

-------------------------------------------------------------------------------
(***************************************************************************)
(* 3. The waits that are owed.                                             *)
(***************************************************************************)

\* The fields of what is owed
LEMMA OwedFields ==
  ASSUME NEW o \in Owed
  PROVE  /\ o.block \in Time
         /\ o.probe \in Time
         /\ \A g \in Guards : o.pause[g] \in Time /\ o.fails[g] \in Failures
  BY DEF Owed

\* What is owed a moment later
LEMMA OwedLaterOn ==
  ASSUME NEW o \in Owed
  PROVE  /\ OwedLater(o) \in Owed
         /\ OwedLater(o).block = Less(o.block)
         /\ OwedLater(o).probe = Less(o.probe)
         /\ \A g \in Guards :
              /\ OwedLater(o).pause[g] = Less(o.pause[g])
              /\ OwedLater(o).fails[g] = FailuresLater(o.fails[g])
  <1>1. Less(o.block) \in Time /\ Less(o.probe) \in Time
    BY OwedFields, Shorter
  <1>2. \A g \in Guards : Less(o.pause[g]) \in Time /\ FailuresLater(o.fails[g]) \in Failures
    BY OwedFields, Shorter, FailuresLaterOn
  <1>3. QED
    BY <1>1, <1>2 DEF OwedLater, Owed

\* What the file and the age of the attempt make of a wait
LEMMA Since ==
  ASSUME age \in Nat, NEW t \in Time
  PROVE  SinceAdmission(t) \in Time
  BY Shorter DEF SinceAdmission

\* A block is owed its delay.
LEMMA OwedBlockOn ==
  ASSUME NEW o \in Owed, disk \in State, age \in Nat
  PROVE  /\ OwedBlock(o) \in Owed
         /\ OwedBlock(o).block =
              SinceAdmission(IF disk.open THEN NextDelay(disk) ELSE Delay[disk.level])
         /\ OwedBlock(o).probe = o.probe
         /\ OwedBlock(o).pause = o.pause
         /\ OwedBlock(o).fails = o.fails
  <1> DEFINE x == SinceAdmission(IF disk.open THEN NextDelay(disk) ELSE Delay[disk.level])
  <1>1. x \in Time
    BY Since, NextDelayIsTime, ConfiguredWaits, StateFields
  <1>2. OwedBlock(o) = [o EXCEPT !.block = x]
    BY DEF OwedBlock
  <1> HIDE DEF x
  <1>3. /\ OwedBlock(o) \in Owed
        /\ OwedBlock(o).block = x
        /\ OwedBlock(o).probe = o.probe
        /\ OwedBlock(o).pause = o.pause
        /\ OwedBlock(o).fails = o.fails
    BY <1>1, <1>2 DEF Owed
  <1>4. QED
    BY <1>3 DEF x

\* A failed probe is owed the delay of the open breaker.
LEMMA OwedProbeOn ==
  ASSUME NEW o \in Owed, disk \in State, age \in Nat
  PROVE  /\ OwedProbe(o) \in Owed
         /\ OwedProbe(o).block =
              IF disk.open THEN SinceAdmission(Delay[disk.level]) ELSE o.block
         /\ OwedProbe(o).probe = ProbeGap
         /\ OwedProbe(o).pause = o.pause
         /\ OwedProbe(o).fails = o.fails
  <1> DEFINE x == IF disk.open THEN SinceAdmission(Delay[disk.level]) ELSE o.block
  <1>1. x \in Time
    BY Since, ConfiguredWaits, StateFields, OwedFields
  <1>2. OwedProbe(o) = [o EXCEPT !.block = x, !.probe = ProbeGap]
    BY DEF OwedProbe
  <1> HIDE DEF x
  <1>3. /\ OwedProbe(o) \in Owed
        /\ OwedProbe(o).block = x
        /\ OwedProbe(o).probe = ProbeGap
        /\ OwedProbe(o).pause = o.pause
        /\ OwedProbe(o).fails = o.fails
    BY <1>1, <1>2, ConfiguredWaits DEF Owed
  <1>4. QED
    BY <1>3 DEF x

\* A rejection is owed the pause of its guard.
LEMMA OwedRejectionOn ==
  ASSUME NEW o \in Owed, disk \in State, age \in Nat
  PROVE  LET g     == ChargedGuard
             fails == OneMore(o.fails[g])
         IN  /\ OwedRejection(o) \in Owed
             /\ OwedRejection(o).block = o.block
             /\ OwedRejection(o).probe = o.probe
             /\ \A h \in Guards \ {g} : /\ OwedRejection(o).pause[h] = o.pause[h]
                                       /\ OwedRejection(o).fails[h] = o.fails[h]
             /\ OwedRejection(o).fails[g] = fails
             /\ OwedRejection(o).pause[g] =
                  IF disk.guard[g].paused
                  THEN SinceAdmission(Pause[Min2(disk.guard[g].level + 1, MaxGuardLevel)])
                  ELSE IF fails[Limit] > 0 THEN SinceAdmission(Pause[0]) ELSE o.pause[g]
  <1> DEFINE g     == ChargedGuard
             fails == OneMore(o.fails[g])
             x     == IF disk.guard[g].paused
                      THEN SinceAdmission(Pause[Min2(disk.guard[g].level + 1, MaxGuardLevel)])
                      ELSE IF fails[Limit] > 0 THEN SinceAdmission(Pause[0]) ELSE o.pause[g]
  <1>1. g \in Guards
    BY DEF ChargedGuard, Guards
  <1>2. fails \in Failures
    BY <1>1, OwedFields, OneMoreFailure
  <1>3. x \in Time
    <2>1. Min2(disk.guard[g].level + 1, MaxGuardLevel) \in 0..MaxGuardLevel
      <3>1. disk.guard[g].level \in 0..MaxGuardLevel
        BY <1>1, GuardFields
      <3>2. MaxGuardLevel \in Nat
        BY Parameters
      <3>3. QED
        BY <3>1, <3>2 DEF Min2
    <2>2. 0 \in 0..MaxGuardLevel
      BY Parameters
    <2>3. SinceAdmission(Pause[Min2(disk.guard[g].level + 1, MaxGuardLevel)]) \in Time
      BY <2>1, Since, ConfiguredWaits
    <2>4. SinceAdmission(Pause[0]) \in Time
      BY <2>2, Since, ConfiguredWaits
    <2>5. o.pause[g] \in Time
      BY <1>1, OwedFields
    <2>6. QED
      BY <2>3, <2>4, <2>5
  <1> DEFINE fs == [o.fails EXCEPT ![g] = fails]
             ps == [o.pause EXCEPT ![g] = x]
  <1>4. OwedRejection(o) = [o EXCEPT !.fails = fs, !.pause = ps]
    BY DEF OwedRejection, Owed
  <1> HIDE DEF g, fails, x
  <1>a. /\ fs \in [Guards -> Failures] /\ ps \in [Guards -> Time]
        /\ \A h \in Guards \ {g} : fs[h] = o.fails[h] /\ ps[h] = o.pause[h]
        /\ fs[g] = fails /\ ps[g] = x
    BY <1>1, <1>2, <1>3 DEF Owed
  <1> HIDE DEF fs, ps
  <1>b. /\ OwedRejection(o) \in Owed
        /\ OwedRejection(o).block = o.block
        /\ OwedRejection(o).probe = o.probe
        /\ OwedRejection(o).fails = fs
        /\ OwedRejection(o).pause = ps
    BY <1>4, <1>a DEF Owed
  <1>5. /\ OwedRejection(o) \in Owed
        /\ OwedRejection(o).block = o.block
        /\ OwedRejection(o).probe = o.probe
        /\ \A h \in Guards \ {g} : /\ OwedRejection(o).pause[h] = o.pause[h]
                                  /\ OwedRejection(o).fails[h] = o.fails[h]
        /\ OwedRejection(o).fails[g] = fails
        /\ OwedRejection(o).pause[g] = x
    BY <1>a, <1>b
  <1>6. QED
    BY <1>5 DEF g, fails, x

\* An interrupted probe is owed the pauses once more.
LEMMA OwedRestartOn ==
  ASSUME NEW o \in Owed, disk \in State, age \in Nat
  PROVE  /\ OwedRestart(o) \in Owed
         /\ OwedRestart(o).block = o.block
         /\ OwedRestart(o).probe = o.probe
         /\ OwedRestart(o).fails = o.fails
         /\ \A g \in Guards :
              OwedRestart(o).pause[g] = IF g \in InPlay /\ disk.guard[g].paused
                                        THEN SinceAdmission(Pause[disk.guard[g].level])
                                        ELSE o.pause[g]
  <1> DEFINE X(g) == IF g \in InPlay /\ disk.guard[g].paused
                     THEN SinceAdmission(Pause[disk.guard[g].level]) ELSE o.pause[g]
  <1>1. \A g \in Guards : X(g) \in Time
    BY Since, ConfiguredWaits, GuardFields, OwedFields
  <1>2. OwedRestart(o) = [o EXCEPT !.pause = [g \in Guards |-> X(g)]]
    BY DEF OwedRestart
  <1> HIDE DEF X
  <1>3. /\ OwedRestart(o) \in Owed
        /\ OwedRestart(o).block = o.block
        /\ OwedRestart(o).probe = o.probe
        /\ OwedRestart(o).fails = o.fails
        /\ \A g \in Guards : OwedRestart(o).pause[g] = X(g)
    BY <1>1, <1>2 DEF Owed
  <1>4. QED
    BY <1>3 DEF X

-------------------------------------------------------------------------------
(***************************************************************************)
(* 4. Types, and who may write the file.                                   *)
(***************************************************************************)

\* A pause runs only while the guard says so, no longer than its level calls
\* for; a guard that is not paused has forgotten its level.
Fit(h) ==
  /\ h.until > 0 => h.paused
  /\ ~ h.paused => h.level = 0
  /\ h.until <= Pause[h.level]

\* A closed breaker has forgotten its level, too.
Good(s) ==
  /\ s \in State
  /\ ~ s.open => s.level = 0
  /\ \A g \in Guards : Fit(s.guard[g])

\* Only one attempt is under way, its coordinator has read the file, and the
\* sign-in page has not reserved the trusted guard before its token phase.
Base ==
  /\ TypeOK
  /\ AttemptOwnsFile
  /\ pc # "free" => by \in Coordinators /\ caller \in Callers
  /\ pc = "token" => caller = "public"
  /\ Good(disk)
  /\ \A p \in Coordinators : Good(mem[p])
  /\ pc = "operation" /\ caller = "public" => disk.guard["trusted"].pending = 0

\* The parts of Good
LEMMA GoodIsState ==
  ASSUME NEW s, Good(s)
  PROVE  s \in State /\ (~ s.open => s.level = 0) /\ \A g \in Guards : Fit(s.guard[g])
  BY DEF Good

\* A guard that keeps its pause, or forgets it, or starts it anew, stays fit.
LEMMA FitKept ==
  ASSUME NEW h \in Guard, Fit(h), NEW k \in Guard,
         \/ k.level = h.level /\ k.paused = h.paused /\ k.until \in {h.until, Less(h.until)}
         \/ k.paused = TRUE /\ k.until = Pause[k.level]
         \/ k.level = 0 /\ k.paused = FALSE /\ k.until = 0
  PROVE  Fit(k)
  <1>1. h.until \in Nat /\ k.until \in Nat /\ Less(h.until) \in Nat /\ Less(h.until) <= h.until
    BY TimeRange, Shorter DEF Guard
  <1>2. /\ h.level \in 0..MaxGuardLevel /\ k.level \in 0..MaxGuardLevel
        /\ Pause[h.level] \in Nat /\ Pause[k.level] \in Nat /\ Pause[0] \in Nat
    <2>1. h.level \in 0..MaxGuardLevel /\ k.level \in 0..MaxGuardLevel /\ 0 \in 0..MaxGuardLevel
      BY Parameters DEF Guard
    <2>2. QED
      BY <2>1, ConfiguredWaits, TimeRange
  <1>3. CASE k.level = h.level /\ k.paused = h.paused /\ k.until \in {h.until, Less(h.until)}
    <2>1. k.until <= h.until
      BY <1>1, <1>3
    <2>2. k.until > 0 => h.until > 0
      BY <1>1, <2>1
    <2>3. k.until <= Pause[h.level]
      BY <1>1, <1>2, <2>1 DEF Fit
    <2>4. QED
      BY <1>3, <2>2, <2>3, Zenon DEF Fit
  <1>4. CASE k.paused = TRUE /\ k.until = Pause[k.level]
    BY <1>2, <1>4 DEF Fit
  <1>5. CASE k.level = 0 /\ k.paused = FALSE /\ k.until = 0
    BY <1>2, <1>5 DEF Fit
  <1>6. QED
    BY <1>3, <1>4, <1>5

\* Every operator on states keeps them good.
LEMMA GoodKept ==
  ASSUME NEW s, Good(s), age \in Nat
  PROVE  /\ Good(StateLater(s))
         /\ \A c \in Callers : Good(Reservation(s, c))
         /\ \A G \in SUBSET Guards : /\ Good(Reserve(s, G))
                                     /\ Good(Cleared(s, G))
                                     /\ \A r \in BOOLEAN : Good(Finish(s, G, r))
         /\ \A d \in Nat : Good(Opened(s, d))
         /\ Good(ProbeFailed(s))
         /\ \A g \in Guards : Good(Charged(s, g))
  <1>1. /\ s \in State
        /\ ~ s.open => s.level = 0
        /\ \A g \in Guards : s.guard[g] \in Guard /\ Fit(s.guard[g])
    BY GoodIsState, GuardFields
  \* a state whose breaker and guards are those of s, or new ones, is good
  <1>2. ASSUME NEW t \in State, ~ t.open => t.level = 0,
               \A g \in Guards :
                 \/ /\ t.guard[g].level = s.guard[g].level
                    /\ t.guard[g].paused = s.guard[g].paused
                    /\ t.guard[g].until \in {s.guard[g].until, Less(s.guard[g].until)}
                 \/ t.guard[g].paused = TRUE /\ t.guard[g].until = Pause[t.guard[g].level]
                 \/ t.guard[g].level = 0 /\ t.guard[g].paused = FALSE /\ t.guard[g].until = 0
        PROVE  Good(t)
    <2>1. ASSUME NEW g \in Guards PROVE Fit(t.guard[g])
      <3>1. t.guard[g] \in Guard
        BY GuardFields
      <3>2. QED
        BY <1>1, <1>2, <3>1, FitKept
    <2>2. QED
      BY <1>2, <2>1 DEF Good
  <1>3. Good(StateLater(s))
    BY <1>1, <1>2, StateLaterOn
  <1>4. ASSUME NEW c \in Callers PROVE Good(Reservation(s, c))
    BY <1>1, <1>2, ReservationOn
  <1>5. ASSUME NEW G \in SUBSET Guards PROVE Good(Reserve(s, G))
    BY ZenonT(60), <1>1, <1>2, ReserveOn
  <1>6. ASSUME NEW G \in SUBSET Guards PROVE Good(Cleared(s, G))
    BY <1>1, <1>2, ClearedOn
  <1>7. ASSUME NEW G \in SUBSET Guards, NEW r \in BOOLEAN PROVE Good(Finish(s, G, r))
    <2> DEFINE t == Finish(s, G, r)
    <2>1. t \in State /\ t.open = s.open /\ t.level = s.level
      BY <1>1, FinishOn
    <2>2. ASSUME NEW g \in Guards
          PROVE  \/ /\ t.guard[g].level = s.guard[g].level
                    /\ t.guard[g].paused = s.guard[g].paused
                    /\ t.guard[g].until = s.guard[g].until
                 \/ t.guard[g].paused = TRUE /\ t.guard[g].until = Pause[t.guard[g].level]
      <3>1. /\ t.guard[g].level = s.guard[g].level
            /\ t.guard[g].paused = s.guard[g].paused
            /\ s.guard[g].paused \in BOOLEAN
            /\ g \notin G => t.guard[g] = s.guard[g]
            /\ g \in G => t.guard[g].until = IF r /\ s.guard[g].paused THEN Pause[s.guard[g].level]
                                             ELSE s.guard[g].until
        BY <1>1, FinishOn, GuardFields
      <3> HIDE DEF t
      <3>2. CASE g \in G /\ r /\ s.guard[g].paused
        BY <3>1, <3>2, Zenon
      <3>3. CASE g \in G /\ ~ (r /\ s.guard[g].paused)
        BY <3>1, <3>3, Zenon
      <3>4. CASE g \notin G
        BY <3>1, <3>4, Zenon
      <3>5. QED
        BY <3>2, <3>3, <3>4
    <2> HIDE DEF t
    <2>3. Good(t)
      BY <1>1, <1>2, <2>1, <2>2
    <2>4. QED
      BY <2>3 DEF t
  <1>8. ASSUME NEW d \in Nat PROVE Good(Opened(s, d))
    <2>1. Opened(s, d) \in State /\ Opened(s, d).open = TRUE /\ Opened(s, d).guard = s.guard
      BY <1>1, OpenedOn
    <2>2. QED
      BY <1>1, <1>2, <2>1
  <1>9. Good(ProbeFailed(s))
    <2>1. /\ ProbeFailed(s) \in State /\ ProbeFailed(s).guard = s.guard
          /\ ProbeFailed(s).open = s.open /\ ProbeFailed(s).level = s.level
      BY <1>1, ProbeFailedOn
    <2>2. QED
      BY <1>1, <1>2, <2>1
  <1>10. ASSUME NEW g \in Guards PROVE Good(Charged(s, g))
    <2> DEFINE t == Charged(s, g)
    <2>1. t \in State /\ t.open = s.open /\ t.level = s.level
      BY <1>1, ChargedOn
    <2>2. ASSUME NEW h \in Guards
          PROVE  \/ /\ t.guard[h].level = s.guard[h].level
                    /\ t.guard[h].paused = s.guard[h].paused
                    /\ t.guard[h].until = s.guard[h].until
                 \/ t.guard[h].paused = TRUE /\ t.guard[h].until = Pause[t.guard[h].level]
      <3>1. CASE h # g
        <4>1. t.guard[h] = s.guard[h]
          <5>1. \A k \in Guards \ {g} : t.guard[k] = s.guard[k]
            BY <1>1, ChargedOn
          <5> HIDE DEF t
          <5>2. QED
            BY <3>1, <5>1, Zenon
        <4>2. QED
          BY <4>1, Zenon
      <3>2. CASE h = g
        <4> DEFINE hard == s.guard[g].paused \/ OneMore(s.guard[g].fails)[Limit] > 0
                   level == IF s.guard[g].paused THEN Min2(s.guard[g].level + 1, MaxGuardLevel)
                            ELSE s.guard[g].level
        <4>1. /\ hard => t.guard[g].level = level /\ t.guard[g].paused = TRUE
                         /\ t.guard[g].until = Pause[level]
              /\ ~ hard => t.guard[g].level = s.guard[g].level
                           /\ t.guard[g].paused = s.guard[g].paused
                           /\ t.guard[g].until = s.guard[g].until
          BY <1>1, ChargedOn
        <4> HIDE DEF hard, level, t
        <4>2. CASE hard
          BY <3>2, <4>1, <4>2, Zenon
        <4>3. CASE ~ hard
          BY <3>2, <4>1, <4>3, Zenon
        <4>4. QED
          BY <4>2, <4>3
      <3>3. QED
        BY <3>1, <3>2
    <2> HIDE DEF t
    <2>3. Good(t)
      BY <1>1, <1>2, <2>1, <2>2
    <2>4. QED
      BY <2>3 DEF t
  <1>11. QED
    BY <1>3, <1>4, <1>5, <1>6, <1>7, <1>8, <1>9, <1>10

\* An empty file is good.
LEMMA GoodFallback == Good(Fallback)
  <1>1. Pause[0] \in Nat
    BY Parameters
  <1>2. \A g \in Guards : Fallback.guard[g].until = 0 /\ Fallback.guard[g].level = 0
    BY DEF Fallback
  <1>3. ASSUME NEW g \in Guards PROVE Fit(Fallback.guard[g])
    BY <1>1, <1>2 DEF Fit
  <1>4. Fallback.level = 0
    BY DEF Fallback
  <1>5. QED
    BY <1>3, <1>4, FallbackState DEF Good

\* The sets of guards that the actions name
LEMMA GuardSets ==
  /\ \A c \in Callers : Checked(c) \in SUBSET Guards
  /\ caller \in Callers => InPlay \in SUBSET Guards
  /\ ChargedGuard \in Guards
  /\ {"trusted"} \in SUBSET Guards
  /\ Guards \in SUBSET Guards
  BY DEF Checked, InPlay, ChargedGuard, Guards

\* The states an attempt may end with
LEMMA GoodOutcomes ==
  ASSUME Base, pc # "free"
  PROVE  /\ by \in Coordinators
         /\ disk = mem[by]
         /\ age \in Nat
         /\ Good(Opened(Finish(disk, InPlay, FALSE), age))
         /\ Good(ProbeFailed(Charged(Finish(disk, InPlay, FALSE), ChargedGuard)))
         /\ Good(ProbeFailed(Finish(disk, InPlay, FALSE)))
         /\ Good(ProbeFailed(Finish(disk, InPlay, TRUE)))
         /\ Good(Reserve(disk, {"trusted"}))
         /\ Good(ProbeFailed(Finish(Reserve(disk, {"trusted"}), Guards, TRUE)))
         /\ Good(Cleared(Finish(disk, InPlay, FALSE), InPlay))
  <1>1. by \in Coordinators /\ disk = mem[by] /\ age \in Nat /\ Good(disk) /\ caller \in Callers
    BY Parameters DEF Base, AttemptOwnsFile, TypeOK
  <1>2. InPlay \in SUBSET Guards /\ ChargedGuard \in Guards /\ {"trusted"} \in SUBSET Guards
        /\ Guards \in SUBSET Guards
    BY <1>1, GuardSets
  <1>3. Good(Finish(disk, InPlay, FALSE)) /\ Good(Finish(disk, InPlay, TRUE))
    BY <1>1, <1>2, GoodKept
  <1>4. Good(Opened(Finish(disk, InPlay, FALSE), age))
    BY <1>1, <1>3, GoodKept
  <1>5. Good(ProbeFailed(Charged(Finish(disk, InPlay, FALSE), ChargedGuard)))
    <2>1. Good(Charged(Finish(disk, InPlay, FALSE), ChargedGuard))
      BY <1>1, <1>2, <1>3, GoodKept
    <2>2. QED
      BY <1>1, <2>1, GoodKept
  <1>6. Good(ProbeFailed(Finish(disk, InPlay, FALSE))) /\ Good(ProbeFailed(Finish(disk, InPlay, TRUE)))
    BY <1>1, <1>3, GoodKept
  <1>7. Good(Reserve(disk, {"trusted"}))
    BY <1>1, <1>2, GoodKept
  <1>8. Good(ProbeFailed(Finish(Reserve(disk, {"trusted"}), Guards, TRUE)))
    <2>1. Good(Finish(Reserve(disk, {"trusted"}), Guards, TRUE))
      BY <1>1, <1>2, <1>7, GoodKept
    <2>2. QED
      BY <1>1, <2>1, GoodKept
  <1>9. Good(Cleared(Finish(disk, InPlay, FALSE), InPlay))
    BY <1>1, <1>2, <1>3, GoodKept
  <1>10. QED
    BY <1>1, <1>4, <1>5, <1>6, <1>7, <1>8, <1>9

\* Base holds at the start.
LEMMA BaseInit ==
  ASSUME Init
  PROVE  Base
  <1>1. Good(Fallback)
    BY GoodFallback
  <1>2. owed \in Owed
    <2>1. NoFailures \in Failures
      BY Parameters DEF NoFailures, Failures
    <2>2. QED
      BY <2>1, ConfiguredWaits DEF Init, Owed
  <1>3. TypeOK
    <2>1. Fallback \in State /\ AttemptTime \in Nat
      BY FallbackState, Parameters
    <2>2. disk \in State /\ mem \in [Coordinators -> State]
      BY <2>1 DEF Init
    <2>3. age \in 0..AttemptTime
      BY <2>1 DEF Init
    <2>4. QED
      BY <1>2, <2>2, <2>3 DEF Init, TypeOK
  <1>4. QED
    BY <1>1, <1>3 DEF Init, Base, AttemptOwnsFile

\* Saving a good state, or failing to, leaves good copies.
LEMMA SavedState ==
  ASSUME Base, NEW p \in Coordinators, NEW s, Good(s), SaveBestEffort(p, s)
  PROVE  /\ disk' \in {disk, s}
         /\ Good(disk')
         /\ mem' \in [Coordinators -> State]
         /\ mem'[p] = s
         /\ \A q \in Coordinators : Good(mem'[q])
         /\ retain' \subseteq Coordinators
  <1>1. mem \in [Coordinators -> State] /\ retain \subseteq Coordinators /\ Good(disk)
        /\ \A q \in Coordinators : Good(mem[q])
    BY DEF Base, TypeOK
  <1>2. disk' \in {disk, s} /\ mem' = [mem EXCEPT ![p] = s] /\ retain' \subseteq Coordinators
    BY <1>1 DEF SaveBestEffort, Save, SaveFails
  <1>3. s \in State
    BY DEF Good
  <1>4. QED
    BY <1>1, <1>2, <1>3

\* An attempt that ends leaves the file in a good state.
LEMMA ConcludedBase ==
  ASSUME Base, pc # "free", NEW s, Good(s), Concludes(s), owed' \in Owed
  PROVE  Base'
  <1>1. by \in Coordinators
    BY DEF Base
  <1>2. /\ Good(disk')
        /\ mem' \in [Coordinators -> State]
        /\ \A q \in Coordinators : Good(mem'[q])
        /\ retain' \subseteq Coordinators
    BY <1>1, SavedState DEF Concludes
  <1>3. pc' = "free" /\ by' = NoOne /\ caller' = "none" /\ age' = 0 /\ stale' = stale
    BY DEF Concludes, Over
  <1>4. TypeOK'
    BY <1>2, <1>3, Parameters DEF TypeOK, Good, Base
  <1>5. QED
    BY <1>2, <1>3, <1>4 DEF Base, AttemptOwnsFile

\* A step between attempts: the file and the copies stay good.
LEMMA IdleBase ==
  ASSUME Base, pc = "free", UNCHANGED attemptVars, NEW p \in Coordinators, NEW s, Good(s),
         SaveBestEffort(p, s), owed' \in Owed, stale' \in BOOLEAN
  PROVE  Base'
  <1>1. /\ Good(disk')
        /\ mem' \in [Coordinators -> State]
        /\ \A q \in Coordinators : Good(mem'[q])
        /\ retain' \subseteq Coordinators
    BY SavedState
  <1>2. pc' = "free" /\ by' = by /\ caller' = caller /\ age' = age
    BY DEF attemptVars
  <1>3. TypeOK'
    BY <1>1, <1>2 DEF TypeOK, Good, Base
  <1>4. QED
    BY <1>1, <1>2, <1>3 DEF Base, AttemptOwnsFile

\* Base, as time passes
LEMMA BaseTick ==
  ASSUME Base, Tick
  PROVE  Base'
  <1>1. /\ disk' = StateLater(disk)
        /\ mem' = [p \in Coordinators |-> StateLater(mem[p])]
        /\ age' = (IF pc = "free" THEN 0 ELSE age + 1)
        /\ owed' = OwedLater(owed)
        /\ pc' = pc /\ by' = by /\ caller' = caller /\ retain' = retain /\ stale' = stale
    BY DEF Tick
  <1>2. Good(disk') /\ \A p \in Coordinators : mem'[p] = StateLater(mem[p]) /\ Good(mem'[p])
    <2>1. age \in Nat
      BY Parameters DEF Base, TypeOK
    <2>2. QED
      BY <1>1, <2>1, GoodKept DEF Base
  <1>3. mem' \in [Coordinators -> State]
    BY <1>1, <1>2 DEF Good
  <1>4. owed' \in Owed
    BY <1>1, OwedLaterOn DEF Base, TypeOK
  <1>5. age' \in 0..AttemptTime
    BY <1>1, Parameters DEF Tick, Base, TypeOK
  <1>6. TypeOK'
    BY <1>1, <1>2, <1>3, <1>4, <1>5 DEF TypeOK, Base, Good
  <1>7. AttemptOwnsFile'
    BY <1>1, <1>2 DEF AttemptOwnsFile, Base
  <1>8. pc' = "operation" /\ caller' = "public" => disk'.guard["trusted"].pending = 0
    <2>1. "trusted" \in Guards /\ disk \in State
      BY DEF Guards, Base, Good
    <2>2. disk'.guard["trusted"].pending = Less(disk.guard["trusted"].pending)
      BY <1>1, <2>1, StateLaterOn
    <2>3. Less(0) = 0
      BY DEF Less, Max2
    <2>4. QED
      BY <1>1, <2>2, <2>3 DEF Base
  <1>9. QED
    BY <1>1, <1>2, <1>6, <1>7, <1>8 DEF Base

\* Base, when a coordinator reads the file
LEMMA BaseReload ==
  ASSUME Base, NEW p \in Coordinators, Reload(p) \/ Restart(p)
  PROVE  Base'
  <1>1. /\ by # p /\ mem' = [mem EXCEPT ![p] = disk]
        /\ retain' \subseteq retain
        /\ disk' = disk /\ owed' = owed /\ stale' = stale
        /\ pc' = pc /\ by' = by /\ caller' = caller /\ age' = age
    BY DEF Reload, Restart, attemptVars
  <1>2. /\ mem' \in [Coordinators -> State]
        /\ \A q \in Coordinators : Good(mem'[q]) /\ (q # p => mem'[q] = mem[q])
    BY <1>1 DEF Base, TypeOK, Good
  <1>3. QED
    BY <1>1, <1>2 DEF Base, TypeOK, AttemptOwnsFile

\* Base, when an attempt is admitted
LEMMA BaseAdmit ==
  ASSUME Base, NEW p \in Coordinators, NEW c \in Callers, Admit(p, c)
  PROVE  Base'
  <1>1. Good(disk) /\ disk \in State /\ age \in Nat
    BY Parameters DEF Base, Good, TypeOK
  <1> DEFINE s == Reservation(disk, c)
  <1>2. Good(s)
    BY <1>1, GoodKept
  <1>3. SaveBestEffort(p, s) /\ disk' = s /\ retain' = retain \ {p}
    BY DEF Admit, SaveBestEffort, Save
  <1>4. /\ Good(disk')
        /\ mem' \in [Coordinators -> State]
        /\ mem'[p] = s
        /\ \A q \in Coordinators : Good(mem'[q])
        /\ retain' \subseteq Coordinators
    BY <1>2, <1>3, SavedState
  <1>5. pc' = "operation" /\ by' = p /\ caller' = c /\ age' = 0 /\ stale' = stale
    BY DEF Admit
  <1>6. owed' \in Owed
    BY ConfiguredWaits DEF Admit, Base, TypeOK, Owed
  <1>7. TypeOK'
    BY <1>4, <1>5, <1>6, Parameters DEF TypeOK, Base, Good
  <1>8. c = "public" => disk'.guard["trusted"].pending = 0
    <2>1. c = "public" => disk'.guard["trusted"] = disk.guard["trusted"]
      BY <1>1, <1>3, ReservationOn DEF Guards
    <2>2. c = "public" => disk.guard["trusted"].pending = 0
      BY DEF Admit, Admits, Checked, Guards
    <2>3. QED
      BY <2>1, <2>2
  <1>9. QED
    BY <1>3, <1>4, <1>5, <1>7, <1>8 DEF Base, AttemptOwnsFile

\* Base, when a coordinator without an attempt writes
LEMMA BaseIdle ==
  ASSUME Base, NEW p \in Coordinators,
         \/ \E c \in Callers : AdmitFails(p, c)
         \/ Suppress(p)
         \/ Observe(p)
         \/ ObserveUnreadable(p)
  PROVE  Base'
  <1>1. Good(disk) /\ Good(mem[p]) /\ Good(Fallback) /\ Good(Reloaded(p)) /\ age \in Nat
    BY GoodFallback, Parameters DEF Base, Reloaded, TypeOK
  <1>2. owed \in Owed /\ stale \in BOOLEAN
    BY DEF Base, TypeOK
  <1>3. ASSUME NEW c \in Callers, AdmitFails(p, c) PROVE Base'
    <2>1. Good(Reservation(disk, c))
      BY <1>1, GoodKept
    <2>2. /\ pc = "free" /\ SaveBestEffort(p, Reservation(disk, c))
          /\ UNCHANGED attemptVars /\ owed' = owed /\ stale' = stale
      BY <1>3 DEF AdmitFails, SaveBestEffort
    <2>3. QED
      BY <1>2, <2>1, <2>2, IdleBase
  <1>4. ASSUME Suppress(p) PROVE Base'
    <2>1. /\ pc = "free" /\ SaveBestEffort(p, Reloaded(p))
          /\ UNCHANGED attemptVars /\ owed' = owed /\ stale' \in BOOLEAN
      BY <1>4 DEF Suppress
    <2>2. QED
      BY <1>1, <1>2, <2>1, IdleBase
  <1>5. ASSUME NEW s, Good(s), ObserveIn(p, s) PROVE Base'
    <2> DEFINE t == IF s.open THEN s ELSE Opened(s, 0)
    <2>1. Good(Opened(s, 0))
      BY <1>1, <1>5, GoodKept
    <2>2. Good(t)
      BY <1>5, <2>1
    <2>3. /\ pc = "free" /\ SaveBestEffort(p, t) /\ UNCHANGED attemptVars
          /\ stale' \in BOOLEAN
          /\ owed' \in {owed, [owed EXCEPT !.block = Delay[0]]}
      BY <1>5 DEF ObserveIn
    <2>4. owed' \in Owed
      <3>1. Delay[0] \in Time
        BY ConfiguredWaits, Parameters
      <3>2. QED
        BY <1>2, <2>3, <3>1 DEF Owed
    <2> HIDE DEF t
    <2>5. QED
      BY <2>2, <2>3, <2>4, IdleBase
  <1>6. QED
    BY <1>1, <1>3, <1>4, <1>5 DEF Observe, ObserveUnreadable

\* Base, when a breaker is opened in memory only
LEMMA BaseObserveBusy ==
  ASSUME Base, NEW p \in Coordinators, ObserveBusy(p)
  PROVE  Base'
  <1>1. Good(Opened(mem[p], 0))
    <2>1. Good(mem[p]) /\ age \in Nat /\ 0 \in Nat
      BY Parameters DEF Base, TypeOK
    <2>2. QED
      BY <2>1, GoodKept
  <1>2. /\ by # p /\ mem' = [mem EXCEPT ![p] = Opened(mem[p], 0)]
        /\ retain' = retain \cup {p}
        /\ disk' = disk /\ owed' = owed /\ stale' = stale
        /\ pc' = pc /\ by' = by /\ caller' = caller /\ age' = age
    BY DEF ObserveBusy, attemptVars
  <1>3. /\ mem' \in [Coordinators -> State]
        /\ \A q \in Coordinators : Good(mem'[q]) /\ (q # p => mem'[q] = mem[q])
    BY <1>1, <1>2 DEF Base, TypeOK, Good
  <1>4. QED
    BY <1>2, <1>3 DEF Base, TypeOK, AttemptOwnsFile

\* Base, when the trusted guard is reserved for a token
LEMMA BaseTokenPhase ==
  ASSUME Base, TokenPhase
  PROVE  Base'
  <1>1. pc = "operation" /\ caller = "public" /\ by \in Coordinators /\ disk = mem[by]
    BY DEF TokenPhase, Base, AttemptOwnsFile
  <1> DEFINE s == Reserve(disk, {"trusted"})
  <1>2. Good(s)
    BY <1>1, GoodOutcomes
  <1>3. SaveBestEffort(by, s) /\ disk' = s /\ retain' = retain \ {by}
    BY <1>1 DEF TokenPhase, SaveBestEffort, Save
  <1>4. /\ mem' \in [Coordinators -> State]
        /\ mem'[by] = s
        /\ \A q \in Coordinators : Good(mem'[q])
        /\ retain' \subseteq Coordinators
    BY <1>1, <1>2, <1>3, SavedState
  <1>5. /\ pc' = "token" /\ by' = by /\ caller' = "public" /\ age' = age
        /\ owed' = owed /\ stale' = stale
    BY <1>1 DEF TokenPhase
  <1>6. TypeOK'
    <2>1. disk' \in State
      BY <1>2, <1>3 DEF Good
    <2>2. TypeOK
      BY DEF Base
    <2> HIDE DEF s
    <2>3. QED
      BY <1>1, <1>4, <1>5, <2>1, <2>2 DEF TypeOK
  <1>7. QED
    BY <1>1, <1>2, <1>3, <1>4, <1>5, <1>6 DEF Base, AttemptOwnsFile

\* Base, when that cannot be saved
LEMMA BaseTokenPhaseFails ==
  ASSUME Base, TokenPhaseFails
  PROVE  Base'
  <1>1. pc = "operation" /\ by \in Coordinators /\ disk = mem[by] /\ disk \in State /\ age \in Nat
        /\ Good(disk) /\ mem \in [Coordinators -> State] /\ retain \subseteq Coordinators
    BY Parameters DEF TokenPhaseFails, Base, AttemptOwnsFile, TypeOK
  <1> DEFINE reserved == Reserve(disk, {"trusted"})
             s        == ProbeFailed(Finish(reserved, Guards, TRUE))
  <1>2. Good(reserved) /\ Good(s)
    BY <1>1, GoodOutcomes
  <1>3. /\ disk' \in {disk, reserved, s} /\ mem' = [mem EXCEPT ![by] = s]
        /\ retain' \subseteq Coordinators
    BY <1>1 DEF TokenPhaseFails, Save
  <1>4. /\ pc' = "free" /\ by' = NoOne /\ caller' = "none" /\ age' = 0
        /\ owed' = OwedProbe(owed) /\ stale' = stale
    BY DEF TokenPhaseFails, Over
  <1>5. owed' \in Owed
    BY <1>1, <1>4, OwedProbeOn DEF Base, TypeOK
  <1> HIDE DEF reserved, s
  <1>6. /\ Good(disk')
        /\ mem' \in [Coordinators -> State]
        /\ \A q \in Coordinators : Good(mem'[q])
    BY <1>1, <1>2, <1>3 DEF Base, Good
  <1>7. TypeOK'
    BY <1>3, <1>4, <1>5, <1>6, Parameters DEF TypeOK, Base, Good
  <1>8. QED
    BY <1>4, <1>6, <1>7 DEF Base, AttemptOwnsFile

\* Base, when an attempt is answered
LEMMA BaseOutcome ==
  ASSUME Base, Blocked \/ Rejected \/ CommandRejected \/ Interrupted \/ Authenticated
  PROVE  Base'
  <1>1. pc # "free"
    BY DEF Blocked, Rejected, CommandRejected, Interrupted, Authenticated, Concludes
  <1>2. disk = mem[by] /\ disk \in State /\ age \in Nat /\ owed \in Owed
    BY <1>1, GoodOutcomes DEF Base, TypeOK
  <1>3. ASSUME Blocked PROVE Base'
    <2>1. OwedBlock(owed) \in Owed
      BY <1>2, OwedBlockOn
    <2>2. owed' \in Owed
      BY <1>3, <2>1, ConfiguredWaits DEF Blocked, Owed
    <2>3. QED
      BY <1>1, <1>2, <1>3, <2>2, GoodOutcomes, ConcludedBase DEF Blocked
  <1>4. ASSUME Rejected PROVE Base'
    <2>1. OwedRejection(owed) \in Owed
      BY <1>2, OwedRejectionOn
    <2>2. owed' \in Owed
      BY <1>2, <1>4, <2>1, OwedProbeOn DEF Rejected
    <2>3. QED
      BY <1>1, <1>2, <1>4, <2>2, GoodOutcomes, ConcludedBase DEF Rejected
  <1>5. ASSUME CommandRejected PROVE Base'
    <2>1. owed' \in Owed
      BY <1>2, <1>5, OwedProbeOn DEF CommandRejected
    <2>2. QED
      BY <1>1, <1>2, <1>5, <2>1, GoodOutcomes, ConcludedBase DEF CommandRejected
  <1>6. ASSUME Interrupted PROVE Base'
    <2>1. OwedRestart(owed) \in Owed
      BY <1>2, OwedRestartOn
    <2>2. owed' \in Owed
      BY <1>2, <1>6, <2>1, OwedProbeOn DEF Interrupted
    <2>3. QED
      BY <1>1, <1>2, <1>6, <2>2, GoodOutcomes, ConcludedBase DEF Interrupted
  <1>7. ASSUME Authenticated PROVE Base'
    <2>1. owed' \in Owed
      BY <1>2, <1>7, ConfiguredWaits DEF Authenticated, Owed
    <2>2. Concludes(Cleared(Finish(disk, InPlay, FALSE), InPlay))
      BY <1>2, <1>7, Zenon DEF Authenticated, Cleared
    <2>3. QED
      BY <1>1, <2>1, <2>2, GoodOutcomes, ConcludedBase
  <1>8. QED
    BY <1>3, <1>4, <1>5, <1>6, <1>7

\* Base, when the process dies
LEMMA BaseCrash ==
  ASSUME Base, Crash
  PROVE  Base'
  <1>1. pc # "free" /\ by \in Coordinators /\ disk \in State /\ age \in Nat /\ owed \in Owed
        /\ mem \in [Coordinators -> State] /\ retain \subseteq Coordinators /\ Good(disk)
    BY Parameters DEF Crash, Base, TypeOK
  <1>2. /\ mem' = [mem EXCEPT ![by] = disk] /\ retain' = retain \ {by}
        /\ pc' = "free" /\ by' = NoOne /\ caller' = "none" /\ age' = 0
        /\ disk' = disk /\ stale' = stale
    BY DEF Crash, Over
  <1>3. owed' \in Owed
    BY <1>1, OwedBlockOn, OwedRejectionOn DEF Crash
  <1>4. mem' \in [Coordinators -> State] /\ \A q \in Coordinators : Good(mem'[q])
    BY <1>1, <1>2 DEF Base
  <1>5. TypeOK'
    BY <1>1, <1>2, <1>3, <1>4, Parameters DEF TypeOK, Base
  <1>6. QED
    BY <1>1, <1>2, <1>4, <1>5 DEF Base, AttemptOwnsFile

\* Base is inductive.
LEMMA BaseNext ==
  ASSUME Base, [Next]_vars
  PROVE  Base'
  <1>1. ASSUME UNCHANGED vars PROVE Base'
    BY <1>1 DEF vars, attemptVars, Base, TypeOK, AttemptOwnsFile, InPlay
  <1>2. QED
    BY <1>1, BaseTick, BaseReload, BaseAdmit, BaseIdle, BaseObserveBusy, BaseTokenPhase,
       BaseTokenPhaseFails, BaseOutcome, BaseCrash DEF Next

\* The invariant that the other theorems use: types, ownership of the file and
\* the shape of every copy of the state.
THEOREM AlwaysBase == Spec => []Base
  BY BaseInit, BaseNext, PTL DEF Spec

\* Every state of the coordinators is well typed: whatever the clock, the
\* answers and the failed saves, the back-off levels keep their caps and no
\* reservation, pause or block is longer than the longest configured one.
THEOREM TypeCorrect == Spec => []TypeOK
  <1>1. Base => TypeOK
    BY DEF Base
  <1>2. QED
    BY <1>1, AlwaysBase, PTL

\* Between reload and save nobody but the attempt writes the shared file.
THEOREM AttemptOwnsTheFile == Spec => []AttemptOwnsFile
  <1>1. Base => AttemptOwnsFile
    BY DEF Base
  <1>2. QED
    BY <1>1, AlwaysBase, PTL

-------------------------------------------------------------------------------
(***************************************************************************)
(* 5. The budget of the service while a password is sent.                  *)
(***************************************************************************)

\* No outcome of the password phase charges the trusted guard.
LEMMA PublicOutcomes ==
  ASSUME Base, pc = "operation", caller = "public"
  PROVE  LET f == disk.guard["trusted"].fails
         IN  /\ Opened(Finish(disk, InPlay, FALSE), age).guard["trusted"].fails = f
             /\ ProbeFailed(Charged(Finish(disk, InPlay, FALSE), ChargedGuard)).guard["trusted"].fails = f
             /\ ProbeFailed(Finish(disk, InPlay, FALSE)).guard["trusted"].fails = f
             /\ ProbeFailed(Finish(disk, InPlay, TRUE)).guard["trusted"].fails = f
             /\ Reserve(disk, {"trusted"}).guard["trusted"].fails = f
             /\ ProbeFailed(Finish(Reserve(disk, {"trusted"}), Guards, TRUE)).guard["trusted"].fails = f
  <1> DEFINE f == disk.guard["trusted"].fails
  <1>1. disk \in State /\ age \in Nat /\ caller \in Callers /\ "trusted" \in Guards
    BY Parameters DEF Base, TypeOK, Guards
  <1>2. /\ InPlay \in SUBSET Guards /\ {"trusted"} \in SUBSET Guards /\ Guards \in SUBSET Guards
        /\ ChargedGuard \in Guards /\ ChargedGuard # "trusted"
    BY <1>1, GuardSets DEF ChargedGuard
  <1>3. ASSUME NEW r \in BOOLEAN
        PROVE  Finish(disk, InPlay, r) \in State /\ Finish(disk, InPlay, r).guard["trusted"].fails = f
    BY <1>1, <1>2, FinishOn
  <1>4. Opened(Finish(disk, InPlay, FALSE), age).guard["trusted"].fails = f
    <2> DEFINE s == Finish(disk, InPlay, FALSE)
    <2>1. s \in State /\ s.guard["trusted"].fails = f
      BY <1>3
    <2> HIDE DEF s
    <2>2. Opened(s, age).guard = s.guard
      BY <1>1, <2>1, OpenedOn
    <2>3. QED
      BY <2>1, <2>2 DEF s
  <1>5. ProbeFailed(Charged(Finish(disk, InPlay, FALSE), ChargedGuard)).guard["trusted"].fails = f
    <2> DEFINE s == Finish(disk, InPlay, FALSE)
               t == Charged(s, ChargedGuard)
    <2>1. s \in State /\ s.guard["trusted"].fails = f
      BY <1>3
    <2> HIDE DEF s
    <2>2. t \in State /\ \A h \in Guards \ {ChargedGuard} : t.guard[h] = s.guard[h]
      BY <1>2, <2>1, ChargedOn
    <2> HIDE DEF t
    <2>3. ProbeFailed(t).guard = t.guard
      BY <1>1, <2>2, ProbeFailedOn
    <2>4. t.guard["trusted"] = s.guard["trusted"]
      BY <1>1, <1>2, <2>2
    <2>5. QED
      BY <2>1, <2>3, <2>4 DEF s, t
  <1>6. ProbeFailed(Finish(disk, InPlay, FALSE)).guard["trusted"].fails = f
    BY <1>1, <1>3, ProbeFailedOn
  <1>7. ProbeFailed(Finish(disk, InPlay, TRUE)).guard["trusted"].fails = f
    BY <1>1, <1>3, ProbeFailedOn
  <1>8. /\ Reserve(disk, {"trusted"}) \in State
        /\ Reserve(disk, {"trusted"}).guard["trusted"].fails = f
    BY <1>1, <1>2, ReserveOn
  <1>9. ProbeFailed(Finish(Reserve(disk, {"trusted"}), Guards, TRUE)).guard["trusted"].fails = f
    <2>1. /\ Finish(Reserve(disk, {"trusted"}), Guards, TRUE) \in State
          /\ Finish(Reserve(disk, {"trusted"}), Guards, TRUE).guard["trusted"].fails = f
      BY <1>1, <1>2, <1>8, FinishOn
    <2>2. QED
      BY <1>1, <2>1, ProbeFailedOn
  <1>10. QED
    BY <1>4, <1>5, <1>6, <1>7, <1>8, <1>9

\* No step of the password phase charges the trusted guard.
LEMMA PublicStep ==
  ASSUME Base, pc = "operation", caller = "public", [Next]_vars
  PROVE  \A i \in 1..Limit :
           disk'.guard["trusted"].fails[i] <= disk.guard["trusted"].fails[i]
  <1>1. disk \in State /\ disk = mem[by] /\ "trusted" \in Guards
    BY DEF Base, TypeOK, AttemptOwnsFile, Guards
  <1>2. disk.guard["trusted"].fails \in Failures
    BY <1>1, GuardFields
  <1>3. \A i \in 1..Limit :
          /\ disk.guard["trusted"].fails[i] \in Nat
          /\ Less(disk.guard["trusted"].fails[i]) <= disk.guard["trusted"].fails[i]
    <2>1. \A i \in 1..Limit : disk.guard["trusted"].fails[i] \in 0..Window
      BY <1>2 DEF Failures
    <2>2. \A x \in 0..Window : x \in Nat /\ Less(x) <= x
      BY Parameters DEF Less, Max2
    <2>3. QED
      BY <2>1, <2>2
  <1>4. CASE disk'.guard["trusted"].fails = disk.guard["trusted"].fails
    BY <1>3, <1>4
  <1>5. CASE Tick
    <2>1. disk'.guard["trusted"].fails = FailuresLater(disk.guard["trusted"].fails)
      BY <1>1, <1>5, StateLaterOn DEF Tick
    <2>2. QED
      BY <1>2, <1>3, <2>1, FailuresLaterOn
  <1>6. ASSUME UNCHANGED vars \/ \E p \in Coordinators : Reload(p) \/ Restart(p) \/ ObserveBusy(p)
        PROVE  disk' = disk
    BY <1>6 DEF vars, Reload, Restart, ObserveBusy
  <1>7. ASSUME NEW p \in Coordinators,
               \/ \E c \in Callers : Admit(p, c) \/ AdmitFails(p, c)
               \/ Suppress(p) \/ Observe(p) \/ ObserveUnreadable(p)
        PROVE  FALSE
    BY <1>7 DEF Admit, AdmitFails, Suppress, Observe, ObserveUnreadable, ObserveIn
  <1>8. ASSUME NEW s, Concludes(s) PROVE disk' \in {disk, s}
    BY <1>8 DEF Concludes, SaveBestEffort, Save, SaveFails
  <1>9. ASSUME Blocked \/ Rejected \/ CommandRejected \/ Interrupted
        PROVE  disk'.guard["trusted"].fails = disk.guard["trusted"].fails
    <2>1. CASE Blocked
      BY <1>1, <1>8, <2>1, PublicOutcomes DEF Blocked
    <2>2. CASE Rejected
      BY <1>1, <1>8, <2>2, PublicOutcomes DEF Rejected
    <2>3. CASE CommandRejected
      BY <1>1, <1>8, <2>3, PublicOutcomes DEF CommandRejected
    <2>4. CASE Interrupted
      BY <1>1, <1>8, <2>4, PublicOutcomes DEF Interrupted
    <2>5. QED
      BY <1>9, <2>1, <2>2, <2>3, <2>4
  <1>10. ASSUME TokenPhase \/ TokenPhaseFails
         PROVE  disk'.guard["trusted"].fails = disk.guard["trusted"].fails
    BY <1>1, <1>10, PublicOutcomes DEF TokenPhase, TokenPhaseFails, Save
  <1>11. ~ Authenticated /\ (Crash => disk' = disk)
    BY DEF Authenticated, Crash
  <1>12. QED
    BY <1>4, <1>5, <1>6, <1>7, <1>9, <1>10, <1>11 DEF Next

\* While only a password was sent the sign-in page has neither reserved nor
\* charged the budget of the service, for any number of coordinators and guards'
\* limits and whatever ends the attempt.
THEOREM PublicSparesTheTrusted == Spec => PublicSparesTrusted
  <1>1. Base /\ [Next]_vars =>
          (pc = "operation" /\ caller = "public" =>
             /\ disk.guard["trusted"].pending = 0
             /\ \A i \in 1..Limit :
                  disk'.guard["trusted"].fails[i] <= disk.guard["trusted"].fails[i])
    BY PublicStep DEF Base
  <1>2. QED
    BY <1>1, AlwaysBase, PTL DEF Spec, PublicSparesTrusted

-------------------------------------------------------------------------------
(***************************************************************************)
(* 6. The waits that the answers of the Miniserver call for are kept.      *)
(*                                                                         *)
(* Each wait that is owed is covered by the file.  What is on record covers *)
(* it between attempts; during an attempt the reservation covers whatever  *)
(* its answer may call for, so that neither a crash nor a failed save      *)
(* leaves it uncovered.  The reservation shrinks while time passes, and so *)
(* does what it has to cover: both run from the admission of the attempt.  *)
(***************************************************************************)

\* The delay that a block calls for when it answers an attempt admitted in d
Due(d) == IF d.open THEN NextDelay(d) ELSE Delay[0]

\* The reservation of the attempt covers a block and a pause as they would have
\* to be counted from its admission.
Reserved ==
  pc # "free" =>
    /\ SinceAdmission(Due(disk)) <= disk.pending
    /\ \A g \in InPlay : LongestPause <= disk.guard[g].pending + age

\* A wait t that the breaker in d covers
BlockCovered(d, t) == t <= d.pending \/ (d.open /\ t <= d.retry)

\* The delay of a block is covered, and it is over while an attempt is under way.
BlockInv ==
  /\ BlockCovered(disk, owed.block)
  /\ pc # "free" => owed.block = 0

\* A guard keeps the distance of the last answered attempt, or is reserved for
\* at least as long.
ProbeCovered(d, t) == \E g \in Guards : t <= d.guard[g].probe \/ t <= d.guard[g].pending

ProbeInv == owed.probe <= ProbeGap /\ ProbeCovered(disk, owed.probe)

\* The rejections f are as old as those on record, or older.
AtMost(f, e) == \A i \in 1..Limit : f[i] <= e[i]

\* The pause t and the rejections f that the record h of a guard covers: the
\* pause and the rejections on record do, or the reservation.
PauseCovered(h, t) == t <= h.until \/ t <= h.pending
FailuresCovered(h, f) == AtMost(f, h.fails) \/ \A i \in 1..Limit : f[i] <= h.pending

\* All of it is on record for the guards an attempt has found open.
GuardInv(g) ==
  /\ PauseCovered(disk.guard[g], owed.pause[g])
  /\ FailuresCovered(disk.guard[g], owed.fails[g])
  /\ pc # "free" /\ g \in Checked(caller) =>
       /\ owed.pause[g] <= disk.guard[g].until
       /\ AtMost(owed.fails[g], disk.guard[g].fails)

PauseInv == \A g \in Guards : GuardInv(g)

-------------------------------------------------------------------------------
(***************************************************************************)
(* 7. The numbers.                                                         *)
(***************************************************************************)

\* What Base says of the file and of the clock
LEMMA BaseFacts ==
  ASSUME Base
  PROVE  /\ disk \in State /\ disk.pending \in Nat /\ disk.retry \in Nat
         /\ disk.open \in BOOLEAN /\ disk.level \in 0..MaxLevel
         /\ ~ disk.open => disk.level = 0
         /\ age \in Nat /\ age <= AttemptTime /\ AttemptTime \in Nat
         /\ owed \in Owed /\ owed.block \in Nat /\ owed.probe \in Nat
         /\ pc # "free" => /\ by \in Coordinators /\ disk = mem[by] /\ caller \in Callers
                           /\ InPlay \in SUBSET Guards
  <1>1. /\ disk \in State /\ (~ disk.open => disk.level = 0)
        /\ age \in 0..AttemptTime /\ AttemptTime \in Nat /\ owed \in Owed
    BY GoodIsState, Parameters DEF Base, TypeOK
  <1>2. /\ disk.pending \in Nat /\ disk.retry \in Nat /\ disk.open \in BOOLEAN
        /\ disk.level \in 0..MaxLevel
    BY <1>1, StateFields, TimeRange
  <1>3. owed.block \in Nat /\ owed.probe \in Nat
    BY <1>1, OwedFields, TimeRange
  <1>4. pc # "free" => /\ by \in Coordinators /\ disk = mem[by] /\ caller \in Callers
                       /\ InPlay \in SUBSET Guards
    BY GuardSets DEF Base, AttemptOwnsFile
  <1>5. QED
    BY <1>1, <1>2, <1>3, <1>4

\* The next block is due for at least as long as the last one was.
LEMMA DueFacts ==
  ASSUME NEW d \in State, ~ d.open => d.level = 0
  PROVE  /\ Due(d) \in Nat
         /\ Delay[d.level] \in Nat
         /\ Delay[d.level] <= Due(d)
         /\ Due(d) = IF d.open THEN NextDelay(d) ELSE Delay[d.level]
  <1>1. d.level \in 0..MaxLevel /\ 0 \in 0..MaxLevel /\ d.open \in BOOLEAN
    BY StateFields, Parameters
  <1>2. Delay[d.level] \in Nat /\ Delay[0] \in Nat
    BY <1>1, Parameters
  <1>3. NextDelay(d) \in Nat /\ NextDelay(d) >= Delay[d.level]
    BY NextDelayIsTime, TimeRange
  <1>4. CASE d.open
    BY <1>2, <1>3, <1>4 DEF Due
  <1>5. CASE ~ d.open
    <2>1. d.level = 0
      BY <1>5
    <2>2. QED
      BY <1>2, <1>5, <2>1 DEF Due
  <1>6. QED
    BY <1>1, <1>4, <1>5

\* A wait counted from the admission
LEMMA SinceFacts ==
  ASSUME age \in Nat, NEW t \in Nat, NEW u \in Nat, t <= u
  PROVE  /\ SinceAdmission(t) \in Nat
         /\ SinceAdmission(t) <= t
         /\ SinceAdmission(t) <= SinceAdmission(u)
  BY DEF SinceAdmission, Max2

\* Time passes alike for any wait.
LEMMA LessFacts ==
  ASSUME NEW t \in Nat, NEW u \in Nat
  PROVE  /\ Less(t) \in Nat /\ Less(t) <= t
         /\ t <= u => Less(t) <= Less(u)
         /\ t <= Less(t) + 1
         /\ Less(0) = 0
  BY DEF Less, Max2

\* An attempt that ends leaves the file as it was or as it recorded it.
LEMMA Concluded ==
  ASSUME NEW s, Concludes(s)
  PROVE  disk' \in {disk, s} /\ pc' = "free" /\ stale' = stale
  BY DEF Concludes, SaveBestEffort, Save, SaveFails, Over

\* The steps that leave file, attempt and owed waits alone
LEMMA Unchanged ==
  ASSUME UNCHANGED vars \/ \E p \in Coordinators : Reload(p) \/ Restart(p) \/ ObserveBusy(p)
  PROVE  UNCHANGED <<disk, pc, caller, age, owed, stale>>
  BY DEF vars, attemptVars, Reload, Restart, ObserveBusy

\* Unless an outdated copy is written, a coordinator without an attempt leaves
\* the guards of the file alone.
LEMMA IdleGuards ==
  ASSUME Base, NEW p \in Coordinators, ~ stale',
         Suppress(p) \/ Observe(p) \/ ObserveUnreadable(p)
  PROVE  /\ disk'.guard = disk.guard /\ pc' = "free"
         /\ owed'.probe = owed.probe /\ owed'.pause = owed.pause /\ owed'.fails = owed.fails
  <1>1. Good(disk) /\ Good(Reloaded(p)) /\ Good(Fallback) /\ owed \in Owed
    BY GoodFallback, BaseFacts DEF Base, Reloaded
  <1>2. ASSUME Suppress(p)
        PROVE  disk' = disk /\ owed' = owed /\ pc' = "free"
    BY <1>2 DEF Suppress, attemptVars
  <1>3. ASSUME NEW s, Good(s), ObserveIn(p, s)
        PROVE  /\ disk'.guard = disk.guard /\ pc' = "free"
               /\ owed'.probe = owed.probe /\ owed'.pause = owed.pause /\ owed'.fails = owed.fails
    <2> DEFINE t == IF s.open THEN s ELSE Opened(s, 0)
    <2>1. /\ disk' \in {disk, t} /\ pc' = "free"
          /\ owed' \in {owed, [owed EXCEPT !.block = Delay[0]]}
          /\ s # disk => disk' = disk
      BY <1>3 DEF ObserveIn, SaveBestEffort, Save, SaveFails, attemptVars
    <2>2. t.guard = s.guard
      BY ZenonT(60), <1>3, GoodIsState, OpenedOn
    <2>3. owed'.probe = owed.probe /\ owed'.pause = owed.pause /\ owed'.fails = owed.fails
      BY <1>1, <2>1 DEF Owed
    <2>4. disk'.guard = disk.guard
      BY <2>1, <2>2
    <2>5. QED
      BY <2>1, <2>3, <2>4
  <1>4. QED
    BY <1>1, <1>2, <1>3 DEF Observe, ObserveUnreadable

\* Only an admission sends something.
LEMMA Admissions ==
  ASSUME [Next]_vars, Sends
  PROVE  \E p \in Coordinators, c \in Callers : Admit(p, c)
  <1>1. pc = "free" /\ pc' = "operation"
    BY DEF Sends
  <1>2. ~ UNCHANGED vars /\ ~ Tick
    BY <1>1 DEF vars, attemptVars, Tick
  <1>3. ASSUME NEW p \in Coordinators,
               \/ Reload(p) \/ Restart(p) \/ ObserveBusy(p)
               \/ \E c \in Callers : AdmitFails(p, c)
               \/ Suppress(p) \/ Observe(p) \/ ObserveUnreadable(p)
        PROVE  FALSE
    BY <1>1, <1>3, Unchanged
       DEF AdmitFails, Suppress, Observe, ObserveUnreadable, ObserveIn, attemptVars
  <1>4. ~ (\/ Blocked \/ Rejected \/ CommandRejected \/ Interrupted \/ Authenticated
           \/ TokenPhase \/ TokenPhaseFails \/ Crash)
    BY <1>1 DEF Blocked, Rejected, CommandRejected, Interrupted, Authenticated, Concludes,
       TokenPhase, TokenPhaseFails, Crash
  <1>5. QED
    BY <1>2, <1>3, <1>4 DEF Next

-------------------------------------------------------------------------------
(***************************************************************************)
(* 8. The reservation.                                                     *)
(***************************************************************************)

\* The reservation lasts as long as the attempt.
LEMMA ReservedNext ==
  ASSUME Base, Reserved, [Next]_vars
  PROVE  Reserved'
  <1>1. disk \in State /\ age \in Nat /\ (~ disk.open => disk.level = 0) /\ LongestPause \in Nat
    BY BaseFacts, Parameters
  <1>2. Due(disk) \in Nat
    BY <1>1, DueFacts
  <1>3. \A g \in Guards : disk.guard[g].pending \in Nat
    BY <1>1, GuardFields, TimeRange
  <1>4. CASE pc' = "free"
    BY <1>4 DEF Reserved
  <1>5. CASE UNCHANGED <<disk, pc, caller, age, owed, stale>>
    BY <1>5 DEF Reserved, Due, NextDelay, SinceAdmission, InPlay, Checked
  <1>6. ASSUME Tick, pc # "free" PROVE Reserved'
    <2>1. /\ disk' = StateLater(disk) /\ age' = age + 1 /\ pc' = pc /\ caller' = caller
      BY <1>6 DEF Tick
    <2>2. /\ disk'.open = disk.open /\ disk'.level = disk.level /\ disk'.pending = Less(disk.pending)
          /\ \A g \in Guards : disk'.guard[g].pending = Less(disk.guard[g].pending)
      BY <1>1, <2>1, StateLaterOn
    <2>3. Due(disk') = Due(disk)
      BY <2>2 DEF Due, NextDelay
    <2>4. disk.pending \in Nat
      BY BaseFacts
    <2>5. SinceAdmission(Due(disk))' <= disk'.pending
      <3>1. SinceAdmission(Due(disk)) <= disk.pending
        BY <1>6 DEF Reserved
      <3>2. SinceAdmission(Due(disk))' = Max2(Due(disk) - (age + 1), 0)
        BY <2>1, <2>3 DEF SinceAdmission
      <3> DEFINE d == Due(disk)
      <3> HIDE DEF d
      <3>3. Max2(d - (age + 1), 0) <= Less(disk.pending)
        BY <1>1, <1>2, <2>4, <3>1 DEF SinceAdmission, Max2, Less, d
      <3>4. QED
        BY <2>2, <3>2, <3>3 DEF d
    <2>6. ASSUME NEW g \in InPlay' PROVE LongestPause <= disk'.guard[g].pending + age'
      <3>1. g \in InPlay /\ g \in Guards
        BY <1>6, <2>1, BaseFacts DEF InPlay
      <3>2. LongestPause <= disk.guard[g].pending + age
        BY <1>6, <3>1 DEF Reserved
      <3>3. disk.guard[g].pending <= Less(disk.guard[g].pending) + 1 /\ Less(disk.guard[g].pending) \in Nat
        BY <1>3, <3>1, LessFacts
      <3>4. QED
        BY <1>1, <1>3, <2>1, <2>2, <3>1, <3>2, <3>3
    <2>7. QED
      BY <2>5, <2>6 DEF Reserved
  <1>7. ASSUME NEW p \in Coordinators, NEW c \in Callers, Admit(p, c) PROVE Reserved'
    <2>1. disk' = Reservation(disk, c) /\ pc' = "operation" /\ caller' = c /\ age' = 0
      BY <1>7 DEF Admit, Save
    <2>2. disk'.open = disk.open /\ disk'.level = disk.level /\ disk'.pending = Due(disk)
      BY <1>1, <2>1, ReservationOn DEF Due
    <2>3. Due(disk') = Due(disk)
      BY <2>2 DEF Due, NextDelay
    <2>4. SinceAdmission(Due(disk))' <= disk'.pending
      <3>1. SinceAdmission(Due(disk))' = Max2(Due(disk) - 0, 0)
        BY <2>1, <2>3 DEF SinceAdmission
      <3> DEFINE d == Due(disk)
      <3> HIDE DEF d
      <3>2. Max2(d - 0, 0) <= d
        BY <1>2 DEF Max2, d
      <3>3. QED
        BY <2>2, <3>1, <3>2 DEF d
    <2>5. ASSUME NEW g \in InPlay' PROVE LongestPause <= disk'.guard[g].pending + age'
      <3>1. InPlay' = IF c = "public" THEN {"public"} ELSE Checked(c)
        BY <2>1 DEF InPlay
      <3>2. g \in Guards
        BY <3>1, GuardSets DEF Guards
      <3>3. disk'.guard[g].pending >= LongestPause
        BY <1>1, <2>1, <3>1, <3>2, ReservationOn
      <3>4. disk' \in State
        BY <1>1, <2>1, ReservationOn
      <3>5. disk'.guard[g].pending \in Nat
        BY <3>2, <3>4, GuardFields, TimeRange
      <3>6. QED
        BY <1>1, <2>1, <3>3, <3>5
    <2>6. QED
      BY <2>4, <2>5 DEF Reserved
  <1>8. ASSUME TokenPhase PROVE Reserved'
    <2>1. /\ disk' = Reserve(disk, {"trusted"}) /\ pc = "operation" /\ pc' = "token"
          /\ caller = "public" /\ caller' = "public" /\ age' = age
      BY <1>8, BaseFacts DEF TokenPhase, Save
    <2>2. /\ disk'.open = disk.open /\ disk'.level = disk.level /\ disk'.pending = disk.pending
          /\ disk' \in State
          /\ disk'.guard["trusted"].pending >= LongestPause
          /\ disk'.guard["public"] = disk.guard["public"]
      BY <1>1, <2>1, GuardSets, ReserveOn DEF Guards
    <2>3. Due(disk') = Due(disk)
      BY <2>2 DEF Due, NextDelay
    <2>4. SinceAdmission(Due(disk))' <= disk'.pending
      BY <2>1, <2>2, <2>3 DEF Reserved, SinceAdmission
    <2>5. ASSUME NEW g \in InPlay' PROVE LongestPause <= disk'.guard[g].pending + age'
      <3>1. g \in Guards /\ disk'.guard[g].pending \in Nat
        <4>1. g \in Guards
          BY <2>1 DEF InPlay, Checked
        <4>2. QED
          BY <2>2, <4>1, GuardFields, TimeRange
      <3>2. CASE g = "trusted"
        BY <1>1, <2>1, <2>2, <3>1, <3>2
      <3>3. CASE g = "public"
        <4>1. "public" \in InPlay
          BY <2>1 DEF InPlay
        <4>2. LongestPause <= disk.guard["public"].pending + age
          BY <2>1, <4>1 DEF Reserved
        <4>3. QED
          BY <2>1, <2>2, <3>3, <4>2
      <3>4. QED
        BY <3>1, <3>2, <3>3 DEF Guards
    <2>6. QED
      BY <2>4, <2>5 DEF Reserved
  <1>9. ASSUME NEW p \in Coordinators,
               \/ \E c \in Callers : AdmitFails(p, c)
               \/ Suppress(p) \/ Observe(p) \/ ObserveUnreadable(p)
        PROVE  pc' = "free"
    BY <1>9 DEF AdmitFails, Suppress, Observe, ObserveUnreadable, ObserveIn, attemptVars
  <1>10. ASSUME \/ Blocked \/ Rejected \/ CommandRejected \/ Interrupted \/ Authenticated
                \/ TokenPhaseFails \/ Crash
         PROVE  pc' = "free"
    BY <1>10, Concluded DEF Blocked, Rejected, CommandRejected, Interrupted, Authenticated,
       TokenPhaseFails, Crash, Over
  <1>11. Tick /\ pc = "free" => pc' = "free"
    BY DEF Tick
  <1>12. QED
    BY <1>4, <1>5, <1>6, <1>7, <1>8, <1>9, <1>10, <1>11, Unchanged DEF Next

-------------------------------------------------------------------------------
(***************************************************************************)
(* 9. The delay of a block.                                                *)
(***************************************************************************)

\* What each outcome records of the breaker
LEMMA BreakerOutcomes ==
  ASSUME Base, pc # "free"
  PROVE  /\ LET s == Opened(Finish(disk, InPlay, FALSE), age)
            IN  s.open /\ s.retry = SinceAdmission(IF disk.open THEN NextDelay(disk) ELSE Delay[disk.level])
         /\ \A s \in {ProbeFailed(Charged(Finish(disk, InPlay, FALSE), ChargedGuard)),
                     ProbeFailed(Finish(disk, InPlay, FALSE)),
                     ProbeFailed(Finish(disk, InPlay, TRUE)),
                     ProbeFailed(Finish(Reserve(disk, {"trusted"}), Guards, TRUE))} :
              /\ s.pending = 0
              /\ s.open = disk.open
              /\ disk.open => s.retry = SinceAdmission(Delay[disk.level])
         /\ LET s == Reserve(disk, {"trusted"})
            IN  s.open = disk.open /\ s.retry = disk.retry /\ s.pending = disk.pending
         /\ Cleared(Finish(disk, InPlay, FALSE), InPlay).pending = 0
  <1>1. disk \in State /\ age \in Nat /\ InPlay \in SUBSET Guards /\ ChargedGuard \in Guards
        /\ {"trusted"} \in SUBSET Guards /\ Guards \in SUBSET Guards
    BY BaseFacts, GuardSets
  \* the guards make no difference to the breaker
  <1>2. ASSUME NEW d \in State, d.open = disk.open, d.level = disk.level,
               NEW G \in SUBSET Guards, NEW r \in BOOLEAN
        PROVE  LET f == Finish(d, G, r)
               IN  /\ f \in State /\ f.open = disk.open /\ f.level = disk.level /\ f.pending = 0
                   /\ \A g \in Guards : /\ Charged(f, g) \in State
                                        /\ Charged(f, g).open = disk.open
                                        /\ Charged(f, g).level = disk.level
                                        /\ Charged(f, g).pending = 0
    <2> DEFINE f == Finish(d, G, r)
    <2>1. f \in State /\ f.open = disk.open /\ f.level = disk.level /\ f.pending = 0
      BY <1>2, FinishOn
    <2> HIDE DEF f
    <2>2. ASSUME NEW g \in Guards
          PROVE  /\ Charged(f, g) \in State /\ Charged(f, g).open = disk.open
                 /\ Charged(f, g).level = disk.level /\ Charged(f, g).pending = 0
      BY <2>1, ChargedOn
    <2>3. QED
      BY <2>1, <2>2 DEF f
  <1>3. ASSUME NEW f \in State, f.open = disk.open, f.level = disk.level, f.pending = 0
        PROVE  LET s == ProbeFailed(f)
               IN  /\ s.pending = 0
                   /\ s.open = disk.open
                   /\ disk.open => s.retry = SinceAdmission(Delay[disk.level])
    BY <1>1, <1>3, ProbeFailedOn
  <1>4. LET s == Opened(Finish(disk, InPlay, FALSE), age)
        IN  s.open /\ s.retry = SinceAdmission(IF disk.open THEN NextDelay(disk) ELSE Delay[disk.level])
    <2> DEFINE f == Finish(disk, InPlay, FALSE)
    <2>1. f \in State /\ f.open = disk.open /\ f.level = disk.level
      BY <1>1, <1>2
    <2> HIDE DEF f
    <2>2. /\ Opened(f, age).open = TRUE
          /\ Opened(f, age).retry =
               Max2(Delay[IF f.open THEN Min2(f.level + 1, MaxLevel) ELSE f.level] - age, 0)
      BY <1>1, <2>1, OpenedOn
    <2>3. Opened(f, age).retry = SinceAdmission(IF disk.open THEN NextDelay(disk) ELSE Delay[disk.level])
      BY <2>1, <2>2 DEF SinceAdmission, NextDelay
    <2>4. QED
      BY <2>2, <2>3 DEF f
  <1>5. Reserve(disk, {"trusted"}) \in State
        /\ Reserve(disk, {"trusted"}).open = disk.open
        /\ Reserve(disk, {"trusted"}).level = disk.level
        /\ Reserve(disk, {"trusted"}).retry = disk.retry
        /\ Reserve(disk, {"trusted"}).pending = disk.pending
    BY <1>1, ReserveOn
  <1>6. ASSUME NEW s \in {ProbeFailed(Charged(Finish(disk, InPlay, FALSE), ChargedGuard)),
                          ProbeFailed(Finish(disk, InPlay, FALSE)),
                          ProbeFailed(Finish(disk, InPlay, TRUE)),
                          ProbeFailed(Finish(Reserve(disk, {"trusted"}), Guards, TRUE))}
        PROVE  /\ s.pending = 0
               /\ s.open = disk.open
               /\ disk.open => s.retry = SinceAdmission(Delay[disk.level])
    <2>1. CASE s = ProbeFailed(Charged(Finish(disk, InPlay, FALSE), ChargedGuard))
      BY <1>1, <1>2, <1>3, <2>1
    <2>2. ASSUME NEW r \in BOOLEAN, s = ProbeFailed(Finish(disk, InPlay, r))
          PROVE  /\ s.pending = 0
                 /\ s.open = disk.open
                 /\ disk.open => s.retry = SinceAdmission(Delay[disk.level])
      BY ZenonT(60), <1>1, <1>2, <1>3, <2>2
    <2>3. CASE s = ProbeFailed(Finish(Reserve(disk, {"trusted"}), Guards, TRUE))
      BY <1>1, <1>2, <1>3, <1>5, <2>3
    <2>4. QED
      BY <1>6, <2>1, <2>2, <2>3
  <1>7. Cleared(Finish(disk, InPlay, FALSE), InPlay).pending = 0
    <2> DEFINE f == Finish(disk, InPlay, FALSE)
    <2>1. f \in State /\ f.pending = 0
      BY <1>1, <1>2
    <2> HIDE DEF f
    <2>2. Cleared(f, InPlay).pending = f.pending
      BY <1>1, <2>1, ClearedOn
    <2>3. QED
      BY <2>1, <2>2 DEF f
  <1>8. QED
    BY <1>4, <1>5, <1>6, <1>7

\* During an attempt the file covers any delay that its answer may call for.
LEMMA BlockReserved ==
  ASSUME Base, Reserved, pc # "free"
  PROVE  /\ SinceAdmission(IF disk.open THEN NextDelay(disk) ELSE Delay[disk.level]) <= disk.pending
         /\ SinceAdmission(Delay[disk.level]) <= disk.pending
         /\ SinceAdmission(Delay[disk.level]) \in Nat
  <1>1. disk \in State /\ age \in Nat /\ (~ disk.open => disk.level = 0) /\ disk.pending \in Nat
    BY BaseFacts
  <1>2. SinceAdmission(Due(disk)) <= disk.pending
    BY DEF Reserved
  <1>3. /\ Due(disk) \in Nat /\ Delay[disk.level] \in Nat /\ Delay[disk.level] <= Due(disk)
        /\ Due(disk) = IF disk.open THEN NextDelay(disk) ELSE Delay[disk.level]
    BY <1>1, DueFacts
  <1>4. /\ SinceAdmission(Delay[disk.level]) \in Nat /\ SinceAdmission(Due(disk)) \in Nat
        /\ SinceAdmission(Delay[disk.level]) <= SinceAdmission(Due(disk))
    BY <1>1, <1>3, SinceFacts
  <1>5. QED
    BY <1>1, <1>2, <1>3, <1>4

\* An attempt is admitted only when the delay is over.
LEMMA BlockOver ==
  ASSUME Base, BlockInv, NEW c \in Callers, Admits(disk, c)
  PROVE  owed.block = 0
  <1>1. disk.pending = 0 /\ ~ (disk.open /\ disk.retry > 0)
    BY DEF Admits, Suppressed
  <1>2. QED
    BY <1>1, BaseFacts DEF BlockInv, BlockCovered

\* The steps after which a delay may be owed that was not owed before
LEMMA BlockAnswered ==
  ASSUME Base, Reserved, BlockInv, pc # "free",
         \/ Blocked \/ Rejected \/ CommandRejected \/ Interrupted \/ TokenPhaseFails
         \/ Authenticated \/ Crash
  PROVE  BlockCovered(disk', owed'.block)
  <1>1. /\ disk = mem[by] /\ age \in Nat /\ disk \in State /\ owed \in Owed /\ owed.block = 0
        /\ disk.pending \in Nat /\ disk.open \in BOOLEAN
    BY BaseFacts DEF BlockInv
  <1> DEFINE new  == SinceAdmission(IF disk.open THEN NextDelay(disk) ELSE Delay[disk.level])
             same == SinceAdmission(Delay[disk.level])
  <1>2. new <= disk.pending /\ same <= disk.pending /\ same \in Nat
    BY BlockReserved
  <1>3. CASE Blocked
    <2> DEFINE s == Opened(Finish(disk, InPlay, FALSE), age)
    <2>1. disk' \in {disk, s}
      BY <1>1, <1>3, Concluded DEF Blocked
    <2>2. owed'.block = new
      <3>1. OwedBlock(owed) \in Owed /\ OwedBlock(owed).block = new
        BY <1>1, OwedBlockOn
      <3> HIDE DEF new
      <3>2. QED
        BY <1>3, <3>1 DEF Blocked, Owed
    <2>3. s.open /\ s.retry = new
      BY BreakerOutcomes
    <2>4. new \in Nat
      <3>1. (IF disk.open THEN NextDelay(disk) ELSE Delay[disk.level]) \in Nat
        BY <1>1, BaseFacts, DueFacts
      <3>2. QED
        BY <1>1, <3>1, SinceFacts
    <2> HIDE DEF new, s
    <2>5. QED
      BY <1>2, <2>1, <2>2, <2>3, <2>4 DEF BlockCovered
  <1>4. ASSUME NEW o \in Owed, o.block = 0, owed' = OwedProbe(o),
               \/ disk' = disk
               \/ disk' = Reserve(disk, {"trusted"})
               \/ disk' \in {ProbeFailed(Charged(Finish(disk, InPlay, FALSE), ChargedGuard)),
                            ProbeFailed(Finish(disk, InPlay, FALSE)),
                            ProbeFailed(Finish(disk, InPlay, TRUE)),
                            ProbeFailed(Finish(Reserve(disk, {"trusted"}), Guards, TRUE))}
        PROVE  BlockCovered(disk', owed'.block)
    <2>1. owed'.block = IF disk.open THEN same ELSE 0
      BY <1>1, <1>4, OwedProbeOn
    <2>2. \/ disk'.pending = disk.pending
          \/ /\ disk'.pending = 0 /\ disk'.open = disk.open
             /\ disk.open => disk'.retry = same
      <3>1. CASE disk' = disk
        BY <3>1
      <3>2. CASE disk' = Reserve(disk, {"trusted"})
        BY <3>2, BreakerOutcomes
      <3>3. CASE disk' \in {ProbeFailed(Charged(Finish(disk, InPlay, FALSE), ChargedGuard)),
                            ProbeFailed(Finish(disk, InPlay, FALSE)),
                            ProbeFailed(Finish(disk, InPlay, TRUE)),
                            ProbeFailed(Finish(Reserve(disk, {"trusted"}), Guards, TRUE))}
        BY <3>3, BreakerOutcomes
      <3>4. QED
        BY <1>4, <3>1, <3>2, <3>3
    <2> HIDE DEF same
    <2>3. QED
      BY <1>1, <1>2, <2>1, <2>2 DEF BlockCovered
  <1>5. CASE Rejected
    <2>1. OwedRejection(owed) \in Owed /\ OwedRejection(owed).block = 0
      BY <1>1, OwedRejectionOn
    <2>2. QED
      BY <1>1, <1>4, <1>5, <2>1, Concluded DEF Rejected
  <1>6. CASE CommandRejected
    BY <1>1, <1>4, <1>6, Concluded DEF CommandRejected
  <1>7. CASE Interrupted
    <2>1. OwedRestart(owed) \in Owed /\ OwedRestart(owed).block = 0
      BY <1>1, OwedRestartOn
    <2>2. QED
      BY <1>1, <1>4, <1>7, <2>1, Concluded DEF Interrupted
  <1>8. CASE TokenPhaseFails
    BY <1>1, <1>4, <1>8 DEF TokenPhaseFails, Save
  <1>9. CASE Authenticated
    <2>1. owed'.block = 0
      BY <1>1, <1>9 DEF Authenticated, Owed
    <2>2. Concludes(Cleared(Finish(disk, InPlay, FALSE), InPlay))
      BY <1>1, <1>9, Zenon DEF Authenticated, Cleared
    <2>3. disk'.pending \in {disk.pending, 0}
      BY <2>2, Concluded, BreakerOutcomes
    <2>4. QED
      BY <1>1, <2>1, <2>3 DEF BlockCovered
  <1>10. CASE Crash
    <2>1. disk' = disk /\ owed' \in {owed, OwedBlock(owed), OwedRejection(owed)}
      BY <1>10 DEF Crash
    <2>2. OwedBlock(owed).block = new /\ OwedRejection(owed).block = 0
      BY <1>1, OwedBlockOn, OwedRejectionOn
    <2>3. owed'.block \in {0, new}
      BY <1>1, <2>1, <2>2
    <2> HIDE DEF new
    <2>4. QED
      BY <1>1, <1>2, <2>1, <2>3 DEF BlockCovered
  <1>11. QED
    BY <1>3, <1>5, <1>6, <1>7, <1>8, <1>9, <1>10

\* Between attempts a coordinator writes what is already in the file, or a newly
\* opened breaker, or an outdated copy.
LEMMA BlockIdle ==
  ASSUME Base, BlockInv, NEW p \in Coordinators, ~ stale',
         Suppress(p) \/ Observe(p) \/ ObserveUnreadable(p)
  PROVE  BlockInv'
  <1>1. Good(disk) /\ Good(Reloaded(p)) /\ Good(Fallback)
    BY GoodFallback DEF Base, Reloaded
  <1>2. pc' = "free"
    BY DEF Suppress, Observe, ObserveUnreadable, ObserveIn, attemptVars
  <1>3. CASE Suppress(p)
    <2>1. disk' = disk /\ owed' = owed
      BY <1>3 DEF Suppress
    <2>2. QED
      BY <1>2, <2>1 DEF BlockInv
  <1>4. ASSUME NEW s, Good(s), ObserveIn(p, s) PROVE BlockInv'
    <2> DEFINE t == IF s.open THEN s ELSE Opened(s, 0)
    <2>1. /\ disk' \in {disk, t}
          /\ owed' = IF disk' = t /\ ~ s.open THEN [owed EXCEPT !.block = Delay[0]] ELSE owed
          /\ s # disk => disk' = disk
      BY <1>4 DEF ObserveIn, SaveBestEffort, Save, SaveFails
    <2>2. CASE disk' = t /\ ~ s.open
      <3>1. s \in State /\ s.level = 0 /\ 0 \in Nat /\ owed \in Owed
        BY <1>4, <2>2, GoodIsState, BaseFacts
      <3>2. t.open /\ t.retry = Max2(Delay[0] - 0, 0)
        BY <2>2, <3>1, OpenedOn
      <3>3. owed'.block = Delay[0]
        BY <2>1, <2>2, <3>1 DEF Owed
      <3>4. Delay[0] \in Nat
        BY Parameters
      <3>5. Delay[0] <= Max2(Delay[0] - 0, 0)
        BY <3>4 DEF Max2
      <3> HIDE DEF t
      <3>6. QED
        BY <1>2, <2>2, <3>2, <3>3, <3>5 DEF BlockInv, BlockCovered
    <2>3. CASE ~ (disk' = t /\ ~ s.open)
      <3>1. owed' = owed
        BY <2>1, <2>3
      <3>2. disk' = disk
        BY <2>1, <2>3
      <3>3. QED
        BY <1>2, <3>1, <3>2 DEF BlockInv
    <2>4. QED
      BY <2>2, <2>3
  <1>5. QED
    BY <1>1, <1>3, <1>4 DEF Observe, ObserveUnreadable

\* The delay of a block stays covered.
LEMMA BlockNext ==
  ASSUME Base, Reserved, BlockInv, ~ stale', [Next]_vars
  PROVE  BlockInv'
  <1>1. /\ disk \in State /\ disk.pending \in Nat /\ disk.retry \in Nat /\ owed \in Owed
        /\ owed.block \in Nat
    BY BaseFacts
  <1>2. CASE UNCHANGED <<disk, pc, caller, age, owed, stale>>
    BY <1>2 DEF BlockInv
  <1>3. CASE Tick
    <2>1. /\ disk'.open = disk.open /\ disk'.retry = Less(disk.retry)
          /\ disk'.pending = Less(disk.pending)
          /\ owed'.block = Less(owed.block) /\ pc' = pc
      BY <1>1, <1>3, StateLaterOn, OwedLaterOn DEF Tick
    <2>2. /\ owed.block <= disk.pending => Less(owed.block) <= Less(disk.pending)
          /\ owed.block <= disk.retry => Less(owed.block) <= Less(disk.retry)
          /\ Less(0) = 0
      BY <1>1, LessFacts
    <2>3. QED
      BY <2>1, <2>2 DEF BlockInv, BlockCovered
  <1>4. ASSUME NEW p \in Coordinators, NEW c \in Callers, Admit(p, c) \/ AdmitFails(p, c)
        PROVE  BlockInv'
    <2>1. /\ Admits(disk, c) /\ disk' \in {disk, Reservation(disk, c)}
          /\ owed' \in {owed, [owed EXCEPT !.probe = ProbeGap]}
      BY <1>4 DEF Admit, AdmitFails, Save, SaveFails
    <2>2. owed'.block = 0
      BY <1>1, <2>1, BlockOver DEF Owed
    <2>3. disk'.pending \in Nat
      <3>1. Reservation(disk, c) \in State
        BY <1>1, ReservationOn
      <3>2. QED
        BY <1>1, <2>1, <3>1, StateFields, TimeRange
    <2>4. QED
      BY <2>2, <2>3 DEF BlockInv, BlockCovered
  <1>5. CASE TokenPhase
    <2>1. /\ disk' = Reserve(disk, {"trusted"}) /\ pc # "free" /\ owed' = owed
      BY <1>5, BaseFacts DEF TokenPhase, Save
    <2>2. disk'.open = disk.open /\ disk'.retry = disk.retry /\ disk'.pending = disk.pending
      BY <2>1, BreakerOutcomes
    <2>3. QED
      BY <2>1, <2>2 DEF BlockInv, BlockCovered
  <1>6. ASSUME \/ Blocked \/ Rejected \/ CommandRejected \/ Interrupted \/ TokenPhaseFails
               \/ Authenticated \/ Crash
        PROVE  BlockInv'
    <2>1. pc # "free"
      BY <1>6 DEF Blocked, Rejected, CommandRejected, Interrupted, TokenPhaseFails,
         Authenticated, Crash, Concludes
    <2>2. pc' = "free"
      BY <1>6, Concluded DEF Blocked, Rejected, CommandRejected, Interrupted, TokenPhaseFails,
         Authenticated, Crash, Over
    <2>3. QED
      BY <1>6, <2>1, <2>2, BlockAnswered DEF BlockInv
  <1>7. QED
    BY <1>2, <1>3, <1>4, <1>5, <1>6, BlockIdle, Unchanged DEF Next

\* An outdated copy, once written, stays on record.
LEMMA StaleStays ==
  ASSUME [Next]_vars, stale
  PROVE  stale'
  <1>1. ASSUME UNCHANGED vars \/ \E p \in Coordinators : Reload(p) \/ Restart(p) \/ ObserveBusy(p)
        PROVE  stale'
    BY <1>1, Unchanged
  <1>2. ASSUME \/ Blocked \/ Rejected \/ CommandRejected \/ Interrupted \/ Authenticated
        PROVE  stale'
    BY <1>2, Concluded DEF Blocked, Rejected, CommandRejected, Interrupted, Authenticated
  <1>3. ASSUME Tick \/ TokenPhase \/ TokenPhaseFails \/ Crash PROVE stale'
    BY <1>3 DEF Tick, TokenPhase, TokenPhaseFails, Crash
  <1>4. ASSUME NEW p \in Coordinators,
               \/ \E c \in Callers : Admit(p, c) \/ AdmitFails(p, c)
               \/ Suppress(p) \/ Observe(p) \/ ObserveUnreadable(p)
        PROVE  stale'
    BY <1>4 DEF Admit, AdmitFails, Suppress, Observe, ObserveUnreadable, ObserveIn
  <1>5. QED
    BY <1>1, <1>2, <1>3, <1>4 DEF Next

\* Between attempts nothing is reserved for one.
LEMMA ReservedInit == Init => Reserved
  BY DEF Init, Reserved

\* The reservation of an attempt covers its possible answers all along.
THEOREM AlwaysReserved == Spec => []Reserved
  BY ReservedInit, ReservedNext, AlwaysBase, PTL DEF Spec

\* A confirmed source-IP block keeps every coordinator off the network until its
\* delay has passed, across crashes and outcomes that could not be saved, unless
\* a coordinator wrote an outdated copy over the file.
THEOREM BlockIsHonoured == Spec => BlockHonoured
  <1> DEFINE Inv == Base /\ Reserved /\ (stale \/ BlockInv)
  <1>1. Init => Inv
    <2>1. Init => BlockInv
      BY DEF Init, BlockInv, BlockCovered, Fallback
    <2>2. QED
      BY <2>1, BaseInit, ReservedInit
  <1>2. Inv /\ [Next]_vars => Inv'
    BY BaseNext, ReservedNext, BlockNext, StaleStays
  <1>3. Inv /\ [Next]_vars => (~ stale /\ Sends => owed.block = 0)
    <2> SUFFICES ASSUME Inv, [Next]_vars, ~ stale, Sends PROVE owed.block = 0
      OBVIOUS
    <2>1. PICK p \in Coordinators, c \in Callers : Admit(p, c)
      BY Admissions
    <2>2. QED
      BY <2>1, BlockOver DEF Admit
  <1> HIDE DEF Inv
  <1>4. Spec => []Inv
    BY <1>1, <1>2, PTL DEF Spec
  <1>5. QED
    BY <1>3, <1>4, PTL DEF Spec, BlockHonoured

-------------------------------------------------------------------------------
(***************************************************************************)
(* 10. The distance of early probes.                                       *)
(***************************************************************************)

\* A reservation outlasts the attempt by the distance of probes and the window
\* of rejections.
LEMMA Outlasts ==
  ASSUME Base, Reserved, pc # "free", NEW g \in InPlay
  PROVE  /\ g \in Guards
         /\ disk.guard[g].pending \in Nat
         /\ ProbeGap <= disk.guard[g].pending
         /\ Window <= disk.guard[g].pending
         /\ \A t \in Nat : t <= LongestPause => SinceAdmission(t) <= disk.guard[g].pending
  <1>1. disk \in State /\ age \in Nat /\ age <= AttemptTime /\ AttemptTime \in Nat /\ g \in Guards
    BY BaseFacts
  <1>2. disk.guard[g].pending \in Nat
    BY <1>1, GuardFields, TimeRange
  <1>3. LongestPause <= disk.guard[g].pending + age
    BY DEF Reserved
  <1>4. /\ LongestPause \in Nat /\ Window \in Nat /\ ProbeGap \in Nat
        /\ Window + AttemptTime <= LongestPause /\ ProbeGap + AttemptTime <= LongestPause
    <2>1. /\ LongestPause \in Nat /\ Window \in Nat /\ ProbeGap \in Nat
          /\ Max2(Window, ProbeGap) + AttemptTime <= LongestPause
      BY Parameters
    <2>2. QED
      BY <1>1, <2>1 DEF Max2
  <1>5. ProbeGap <= disk.guard[g].pending /\ Window <= disk.guard[g].pending
    BY <1>1, <1>2, <1>3, <1>4
  <1>6. \A t \in Nat : t <= LongestPause => SinceAdmission(t) <= disk.guard[g].pending
    BY <1>1, <1>2, <1>3, <1>4 DEF SinceAdmission, Max2
  <1>7. QED
    BY <1>1, <1>2, <1>5, <1>6

\* Each outcome puts the distance on record for the guards in play.
LEMMA ProbeOutcomes ==
  ASSUME Base, pc # "free"
  PROVE  /\ \A s \in {Opened(Finish(disk, InPlay, FALSE), age),
                     ProbeFailed(Charged(Finish(disk, InPlay, FALSE), ChargedGuard)),
                     ProbeFailed(Finish(disk, InPlay, FALSE)),
                     ProbeFailed(Finish(disk, InPlay, TRUE)),
                     Cleared(Finish(disk, InPlay, FALSE), InPlay)} :
              \A g \in InPlay : s.guard[g].probe = ProbeGap
         /\ ProbeFailed(Finish(Reserve(disk, {"trusted"}), Guards, TRUE)).guard["trusted"].probe = ProbeGap
         /\ Reserve(disk, {"trusted"}).guard["trusted"].probe = ProbeGap
         /\ InPlay # {}
  <1>1. disk \in State /\ age \in Nat /\ InPlay \in SUBSET Guards /\ ChargedGuard \in Guards
        /\ {"trusted"} \in SUBSET Guards /\ Guards \in SUBSET Guards /\ "trusted" \in Guards
    BY BaseFacts, GuardSets DEF Guards
  <1>2. ASSUME NEW r \in BOOLEAN
        PROVE  /\ Finish(disk, InPlay, r) \in State
               /\ \A g \in InPlay : Finish(disk, InPlay, r).guard[g].probe = ProbeGap
    BY <1>1, FinishOn
  <1>3. ASSUME NEW g \in InPlay, NEW f \in State, f.guard[g].probe = ProbeGap
        PROVE  /\ Opened(f, age).guard[g].probe = ProbeGap
               /\ ProbeFailed(f).guard[g].probe = ProbeGap
               /\ Cleared(f, InPlay).guard[g].probe = ProbeGap
               /\ Charged(f, ChargedGuard) \in State
               /\ Charged(f, ChargedGuard).guard[g].probe = ProbeGap
    <2>1. g \in Guards
      BY <1>1
    <2>2. Opened(f, age).guard = f.guard
      BY <1>1, OpenedOn
    <2>3. ProbeFailed(f).guard = f.guard
      BY <1>1, ProbeFailedOn
    <2>4. Cleared(f, InPlay).guard[g].probe = f.guard[g].probe
      BY <1>1, <2>1, ClearedOn
    <2> DEFINE k == ChargedGuard
               c == Charged(f, k)
    <2>5. /\ c \in State
          /\ \A h \in Guards \ {k} : c.guard[h] = f.guard[h]
          /\ c.guard[k].probe = f.guard[k].probe
      BY <1>1, ChargedOn
    <2> HIDE DEF c, k
    <2>6. c.guard[g].probe = f.guard[g].probe
      BY <2>1, <2>5
    <2>7. QED
      BY <1>3, <2>2, <2>3, <2>4, <2>5, <2>6 DEF c, k
  <1>4. ASSUME NEW g \in InPlay
        PROVE  /\ Opened(Finish(disk, InPlay, FALSE), age).guard[g].probe = ProbeGap
               /\ ProbeFailed(Charged(Finish(disk, InPlay, FALSE), ChargedGuard)).guard[g].probe = ProbeGap
               /\ ProbeFailed(Finish(disk, InPlay, FALSE)).guard[g].probe = ProbeGap
               /\ ProbeFailed(Finish(disk, InPlay, TRUE)).guard[g].probe = ProbeGap
               /\ Cleared(Finish(disk, InPlay, FALSE), InPlay).guard[g].probe = ProbeGap
    BY <1>2, <1>3
  <1>5. Reserve(disk, {"trusted"}) \in State /\ Reserve(disk, {"trusted"}).guard["trusted"].probe = ProbeGap
    BY <1>1, ReserveOn
  <1>6. ProbeFailed(Finish(Reserve(disk, {"trusted"}), Guards, TRUE)).guard["trusted"].probe = ProbeGap
    <2> DEFINE f == Finish(Reserve(disk, {"trusted"}), Guards, TRUE)
    <2>1. f \in State /\ f.guard["trusted"].probe = ProbeGap
      BY <1>1, <1>5, FinishOn
    <2> HIDE DEF f
    <2>2. ProbeFailed(f).guard = f.guard
      BY <1>1, <2>1, ProbeFailedOn
    <2>3. QED
      BY <2>1, <2>2 DEF f
  <1>7. InPlay # {}
    BY DEF InPlay, Checked, Guards
  <1>8. QED
    BY <1>4, <1>5, <1>6, <1>7

\* The distance of probes stays covered.
LEMMA ProbeNext ==
  ASSUME Base, Reserved, ProbeInv, ~ stale', [Next]_vars
  PROVE  ProbeInv'
  <1>1. /\ disk \in State /\ owed \in Owed /\ owed.probe \in Nat /\ owed.probe <= ProbeGap
        /\ ProbeGap \in Nat /\ age \in Nat
    BY BaseFacts, Parameters DEF ProbeInv
  <1>2. \A g \in Guards : disk.guard[g].probe \in Nat /\ disk.guard[g].pending \in Nat
    BY <1>1, GuardFields, TimeRange
  <1>3. PICK w \in Guards : owed.probe <= disk.guard[w].probe \/ owed.probe <= disk.guard[w].pending
    BY DEF ProbeInv, ProbeCovered
  <1>4. ASSUME disk'.guard = disk.guard, owed'.probe = owed.probe
        PROVE  ProbeInv'
    BY <1>4 DEF ProbeInv, ProbeCovered
  <1>5. CASE UNCHANGED <<disk, pc, caller, age, owed, stale>>
    BY <1>4, <1>5
  <1>6. CASE Tick
    <2>1. /\ disk'.guard[w].probe = Less(disk.guard[w].probe)
          /\ disk'.guard[w].pending = Less(disk.guard[w].pending)
          /\ owed'.probe = Less(owed.probe)
      BY <1>1, <1>6, StateLaterOn, OwedLaterOn DEF Tick
    <2>2. /\ owed.probe <= disk.guard[w].probe => Less(owed.probe) <= Less(disk.guard[w].probe)
          /\ owed.probe <= disk.guard[w].pending => Less(owed.probe) <= Less(disk.guard[w].pending)
          /\ Less(owed.probe) \in Nat /\ Less(owed.probe) <= owed.probe
      BY <1>1, <1>2, LessFacts
    <2>3. QED
      BY <1>1, <1>3, <2>1, <2>2 DEF ProbeInv, ProbeCovered
  \* a guard whose distance starts anew covers any
  <1>7. ASSUME NEW g \in Guards, disk'.guard[g].probe = ProbeGap, owed'.probe \in {owed.probe, ProbeGap}
        PROVE  ProbeInv'
    BY <1>1, <1>7 DEF ProbeInv, ProbeCovered
  <1>8. ASSUME NEW p \in Coordinators, NEW c \in Callers, Admit(p, c) \/ AdmitFails(p, c)
        PROVE  ProbeInv'
    <2> DEFINE G == IF c = "public" THEN {"public"} ELSE Checked(c)
    <2>1. PICK g \in Guards : g \in G
      BY DEF Checked, Guards
    <2>2. Reservation(disk, c).guard[g].probe = ProbeGap
      BY <1>1, <2>1, ReservationOn
    <2>3. CASE Admit(p, c)
      <3>1. disk' = Reservation(disk, c) /\ owed'.probe = ProbeGap
        BY <1>1, <2>3 DEF Admit, Save, Owed
      <3>2. QED
        BY <1>7, <2>2, <3>1
    <2>4. CASE AdmitFails(p, c)
      <3>1. disk' \in {disk, Reservation(disk, c)} /\ owed' = owed
        BY <2>4 DEF AdmitFails, SaveFails
      <3>2. QED
        BY <1>4, <1>7, <2>2, <3>1
    <2>5. QED
      BY <1>8, <2>3, <2>4
  <1>9. ASSUME NEW p \in Coordinators, Suppress(p) \/ Observe(p) \/ ObserveUnreadable(p)
        PROVE  ProbeInv'
    BY <1>4, <1>9, IdleGuards
  \* the attempt ends: its guards' distance is on record, or still reserved
  <1>10. ASSUME pc # "free", owed'.probe \in {owed.probe, ProbeGap},
                disk' # disk => \E g \in Guards : disk'.guard[g].probe = ProbeGap
         PROVE  ProbeInv'
    <2>1. CASE disk' = disk
      <3>1. PICK g \in InPlay : TRUE
        BY <1>10, ProbeOutcomes
      <3>2. g \in Guards /\ ProbeGap <= disk.guard[g].pending
        BY <1>10, Outlasts
      <3>3. owed'.probe <= disk'.guard[g].pending
        BY <1>1, <1>2, <1>10, <2>1, <3>2
      <3>4. QED
        BY <1>1, <1>10, <3>2, <3>3 DEF ProbeInv, ProbeCovered
    <2>2. CASE disk' # disk
      BY <1>7, <1>10, <2>2
    <2>3. QED
      BY <2>1, <2>2
  <1>11. ASSUME TokenPhase \/ TokenPhaseFails PROVE ProbeInv'
    <2>1. pc # "free" /\ disk = mem[by] /\ "trusted" \in Guards
      BY <1>11, BaseFacts DEF TokenPhase, TokenPhaseFails, Guards
    <2>2. owed'.probe \in {owed.probe, ProbeGap}
      BY <1>1, <1>11, OwedProbeOn DEF TokenPhase, TokenPhaseFails
    <2>3. disk' \in {disk, Reserve(disk, {"trusted"}),
                     ProbeFailed(Finish(Reserve(disk, {"trusted"}), Guards, TRUE))}
      BY <1>11, <2>1 DEF TokenPhase, TokenPhaseFails, Save
    <2>4. QED
      BY <1>10, <2>1, <2>2, <2>3, ProbeOutcomes
  <1>12. ASSUME \/ Blocked \/ Rejected \/ CommandRejected \/ Interrupted \/ Authenticated
         PROVE  ProbeInv'
    <2>1. pc # "free" /\ disk = mem[by]
      BY <1>12, BaseFacts DEF Blocked, Rejected, CommandRejected, Interrupted, Authenticated, Concludes
    <2>2. owed'.probe = ProbeGap
      <3>1. OwedBlock(owed) \in Owed /\ OwedRejection(owed) \in Owed /\ OwedRestart(owed) \in Owed
        BY <1>1, OwedBlockOn, OwedRejectionOn, OwedRestartOn
      <3>2. \A o \in Owed : OwedProbe(o).probe = ProbeGap
        BY <1>1, OwedProbeOn
      <3>3. CASE Blocked
        BY <3>1, <3>3 DEF Blocked, Owed
      <3>4. CASE Authenticated
        BY <1>1, <3>4 DEF Authenticated, Owed
      <3>5. QED
        BY <1>1, <1>12, <3>1, <3>2, <3>3, <3>4 DEF Rejected, CommandRejected, Interrupted
    <2>3. Authenticated => Concludes(Cleared(Finish(disk, InPlay, FALSE), InPlay))
      BY <2>1, Zenon DEF Authenticated, Cleared
    <2>4. disk' \in {disk,
                     Opened(Finish(disk, InPlay, FALSE), age),
                     ProbeFailed(Charged(Finish(disk, InPlay, FALSE), ChargedGuard)),
                     ProbeFailed(Finish(disk, InPlay, FALSE)),
                     ProbeFailed(Finish(disk, InPlay, TRUE)),
                     Cleared(Finish(disk, InPlay, FALSE), InPlay)}
      BY <1>12, <2>1, <2>3, Concluded DEF Blocked, Rejected, CommandRejected, Interrupted
    <2>5. PICK g \in InPlay : TRUE
      BY <2>1, ProbeOutcomes
    <2>6. g \in Guards
      BY <2>1, BaseFacts
    <2>7. disk' # disk => disk'.guard[g].probe = ProbeGap
      BY ZenonT(60), <2>1, <2>4, <2>5, ProbeOutcomes
    <2>8. QED
      BY <1>10, <2>1, <2>2, <2>6, <2>7
  <1>13. CASE Crash
    <2>1. disk' = disk /\ owed'.probe = owed.probe
      BY <1>1, <1>13, OwedBlockOn, OwedRejectionOn DEF Crash
    <2>2. QED
      BY <1>4, <2>1
  <1>14. QED
    BY <1>5, <1>6, <1>8, <1>9, <1>11, <1>12, <1>13, Unchanged DEF Next

\* An early probe keeps its distance to any attempt, of whatever process, that
\* was answered before it, unless a coordinator wrote an outdated copy over the
\* file.
THEOREM EarlyProbesAreSpaced == Spec => EarlyProbesSpaced
  <1> DEFINE Inv == Base /\ Reserved /\ (stale \/ ProbeInv)
  <1>1. Init => Inv
    <2>1. Init => ProbeInv
      <3> SUFFICES ASSUME Init PROVE ProbeInv
        OBVIOUS
      <3>1. owed.probe = 0 /\ disk.guard["trusted"].probe = 0 /\ "trusted" \in Guards /\ ProbeGap \in Nat
        BY Parameters DEF Init, Fallback, Guards
      <3>2. QED
        BY <3>1 DEF ProbeInv, ProbeCovered
    <2>2. QED
      BY <2>1, BaseInit, ReservedInit
  <1>2. Inv /\ [Next]_vars => Inv'
    BY BaseNext, ReservedNext, ProbeNext, StaleStays
  <1>3. Inv /\ [Next]_vars => (~ stale /\ Sends /\ caller' = "early" => owed.probe = 0)
    <2> SUFFICES ASSUME Inv, [Next]_vars, ~ stale, Sends, caller' = "early" PROVE owed.probe = 0
      OBVIOUS
    <2>1. PICK p \in Coordinators, c \in Callers : Admit(p, c)
      BY Admissions
    <2>2. c = "early" /\ \A g \in Guards : disk.guard[g].pending = 0 /\ disk.guard[g].probe = 0
      BY <2>1 DEF Admit, Admits, Checked
    <2>3. QED
      BY <2>2, BaseFacts DEF ProbeInv, ProbeCovered
  <1> HIDE DEF Inv
  <1>4. Spec => []Inv
    BY <1>1, <1>2, PTL DEF Spec
  <1>5. QED
    BY <1>3, <1>4, PTL DEF Spec, EarlyProbesSpaced

-------------------------------------------------------------------------------
(***************************************************************************)
(* 11. The pauses.                                                         *)
(***************************************************************************)

\* A rejection counts for Window at most.
LEMMA FailureIsTime ==
  ASSUME NEW f \in Failures, NEW i \in 1..Limit
  PROVE  f[i] \in Nat /\ f[i] <= Window
  <1>1. f[i] \in 0..Window
    BY DEF Failures
  <1>2. QED
    BY <1>1, Parameters

\* One more rejection, on both sides
LEMMA AtMostOneMore ==
  ASSUME NEW f \in Failures, NEW e \in Failures, AtMost(f, e)
  PROVE  AtMost(OneMore(f), OneMore(e))
  <1> SUFFICES ASSUME NEW i \in 1..Limit PROVE OneMore(f)[i] <= OneMore(e)[i]
    BY DEF AtMost
  <1>1. CASE i = 1
    BY <1>1, Parameters DEF OneMore
  <1>2. CASE i # 1
    <2>1. i - 1 \in 1..Limit
      BY <1>2, Parameters
    <2>2. f[i - 1] <= e[i - 1]
      BY <2>1 DEF AtMost
    <2>3. QED
      BY <1>2, <2>2 DEF OneMore
  <1>3. QED
    BY <1>1, <1>2

\* A moment later, on both sides
LEMMA AtMostLater ==
  ASSUME NEW f \in Failures, NEW e \in Failures, AtMost(f, e)
  PROVE  AtMost(FailuresLater(f), FailuresLater(e))
  <1> SUFFICES ASSUME NEW i \in 1..Limit PROVE FailuresLater(f)[i] <= FailuresLater(e)[i]
    BY DEF AtMost
  <1>1. f[i] \in Nat /\ e[i] \in Nat /\ f[i] <= e[i]
    BY FailureIsTime DEF AtMost
  <1>2. Less(f[i]) <= Less(e[i])
    BY <1>1, LessFacts
  <1>3. QED
    BY <1>2, FailuresLaterOn

\* What Base says of one guard
LEMMA OneGuard ==
  ASSUME Base, NEW g \in Guards
  PROVE  /\ disk.guard[g] \in Guard /\ Fit(disk.guard[g])
         /\ disk.guard[g].fails \in Failures
         /\ disk.guard[g].until \in Nat /\ disk.guard[g].pending \in Nat
         /\ disk.guard[g].level \in 0..MaxGuardLevel
         /\ disk.guard[g].paused \in BOOLEAN
         /\ Pause[disk.guard[g].level] \in Nat /\ Pause[disk.guard[g].level] <= LongestPause
         /\ owed.pause[g] \in Nat /\ owed.fails[g] \in Failures
  <1>1. disk \in State /\ owed \in Owed /\ Fit(disk.guard[g])
    BY BaseFacts DEF Base, Good
  <1>2. /\ disk.guard[g] \in Guard
        /\ disk.guard[g].fails \in Failures
        /\ disk.guard[g].until \in Nat /\ disk.guard[g].pending \in Nat
        /\ disk.guard[g].level \in 0..MaxGuardLevel
        /\ disk.guard[g].paused \in BOOLEAN
    BY <1>1, GuardFields, TimeRange
  <1>3. Pause[disk.guard[g].level] \in Nat /\ Pause[disk.guard[g].level] <= LongestPause
    BY <1>2, Parameters
  <1>4. owed.pause[g] \in Nat /\ owed.fails[g] \in Failures
    BY <1>1, OwedFields, TimeRange
  <1>5. QED
    BY <1>1, <1>2, <1>3, <1>4

\* A rejection put on record covers the pause that it calls for.
LEMMA RejectionOnRecord ==
  ASSUME NEW h \in Guard, Fit(h), age \in Nat,
         NEW f \in Failures, AtMost(f, h.fails),
         NEW q \in Nat, q <= h.until,
         NEW k, k.fails = OneMore(h.fails),
         h.paused \/ OneMore(h.fails)[Limit] > 0 =>
           k.until = Pause[IF h.paused THEN Min2(h.level + 1, MaxGuardLevel) ELSE h.level],
         ~ (h.paused \/ OneMore(h.fails)[Limit] > 0) => k.until = h.until
  PROVE  LET t == IF h.paused THEN SinceAdmission(Pause[Min2(h.level + 1, MaxGuardLevel)])
                  ELSE IF OneMore(f)[Limit] > 0 THEN SinceAdmission(Pause[0]) ELSE q
         IN  t <= k.until /\ AtMost(OneMore(f), k.fails)
  <1> DEFINE up == Min2(h.level + 1, MaxGuardLevel)
  <1>1. /\ h.level \in 0..MaxGuardLevel /\ h.until \in Nat /\ h.fails \in Failures
        /\ MaxGuardLevel \in Nat /\ Limit \in 1..Limit
    <2>1. h.level \in 0..MaxGuardLevel /\ h.until \in Time /\ h.fails \in Failures
      BY DEF Guard
    <2>2. MaxGuardLevel \in Nat /\ Limit \in Nat \ {0}
      BY Parameters
    <2>3. Limit \in 1..Limit
      BY <2>2
    <2>4. h.until \in Nat
      BY <2>1, TimeRange
    <2>5. QED
      BY <2>1, <2>2, <2>3, <2>4
  <1>2. up \in 0..MaxGuardLevel /\ 0 \in 0..MaxGuardLevel
    BY <1>1 DEF Min2
  <1>3. Pause[up] \in Nat /\ Pause[0] \in Nat
    BY <1>2, ConfiguredWaits, TimeRange
  <1>4. AtMost(OneMore(f), k.fails)
    BY <1>1, AtMostOneMore
  <1>5. SinceAdmission(Pause[up]) <= Pause[up] /\ SinceAdmission(Pause[0]) <= Pause[0]
    BY <1>3, SinceFacts
  <1> HIDE DEF up
  <1>6. CASE h.paused
    <2>1. k.until = Pause[up]
      BY <1>6 DEF up
    <2>2. QED
      BY <1>4, <1>5, <1>6, <2>1 DEF up
  <1>7. CASE ~ h.paused /\ OneMore(f)[Limit] > 0
    <2>1. OneMore(h.fails)[Limit] > 0
      <3>1. OneMore(f)[Limit] <= OneMore(h.fails)[Limit]
        BY <1>1, <1>4 DEF AtMost
      <3>2. OneMore(f)[Limit] \in Nat /\ OneMore(h.fails)[Limit] \in Nat
        BY <1>1, OneMoreFailure, FailureIsTime
      <3>3. QED
        BY <1>7, <3>1, <3>2
    <2>2. k.until = Pause[0]
      BY <1>7, <2>1 DEF Fit
    <2>3. QED
      BY <1>4, <1>5, <1>7, <2>2
  <1>8. CASE ~ h.paused /\ ~ (OneMore(f)[Limit] > 0)
    <2>1. h.until = 0
      BY <1>1, <1>8 DEF Fit
    <2>2. k.until \in Nat
      <3>1. Pause[h.level] \in Nat
        BY <1>1, ConfiguredWaits, TimeRange
      <3>2. QED
        BY <1>1, <1>8, <3>1, Zenon
    <2>3. q <= k.until
      BY <2>1, <2>2
    <2>4. QED
      BY <1>4, <1>8, <2>3
  <1>9. QED
    BY <1>6, <1>7, <1>8

\* During an attempt the file covers any pause and any rejection that its answer
\* may call for.
LEMMA PauseReserved ==
  ASSUME Base, Reserved, PauseInv, pc # "free"
  PROVE  /\ \A g \in Guards :
              /\ PauseCovered(disk.guard[g], OwedRejection(owed).pause[g])
              /\ FailuresCovered(disk.guard[g], OwedRejection(owed).fails[g])
              /\ PauseCovered(disk.guard[g], OwedRestart(owed).pause[g])
  <1>1. /\ disk \in State /\ owed \in Owed /\ age \in Nat /\ InPlay \in SUBSET Guards
        /\ ChargedGuard \in InPlay /\ LongestPause \in Nat
    BY BaseFacts, Parameters DEF ChargedGuard, InPlay, Checked, Guards
  <1>2. ASSUME NEW g \in InPlay, NEW i \in 0..MaxGuardLevel
        PROVE  PauseCovered(disk.guard[g], SinceAdmission(Pause[i]))
    BY <1>2, Outlasts, Parameters DEF PauseCovered
  <1>3. ASSUME NEW g \in Guards
        PROVE  /\ PauseCovered(disk.guard[g], owed.pause[g])
               /\ FailuresCovered(disk.guard[g], owed.fails[g])
    BY DEF PauseInv, GuardInv
  <1>4. ASSUME NEW g \in Guards
        PROVE  /\ PauseCovered(disk.guard[g], OwedRejection(owed).pause[g])
               /\ FailuresCovered(disk.guard[g], OwedRejection(owed).fails[g])
    <2> DEFINE k == ChargedGuard
               o == OwedRejection(owed)
               f == OneMore(owed.fails[k])
               up == Min2(disk.guard[k].level + 1, MaxGuardLevel)
    <2>1. /\ \A h \in Guards \ {k} : o.pause[h] = owed.pause[h] /\ o.fails[h] = owed.fails[h]
          /\ o.fails[k] = f
          /\ o.pause[k] = IF disk.guard[k].paused THEN SinceAdmission(Pause[up])
                          ELSE IF f[Limit] > 0 THEN SinceAdmission(Pause[0]) ELSE owed.pause[k]
      BY <1>1, OwedRejectionOn
    <2>2. CASE g # k
      <3>1. o.pause[g] = owed.pause[g] /\ o.fails[g] = owed.fails[g]
        BY <2>1, <2>2
      <3>2. QED
        BY <1>3, <3>1
    <2>3. CASE g = k
      <3>1. up \in 0..MaxGuardLevel /\ 0 \in 0..MaxGuardLevel
        <4>1. disk.guard[k].level \in 0..MaxGuardLevel /\ MaxGuardLevel \in Nat
          BY <2>3, OneGuard, Parameters
        <4>2. QED
          BY <4>1 DEF Min2
      <3>2. k \in InPlay
        BY <1>1
      <3>3. f \in Failures
        BY <2>3, OneGuard, OneMoreFailure
      <3> HIDE DEF f, up, k, o
      <3>4. /\ PauseCovered(disk.guard[k], SinceAdmission(Pause[up]))
            /\ PauseCovered(disk.guard[k], SinceAdmission(Pause[0]))
            /\ PauseCovered(disk.guard[k], owed.pause[k])
        BY <1>2, <1>3, <2>3, <3>1, <3>2
      <3>5. PauseCovered(disk.guard[k], o.pause[k])
        <4>1. o.pause[k] \in {SinceAdmission(Pause[up]), SinceAdmission(Pause[0]), owed.pause[k]}
          BY <2>1
        <4>2. QED
          BY <3>4, <4>1
      <3>6. FailuresCovered(disk.guard[k], f)
        <4>1. Window <= disk.guard[k].pending /\ disk.guard[k].pending \in Nat /\ Window \in Nat
          BY <3>2, Outlasts, Parameters
        <4>2. ASSUME NEW i \in 1..Limit PROVE f[i] <= disk.guard[k].pending
          <5>1. f[i] \in Nat /\ f[i] <= Window
            BY <3>3, FailureIsTime
          <5>2. QED
            BY <4>1, <5>1
        <4>3. QED
          BY <4>2 DEF FailuresCovered
      <3>7. QED
        BY <2>1, <2>3, <3>5, <3>6 DEF o
    <2>4. QED
      BY <2>2, <2>3
  <1>5. ASSUME NEW g \in Guards
        PROVE  PauseCovered(disk.guard[g], OwedRestart(owed).pause[g])
    <2>1. OwedRestart(owed).pause[g] = IF g \in InPlay /\ disk.guard[g].paused
                                      THEN SinceAdmission(Pause[disk.guard[g].level])
                                      ELSE owed.pause[g]
      BY <1>1, OwedRestartOn
    <2>2. disk.guard[g].level \in 0..MaxGuardLevel
      BY OneGuard
    <2>3. CASE g \in InPlay /\ disk.guard[g].paused
      BY <1>2, <2>1, <2>2, <2>3
    <2>4. CASE ~ (g \in InPlay /\ disk.guard[g].paused)
      BY <1>3, <2>1, <2>4
    <2>5. QED
      BY <2>3, <2>4
  <1>6. QED
    BY <1>4, <1>5

\* What Finish leaves of a guard
LEMMA FinishedGuard ==
  ASSUME Base, pc # "free", NEW r \in BOOLEAN, NEW g \in Guards
  PROVE  LET s == Finish(disk, InPlay, r)
             h == disk.guard[g]
         IN  /\ s \in State
             /\ s.guard[g].fails = h.fails
             /\ s.guard[g].level = h.level
             /\ s.guard[g].paused = h.paused
             /\ g \notin InPlay => s.guard[g] = h
             /\ g \in InPlay => s.guard[g].until = IF r /\ h.paused THEN Pause[h.level] ELSE h.until
  BY BaseFacts, FinishOn

\* A pause goes on, or starts anew and is as long as its level calls for.
LEMMA StillPaused ==
  ASSUME Base, NEW g \in Guards, NEW q \in Nat, q <= disk.guard[g].until
  PROVE  q <= IF disk.guard[g].paused THEN Pause[disk.guard[g].level] ELSE disk.guard[g].until
  <1>1. /\ disk.guard[g].until <= Pause[disk.guard[g].level]
        /\ disk.guard[g].until \in Nat /\ Pause[disk.guard[g].level] \in Nat
    BY OneGuard DEF Fit
  <1>2. q <= Pause[disk.guard[g].level]
    BY <1>1
  <1>3. QED
    BY <1>2

\* The guards an attempt has reserved are among those it has found open.
LEMMA InPlayChecked ==
  ASSUME Base, pc # "free"
  PROVE  /\ InPlay \subseteq Checked(caller)
         /\ ChargedGuard \in InPlay
         /\ caller = "public" => Checked(caller) = Guards
  BY DEF InPlay, Checked, ChargedGuard, Guards

\* What each outcome puts on record covers the pauses it calls for.
LEMMA PauseSaved ==
  ASSUME Base, PauseInv, pc # "free", NEW g \in Guards
  PROVE  /\ \A s \in {Opened(Finish(disk, InPlay, FALSE), age),
                     ProbeFailed(Finish(disk, InPlay, FALSE))} :
              PauseCovered(s.guard[g], owed.pause[g]) /\ FailuresCovered(s.guard[g], owed.fails[g])
         /\ LET s == ProbeFailed(Finish(disk, InPlay, TRUE))
            IN  /\ PauseCovered(s.guard[g], OwedRestart(owed).pause[g])
                /\ FailuresCovered(s.guard[g], owed.fails[g])
         /\ LET s == ProbeFailed(Charged(Finish(disk, InPlay, FALSE), ChargedGuard))
            IN  /\ PauseCovered(s.guard[g], OwedRejection(owed).pause[g])
                /\ FailuresCovered(s.guard[g], OwedRejection(owed).fails[g])
         /\ LET s == Cleared(Finish(disk, InPlay, FALSE), InPlay)
            IN  /\ PauseCovered(s.guard[g], IF g \in InPlay THEN 0 ELSE owed.pause[g])
                /\ FailuresCovered(s.guard[g], owed.fails[g])
  <1> DEFINE h == disk.guard[g]
             q == owed.pause[g]
             f == owed.fails[g]
  <1>1. /\ disk \in State /\ owed \in Owed /\ age \in Nat /\ InPlay \in SUBSET Guards
        /\ ChargedGuard \in Guards /\ ChargedGuard \in InPlay
    BY BaseFacts, GuardSets, InPlayChecked
  <1>2. /\ PauseCovered(h, q) /\ FailuresCovered(h, f)
        /\ g \in InPlay => q <= h.until /\ AtMost(f, h.fails)
    BY InPlayChecked DEF PauseInv, GuardInv
  \* a guard that keeps its rejections and at least its pause covers both
  <1>3. ASSUME NEW k, NEW t, k.fails = h.fails,
               \/ k = h /\ t = q
               \/ g \in InPlay /\ t <= k.until
        PROVE  PauseCovered(k, t) /\ FailuresCovered(k, f)
    BY <1>2, <1>3 DEF PauseCovered, FailuresCovered
  <1>4. ASSUME NEW s \in {Opened(Finish(disk, InPlay, FALSE), age),
                          ProbeFailed(Finish(disk, InPlay, FALSE))}
        PROVE  PauseCovered(s.guard[g], q) /\ FailuresCovered(s.guard[g], f)
    <2> DEFINE d == Finish(disk, InPlay, FALSE)
    <2>1. /\ d \in State /\ d.guard[g].fails = h.fails
          /\ g \notin InPlay => d.guard[g] = h
          /\ g \in InPlay => d.guard[g].until = h.until
      BY FinishedGuard
    <2> HIDE DEF d
    <2>2. Opened(d, age).guard = d.guard /\ ProbeFailed(d).guard = d.guard
      <3>1. Opened(d, age).guard = d.guard
        BY <1>1, <2>1, OpenedOn
      <3>2. ProbeFailed(d).guard = d.guard
        BY <1>1, <2>1, ProbeFailedOn
      <3>3. QED
        BY <3>1, <3>2
    <2>3. s.guard = d.guard
      BY <1>4, <2>2 DEF d
    <2> HIDE DEF h, q, f
    <2>4. CASE g \in InPlay
      BY <1>2, <1>3, <2>1, <2>3, <2>4
    <2>5. CASE g \notin InPlay
      BY <1>3, <2>1, <2>3, <2>5
    <2>6. QED
      BY <2>4, <2>5
  <1>5. LET s == ProbeFailed(Finish(disk, InPlay, TRUE))
        IN  /\ PauseCovered(s.guard[g], OwedRestart(owed).pause[g])
            /\ FailuresCovered(s.guard[g], f)
    <2> DEFINE d == Finish(disk, InPlay, TRUE)
               t == OwedRestart(owed).pause[g]
    <2>1. /\ d \in State /\ d.guard[g].fails = h.fails
          /\ g \notin InPlay => d.guard[g] = h
          /\ g \in InPlay => d.guard[g].until = IF h.paused THEN Pause[h.level] ELSE h.until
      BY FinishedGuard
    <2>2. t = IF g \in InPlay /\ h.paused THEN SinceAdmission(Pause[h.level]) ELSE q
      BY <1>1, OwedRestartOn
    <2>3. SinceAdmission(Pause[h.level]) <= Pause[h.level]
      BY <1>1, OneGuard, SinceFacts
    <2> HIDE DEF d, t
    <2>4. ProbeFailed(d).guard = d.guard
      BY <1>1, <2>1, ProbeFailedOn
    <2>5. g \in InPlay => t <= d.guard[g].until
      <3> HIDE DEF h, q
      <3>1. CASE h.paused
        BY <2>1, <2>2, <2>3, <3>1
      <3>2. CASE ~ h.paused
        BY <1>2, <2>1, <2>2, <3>2
      <3>3. QED
        BY <3>1, <3>2
    <2> HIDE DEF h, q, f
    <2>6. CASE g \in InPlay
      BY <1>3, <2>1, <2>4, <2>5, <2>6 DEF d, t
    <2>7. CASE g \notin InPlay
      BY <1>3, <2>1, <2>2, <2>4, <2>7 DEF d, t
    <2>8. QED
      BY <2>6, <2>7
  <1>6. LET s == ProbeFailed(Charged(Finish(disk, InPlay, FALSE), ChargedGuard))
        IN  /\ PauseCovered(s.guard[g], OwedRejection(owed).pause[g])
            /\ FailuresCovered(s.guard[g], OwedRejection(owed).fails[g])
    <2> DEFINE d == Finish(disk, InPlay, FALSE)
               k == ChargedGuard
               c == Charged(d, k)
               o == OwedRejection(owed)
    <2>1. /\ d \in State /\ d.guard[g].fails = h.fails /\ d.guard[g].level = h.level
          /\ d.guard[g].paused = h.paused
          /\ g \notin InPlay => d.guard[g] = h
          /\ g \in InPlay => d.guard[g].until = h.until
      BY FinishedGuard
    <2> HIDE DEF d
    <2>2. c \in State
      BY <1>1, <2>1, ChargedOn
    <2>3. ProbeFailed(c).guard = c.guard
      <3> HIDE DEF c
      <3>1. QED
        BY <1>1, <2>2, ProbeFailedOn
    <2>4. CASE g # k
      <3>1. \A j \in Guards \ {k} : c.guard[j] = d.guard[j]
        BY <1>1, <2>1, ChargedOn
      <3>2. \A j \in Guards \ {k} : o.pause[j] = owed.pause[j] /\ o.fails[j] = owed.fails[j]
        BY <1>1, OwedRejectionOn
      <3> HIDE DEF c, o, k
      <3>3. c.guard[g] = d.guard[g] /\ o.pause[g] = q /\ o.fails[g] = f
        BY <2>4, <3>1, <3>2
      <3>4. PauseCovered(c.guard[g], q) /\ FailuresCovered(c.guard[g], f)
        <4> HIDE DEF h, q, f
        <4>1. CASE g \in InPlay
          BY <1>2, <1>3, <2>1, <3>3, <4>1
        <4>2. CASE g \notin InPlay
          BY <1>3, <2>1, <3>3, <4>2
        <4>3. QED
          BY <4>1, <4>2
      <3>5. QED
        BY <2>3, <3>3, <3>4 DEF c, o, k, d
    <2>5. CASE g = k
      <3> DEFINE up == Min2(h.level + 1, MaxGuardLevel)
                 hard == h.paused \/ OneMore(h.fails)[Limit] > 0
                 t == IF h.paused THEN SinceAdmission(Pause[up])
                      ELSE IF OneMore(f)[Limit] > 0 THEN SinceAdmission(Pause[0]) ELSE q
      <3>1. g \in InPlay
        BY <1>1, <2>5
      <3>2. /\ c.guard[g].fails = OneMore(d.guard[g].fails)
            /\ d.guard[g].paused \/ OneMore(d.guard[g].fails)[Limit] > 0 =>
                 c.guard[g].until =
                   Pause[IF d.guard[g].paused THEN Min2(d.guard[g].level + 1, MaxGuardLevel)
                         ELSE d.guard[g].level]
            /\ ~ (d.guard[g].paused \/ OneMore(d.guard[g].fails)[Limit] > 0) =>
                 c.guard[g].until = d.guard[g].until
        BY <2>1, <2>5, ChargedOn
      <3>3. o.fails[g] = OneMore(f) /\ o.pause[g] = t
        BY <1>1, <2>5, OwedRejectionOn
      <3> HIDE DEF c, o, k, t
      <3>4. /\ c.guard[g].fails = OneMore(h.fails)
            /\ hard => c.guard[g].until = Pause[IF h.paused THEN up ELSE h.level]
            /\ ~ hard => c.guard[g].until = h.until
        BY <2>1, <3>1, <3>2
      <3>5. t <= c.guard[g].until /\ AtMost(OneMore(f), c.guard[g].fails)
        <4>1. /\ h \in Guard /\ Fit(h) /\ f \in Failures /\ q \in Nat /\ age \in Nat
              /\ q <= h.until /\ AtMost(f, h.fails)
          BY <1>1, <1>2, <3>1, OneGuard
        <4> HIDE DEF h, f, q
        <4>2. QED
          BY <3>4, <4>1, RejectionOnRecord DEF t
      <3>6. PauseCovered(c.guard[g], o.pause[g]) /\ FailuresCovered(c.guard[g], o.fails[g])
        BY <3>3, <3>5 DEF PauseCovered, FailuresCovered
      <3>7. QED
        BY <2>3, <3>6 DEF c, o, k, d
    <2>6. QED
      BY <2>4, <2>5
  <1>7. LET s == Cleared(Finish(disk, InPlay, FALSE), InPlay)
        IN  /\ PauseCovered(s.guard[g], IF g \in InPlay THEN 0 ELSE q)
            /\ FailuresCovered(s.guard[g], f)
    <2> DEFINE d == Finish(disk, InPlay, FALSE)
               s == Cleared(d, InPlay)
    <2>1. /\ d \in State /\ d.guard[g].fails = h.fails
          /\ g \notin InPlay => d.guard[g] = h
      BY FinishedGuard
    <2> HIDE DEF d
    <2>2. /\ s.guard[g].fails = d.guard[g].fails
          /\ g \notin InPlay => s.guard[g] = d.guard[g]
          /\ g \in InPlay => s.guard[g].until = 0
      BY <1>1, <2>1, ClearedOn
    <2> HIDE DEF s, h, q, f
    <2>3. CASE g \in InPlay
      <3>1. PauseCovered(s.guard[g], 0) /\ FailuresCovered(s.guard[g], f)
        BY <1>3, <2>1, <2>2, <2>3
      <3>2. QED
        BY <2>3, <3>1 DEF s, d
    <2>4. CASE g \notin InPlay
      <3>1. PauseCovered(s.guard[g], q) /\ FailuresCovered(s.guard[g], f)
        BY <1>3, <2>1, <2>2, <2>4
      <3>2. QED
        BY <2>4, <3>1 DEF s, d
    <2>5. QED
      BY <2>3, <2>4
  <1>8. QED
    BY <1>4, <1>5, <1>6, <1>7

\* The token's reservation, and the failure to save it: every pause and every
\* rejection stays on record.
LEMMA TokenSaved ==
  ASSUME Base, PauseInv, pc = "operation", caller = "public", NEW g \in Guards,
         NEW s \in {disk, Reserve(disk, {"trusted"}),
                   ProbeFailed(Finish(Reserve(disk, {"trusted"}), Guards, TRUE))}
  PROVE  owed.pause[g] <= s.guard[g].until /\ AtMost(owed.fails[g], s.guard[g].fails)
  <1> DEFINE h == disk.guard[g]
             r == Reserve(disk, {"trusted"})
             d == Finish(r, Guards, TRUE)
  <1>1. disk \in State /\ age \in Nat /\ {"trusted"} \in SUBSET Guards /\ Guards \in SUBSET Guards
    BY BaseFacts, GuardSets
  <1>2. owed.pause[g] \in Nat /\ owed.pause[g] <= h.until /\ AtMost(owed.fails[g], h.fails)
    BY InPlayChecked, OneGuard DEF PauseInv, GuardInv
  <1>3. owed.pause[g] <= IF h.paused THEN Pause[h.level] ELSE h.until
    BY <1>2, StillPaused
  <1>4. /\ r \in State /\ r.guard[g].fails = h.fails /\ r.guard[g].level = h.level
        /\ r.guard[g].paused = h.paused /\ r.guard[g].until = h.until
    BY <1>1, ReserveOn
  <1> HIDE DEF r
  <1>5. /\ d \in State /\ d.guard[g].fails = r.guard[g].fails
        /\ d.guard[g].until = IF r.guard[g].paused THEN Pause[r.guard[g].level] ELSE r.guard[g].until
    <2>1. TRUE \in BOOLEAN
      OBVIOUS
    <2>2. /\ d \in State /\ d.guard[g].fails = r.guard[g].fails
          /\ g \in Guards =>
               d.guard[g].until = IF TRUE /\ r.guard[g].paused THEN Pause[r.guard[g].level]
                                  ELSE r.guard[g].until
      BY ZenonT(60), <1>1, <1>4, <2>1, FinishOn
    <2> HIDE DEF d
    <2>3. QED
      BY <2>2, Zenon
  <1> HIDE DEF d
  <1>6. ProbeFailed(d).guard = d.guard
    BY <1>1, <1>5, ProbeFailedOn
  <1> HIDE DEF h
  <1>7. CASE s = disk
    BY <1>2, <1>7 DEF h
  <1>8. CASE s = r
    BY <1>2, <1>4, <1>8
  <1>9. CASE s = ProbeFailed(d)
    BY <1>2, <1>3, <1>4, <1>5, <1>6, <1>9
  <1>10. QED
    BY <1>7, <1>8, <1>9 DEF r, d

\* The pauses stay covered as time passes.
LEMMA PauseTick ==
  ASSUME Base, PauseInv, Tick, NEW g \in Guards
  PROVE  GuardInv(g)'
  <1> DEFINE h == disk.guard[g]
             k == disk'.guard[g]
             q == owed.pause[g]
             f == owed.fails[g]
  <1>1. disk \in State /\ owed \in Owed
    BY BaseFacts
  <1>2. /\ k.fails = FailuresLater(h.fails) /\ k.until = Less(h.until) /\ k.pending = Less(h.pending)
        /\ owed'.pause[g] = Less(q) /\ owed'.fails[g] = FailuresLater(f)
        /\ pc' = pc /\ caller' = caller
    BY <1>1, StateLaterOn, OwedLaterOn DEF Tick
  <1>3. /\ h.fails \in Failures /\ f \in Failures /\ q \in Nat /\ h.until \in Nat /\ h.pending \in Nat
    BY OneGuard
  <1>4. /\ PauseCovered(h, q) /\ FailuresCovered(h, f)
        /\ pc # "free" /\ g \in Checked(caller) => q <= h.until /\ AtMost(f, h.fails)
    BY DEF PauseInv, GuardInv
  <1> HIDE DEF h, k, q, f
  <1>5. /\ q <= h.until => Less(q) <= k.until
        /\ q <= h.pending => Less(q) <= k.pending
    BY <1>2, <1>3, LessFacts
  <1>6. AtMost(f, h.fails) => AtMost(FailuresLater(f), k.fails)
    BY <1>2, <1>3, AtMostLater
  <1>7. ASSUME \A i \in 1..Limit : f[i] <= h.pending
        PROVE  \A i \in 1..Limit : FailuresLater(f)[i] <= k.pending
    <2> SUFFICES ASSUME NEW i \in 1..Limit PROVE FailuresLater(f)[i] <= k.pending
      OBVIOUS
    <2>1. f[i] \in Nat /\ f[i] <= h.pending
      BY <1>3, <1>7, FailureIsTime
    <2>2. Less(f[i]) <= Less(h.pending)
      BY <1>3, <2>1, LessFacts
    <2>3. QED
      BY <1>2, <1>3, <2>2, FailuresLaterOn
  <1>8. PauseCovered(k, Less(q)) /\ FailuresCovered(k, FailuresLater(f))
    BY <1>4, <1>5, <1>6, <1>7 DEF PauseCovered, FailuresCovered
  <1>9. pc # "free" /\ g \in Checked(caller) => Less(q) <= k.until /\ AtMost(FailuresLater(f), k.fails)
    BY <1>4, <1>5, <1>6
  <1>10. QED
    BY <1>2, <1>8, <1>9 DEF GuardInv, k, q, f, Checked

\* What an admission finds: for the guards it checks nothing is reserved, so all
\* is on record, and over.
LEMMA PauseOver ==
  ASSUME Base, PauseInv, NEW c \in Callers, Admits(disk, c), NEW g \in Checked(c)
  PROVE  /\ g \in Guards
         /\ owed.pause[g] <= disk.guard[g].until
         /\ AtMost(owed.fails[g], disk.guard[g].fails)
         /\ c # "early" => owed.pause[g] = 0
  <1>1. g \in Guards
    BY GuardSets
  <1>2. disk.guard[g].pending = 0 /\ (c # "early" => disk.guard[g].until = 0)
    BY DEF Admits
  <1>3. /\ disk.guard[g].fails \in Failures /\ owed.fails[g] \in Failures
        /\ owed.pause[g] \in Nat /\ disk.guard[g].until \in Nat
    BY <1>1, OneGuard
  <1>4. PauseCovered(disk.guard[g], owed.pause[g]) /\ FailuresCovered(disk.guard[g], owed.fails[g])
    BY <1>1 DEF PauseInv, GuardInv
  <1>5. owed.pause[g] <= disk.guard[g].until
    BY <1>2, <1>3, <1>4 DEF PauseCovered
  <1>6. AtMost(owed.fails[g], disk.guard[g].fails)
    <2>1. CASE \A i \in 1..Limit : owed.fails[g][i] <= 0
      <3>1. ASSUME NEW i \in 1..Limit PROVE owed.fails[g][i] <= disk.guard[g].fails[i]
        <4>1. owed.fails[g][i] \in Nat /\ disk.guard[g].fails[i] \in Nat
          BY <1>3, FailureIsTime
        <4>2. QED
          BY <2>1, <4>1
      <3>2. QED
        BY <3>1 DEF AtMost
    <2>2. QED
      BY <1>2, <1>4, <2>1 DEF FailuresCovered
  <1>7. QED
    BY <1>1, <1>2, <1>3, <1>5, <1>6

\* The pauses stay covered when an attempt is admitted.
LEMMA PauseAdmit ==
  ASSUME Base, PauseInv, NEW p \in Coordinators, NEW c \in Callers,
         Admit(p, c) \/ AdmitFails(p, c), NEW g \in Guards
  PROVE  GuardInv(g)'
  <1> DEFINE G == IF c = "public" THEN {"public"} ELSE Checked(c)
             s == Reservation(disk, c)
  <1>1. /\ Admits(disk, c) /\ disk' \in {disk, s}
        /\ owed' \in {owed, [owed EXCEPT !.probe = ProbeGap]}
        /\ pc' # "free" => caller' = c
    BY DEF Admit, AdmitFails, Save, SaveFails, attemptVars
  <1>2. owed'.pause = owed.pause /\ owed'.fails = owed.fails
    BY <1>1, BaseFacts DEF Owed
  <1>3. /\ s.guard[g].fails = disk.guard[g].fails /\ s.guard[g].until = disk.guard[g].until
        /\ g \notin G => s.guard[g] = disk.guard[g]
    BY BaseFacts, ReservationOn
  <1>4. G \subseteq Checked(c)
    BY DEF Checked, Guards
  <1>5. /\ PauseCovered(disk.guard[g], owed.pause[g])
        /\ FailuresCovered(disk.guard[g], owed.fails[g])
    BY DEF PauseInv, GuardInv
  <1> HIDE DEF s, G
  <1>6. /\ disk'.guard[g].fails = disk.guard[g].fails /\ disk'.guard[g].until = disk.guard[g].until
        /\ g \notin Checked(c) => disk'.guard[g] = disk.guard[g]
    BY <1>1, <1>3, <1>4
  <1>7. CASE g \in Checked(c)
    <2>1. owed.pause[g] <= disk.guard[g].until /\ AtMost(owed.fails[g], disk.guard[g].fails)
      BY <1>1, <1>7, PauseOver
    <2>2. QED
      BY <1>2, <1>6, <2>1 DEF GuardInv, PauseCovered, FailuresCovered
  <1>8. CASE g \notin Checked(c)
    <2>1. pc' # "free" => g \notin Checked(caller')
      BY <1>1, <1>8
    <2>2. QED
      BY <1>2, <1>5, <1>6, <1>8, <2>1 DEF GuardInv, Checked
  <1>9. QED
    BY <1>7, <1>8

\* The attempt ends: what its answer calls for is on record, or still reserved.
LEMMA PauseAnswered ==
  ASSUME Base, Reserved, PauseInv, NEW g \in Guards,
         Blocked \/ Rejected \/ CommandRejected \/ Interrupted \/ Authenticated
  PROVE  GuardInv(g)'
  <1>1. pc # "free" /\ disk = mem[by] /\ owed \in Owed /\ disk \in State /\ age \in Nat
    BY BaseFacts DEF Blocked, Rejected, CommandRejected, Interrupted, Authenticated, Concludes
  <1>2. pc' = "free"
    BY Concluded DEF Blocked, Rejected, CommandRejected, Interrupted, Authenticated
  <1>3. /\ PauseCovered(disk.guard[g], owed.pause[g])
        /\ FailuresCovered(disk.guard[g], owed.fails[g])
        /\ disk.guard[g].until \in Nat
    BY OneGuard DEF PauseInv, GuardInv
  <1>4. OwedBlock(owed) \in Owed /\ OwedRejection(owed) \in Owed /\ OwedRestart(owed) \in Owed
    BY <1>1, OwedBlockOn, OwedRejectionOn, OwedRestartOn
  <1>5. \A o \in Owed : OwedProbe(o).pause = o.pause /\ OwedProbe(o).fails = o.fails
    BY <1>1, OwedProbeOn
  <1>6. ASSUME PauseCovered(disk'.guard[g], owed'.pause[g]), FailuresCovered(disk'.guard[g], owed'.fails[g])
        PROVE  GuardInv(g)'
    BY <1>2, <1>6 DEF GuardInv
  <1>7. CASE Blocked
    <2>1. owed'.pause = owed.pause /\ owed'.fails = owed.fails
      BY <1>1, <1>4, <1>7, OwedBlockOn DEF Blocked, Owed
    <2>2. disk' \in {disk, Opened(Finish(disk, InPlay, FALSE), age)}
      BY <1>1, <1>7, Concluded DEF Blocked
    <2>3. QED
      BY <1>1, <1>3, <1>6, <2>1, <2>2, PauseSaved
  <1>8. CASE CommandRejected
    <2>1. owed'.pause = owed.pause /\ owed'.fails = owed.fails
      BY <1>1, <1>5, <1>8 DEF CommandRejected
    <2>2. disk' \in {disk, ProbeFailed(Finish(disk, InPlay, FALSE))}
      BY <1>1, <1>8, Concluded DEF CommandRejected
    <2>3. QED
      BY <1>1, <1>3, <1>6, <2>1, <2>2, PauseSaved
  <1>9. CASE Interrupted
    <2>1. owed'.pause = OwedRestart(owed).pause /\ owed'.fails = owed.fails
      BY <1>1, <1>4, <1>5, <1>9, OwedRestartOn DEF Interrupted
    <2>2. disk' \in {disk, ProbeFailed(Finish(disk, InPlay, TRUE))}
      BY <1>1, <1>9, Concluded DEF Interrupted
    <2>3. QED
      BY <1>1, <1>3, <1>6, <2>1, <2>2, PauseSaved, PauseReserved
  <1>10. CASE Rejected
    <2>1. owed'.pause = OwedRejection(owed).pause /\ owed'.fails = OwedRejection(owed).fails
      BY <1>1, <1>4, <1>5, <1>10 DEF Rejected
    <2>2. disk' \in {disk, ProbeFailed(Charged(Finish(disk, InPlay, FALSE), ChargedGuard))}
      BY <1>1, <1>10, Concluded DEF Rejected
    <2>3. QED
      BY <1>1, <1>6, <2>1, <2>2, PauseSaved, PauseReserved
  <1>11. CASE Authenticated
    <2>1. owed'.pause[g] = (IF g \in InPlay THEN 0 ELSE owed.pause[g]) /\ owed'.fails = owed.fails
      BY <1>1, <1>11 DEF Authenticated, Owed
    <2>2. Concludes(Cleared(Finish(disk, InPlay, FALSE), InPlay))
      BY <1>1, <1>11, Zenon DEF Authenticated, Cleared
    <2>3. disk' \in {disk, Cleared(Finish(disk, InPlay, FALSE), InPlay)}
      BY <2>2, Concluded
    <2>4. PauseCovered(disk.guard[g], IF g \in InPlay THEN 0 ELSE owed.pause[g])
      BY <1>3 DEF PauseCovered
    <2>5. QED
      BY <1>1, <1>3, <1>6, <2>1, <2>3, <2>4, PauseSaved
  <1>12. QED
    BY <1>7, <1>8, <1>9, <1>10, <1>11

\* The pauses stay covered.
LEMMA PauseNext ==
  ASSUME Base, Reserved, PauseInv, ~ stale', [Next]_vars
  PROVE  PauseInv'
  <1> SUFFICES ASSUME NEW g \in Guards PROVE GuardInv(g)'
    BY DEF PauseInv
  <1>1. disk \in State /\ owed \in Owed /\ age \in Nat /\ GuardInv(g)
    BY BaseFacts DEF PauseInv
  <1>2. ASSUME disk'.guard = disk.guard, owed'.pause = owed.pause, owed'.fails = owed.fails,
               pc' = "free" \/ (pc' = pc /\ caller' = caller)
        PROVE  GuardInv(g)'
    BY <1>1, <1>2 DEF GuardInv, Checked
  <1>3. CASE UNCHANGED <<disk, pc, caller, age, owed, stale>>
    BY <1>2, <1>3
  <1>4. CASE Tick
    BY <1>4, PauseTick
  <1>5. ASSUME NEW p \in Coordinators, NEW c \in Callers, Admit(p, c) \/ AdmitFails(p, c)
        PROVE  GuardInv(g)'
    BY <1>5, PauseAdmit
  <1>6. ASSUME NEW p \in Coordinators, Suppress(p) \/ Observe(p) \/ ObserveUnreadable(p)
        PROVE  GuardInv(g)'
    BY <1>2, <1>6, IdleGuards
  <1>7. ASSUME TokenPhase \/ TokenPhaseFails PROVE GuardInv(g)'
    <2>1. pc = "operation" /\ caller = "public" /\ disk = mem[by]
      BY <1>7, BaseFacts DEF TokenPhase, TokenPhaseFails
    <2>2. disk' \in {disk, Reserve(disk, {"trusted"}),
                     ProbeFailed(Finish(Reserve(disk, {"trusted"}), Guards, TRUE))}
      BY <1>7, <2>1 DEF TokenPhase, TokenPhaseFails, Save
    <2>3. owed'.pause = owed.pause /\ owed'.fails = owed.fails
      BY <1>1, <1>7, OwedProbeOn DEF TokenPhase, TokenPhaseFails
    <2>4. owed.pause[g] <= disk'.guard[g].until /\ AtMost(owed.fails[g], disk'.guard[g].fails)
      BY <2>1, <2>2, TokenSaved
    <2>5. QED
      BY <2>3, <2>4 DEF GuardInv, PauseCovered, FailuresCovered
  <1>8. ASSUME Blocked \/ Rejected \/ CommandRejected \/ Interrupted \/ Authenticated
        PROVE  GuardInv(g)'
    BY <1>8, PauseAnswered
  <1>9. CASE Crash
    <2>1. /\ pc # "free" /\ disk' = disk /\ pc' = "free"
          /\ owed' \in {owed, OwedBlock(owed), OwedRejection(owed)}
      BY <1>9 DEF Crash, Over
    <2>2. OwedBlock(owed).pause = owed.pause /\ OwedBlock(owed).fails = owed.fails
      BY <1>1, OwedBlockOn
    <2>3. \/ owed'.pause = owed.pause /\ owed'.fails = owed.fails
          \/ owed' = OwedRejection(owed)
      BY <2>1, <2>2
    <2>4. /\ PauseCovered(disk.guard[g], owed'.pause[g])
          /\ FailuresCovered(disk.guard[g], owed'.fails[g])
      BY <1>1, <2>1, <2>3, PauseReserved DEF GuardInv
    <2>5. QED
      BY <2>1, <2>4 DEF GuardInv
  <1>10. QED
    BY <1>3, <1>4, <1>5, <1>6, <1>7, <1>8, <1>9, Unchanged DEF Next

\* Limit rejections within Window pause every further attempt that checks the
\* same guard, rejected or interrupted probes prolong the pause, and neither a
\* crash nor a failed save forgets any of it, unless a coordinator wrote an
\* outdated copy over the file.
THEOREM PauseIsHonoured == Spec => PauseHonoured
  <1> DEFINE Inv == Base /\ Reserved /\ (stale \/ PauseInv)
  <1>1. Init => Inv
    <2>1. ASSUME Init, NEW g \in Guards PROVE GuardInv(g)
      <3>1. /\ owed.pause[g] = 0 /\ owed.fails[g] = NoFailures /\ pc = "free"
            /\ disk.guard[g].until = 0 /\ disk.guard[g].fails = NoFailures
        BY <2>1 DEF Init, Fallback
      <3>2. \A i \in 1..Limit : NoFailures[i] = 0
        BY DEF NoFailures
      <3>3. QED
        BY <3>1, <3>2 DEF GuardInv, PauseCovered, FailuresCovered, AtMost
    <2>2. QED
      BY <2>1, BaseInit, ReservedInit DEF PauseInv
  <1>2. Inv /\ [Next]_vars => Inv'
    BY BaseNext, ReservedNext, PauseNext, StaleStays
  <1>3. Inv /\ [Next]_vars =>
          (~ stale /\ Sends /\ caller' # "early" => \A g \in Checked(caller') : owed.pause[g] = 0)
    <2> SUFFICES ASSUME Inv, [Next]_vars, ~ stale, Sends, caller' # "early", NEW g \in Checked(caller')
                 PROVE  owed.pause[g] = 0
      OBVIOUS
    <2>1. PICK p \in Coordinators, c \in Callers : Admit(p, c)
      BY Admissions
    <2>2. caller' = c /\ Admits(disk, c) /\ c # "early"
      BY <2>1 DEF Admit
    <2>3. QED
      BY <2>2, PauseOver
  <1> HIDE DEF Inv
  <1>4. Spec => []Inv
    BY <1>1, <1>2, PTL DEF Spec
  <1>5. QED
    BY <1>3, <1>4, PTL DEF Spec, PauseHonoured
===============================================================================
