------------------------------- MODULE LoadShift -------------------------------
(***************************************************************************)
(* The retrospective shift of loads: which observed cycles of a load, and  *)
(* which declared ones of another, would have fitted where energy was      *)
(* exported?  From the captured states of the load come segments           *)
(* (src/mcpserver/history_analysis.py), from these its cycles              *)
(* (src/mcpserver/load_cycles.py), from these the alternatives, and from   *)
(* those the choice (src/mcpserver/retrospective_shift.py,                 *)
(* src/mcpserver/history_comparison.py).                                   *)
(*                                                                         *)
(* The unit of time is an hour.  Energy and Export are the measured hours  *)
(* of the load and of the export.  Windows and latest completion are a set *)
(* of hours to start in; input validation, the deadline, cycles of more    *)
(* than a day, programs the user has not confirmed and numbers that are    *)
(* not finite are left out.                                                *)
(***************************************************************************)
EXTENDS Integers, Sequences, FiniteSets, SequencesExt, FiniteSetsExt, Sums

CONSTANTS
  Hours,             \* length of the interval that is analysed
  Duration,          \* duration_seconds of the load, in hours
  MinimumOff,        \* minimum_off_seconds
  Energy,            \* hour -> what the load takes in this hour when it runs
  Export,            \* hour -> measured export
  Windows,           \* hours in which an alternative may start
  DeclaredDuration,  \* of the load that is declared, not observed
  DeclaredEnergy,    \* what it takes per hour
  MaxEpisodes,       \* 16 episodes are described,
  MaxIntervals,      \* 128 hours of energy with them,
  MaxAlternatives,   \* 4096 alternatives are looked at,
  MaxSelections,     \* and 16 published
  MaxAllocations,    \* with 128 hours
  MaxBreaks          \* bound: unknown hours, and captures that follow one another

Interval == 0 .. (Hours - 1)

Parameters ==
  /\ Hours \in Nat \ {0} /\ Duration \in Nat \ {0} /\ MinimumOff \in Nat
  /\ DOMAIN Energy \subseteq Interval /\ Energy \in [DOMAIN Energy -> Nat]
  /\ DOMAIN Export \subseteq Interval /\ Export \in [DOMAIN Export -> Nat]
  /\ Windows \subseteq Interval
  /\ DeclaredDuration \in Nat \ {0} /\ DeclaredEnergy \in Nat
  /\ {MaxEpisodes, MaxIntervals, MaxAlternatives, MaxSelections, MaxAllocations,
      MaxBreaks} \subseteq Nat

VARIABLES
  hour,        \* what was observed: in each hour "on", "off" or "unknown", and whether
               \* a capture begins with it
  step,        \* "observe", "allocate", "done"
  candidates,  \* alternatives that are left
  budget,      \* export that is left
  chosen       \* sequence of selections: a candidate, and the energy it is given

vars == <<hour, step, candidates, budget, chosen>>

Init ==
  /\ hour = <<>>
  /\ step = "observe"
  /\ candidates = {}
  /\ budget = Export
  /\ chosen = <<>>

Breaks == Cardinality({i \in DOMAIN hour : hour[i].is = "unknown" \/ hour[i].cut})

\* The recorder captures one hour more, or fails to.  (Whether the capture ends with
\* an unknown hour makes no difference: nothing reaches across it.)
Observe ==
  /\ step = "observe"
  /\ Len(hour) < Hours
  /\ \/ \E v \in {"on", "off"} : hour' = Append(hour, [is |-> v, cut |-> FALSE])
     \/ /\ Breaks < MaxBreaks
        /\ \/ hour' = Append(hour, [is |-> "unknown", cut |-> FALSE])
           \/ /\ hour # <<>> /\ Last(hour).is # "unknown"
              /\ \E v \in {"on", "off"} : hour' = Append(hour, [is |-> v, cut |-> TRUE])
  /\ UNCHANGED <<step, candidates, budget, chosen>>

-------------------------------------------------------------------------------

\* Capture phases are counted.
Phase(h) == Cardinality({i \in 1 .. (h + 1) : hour[i].cut})

\* reconstruct_segments, a segment for each hour with a known value.
Segment(h) == [start |-> h, end |-> h + 1, active |-> hour[h + 1].is = "on", phase |-> Phase(h)]

Continues(a, b) == a.end = b.start /\ a.active = b.active /\ a.phase = b.phase

Extended(m, s) ==
  IF m # <<>> /\ Continues(Last(m), s) THEN [m EXCEPT ![Len(m)].end = s.end] ELSE Append(m, s)

\* Segments that continue one another are one.
MergedTo ==
  LET m[n \in 0..Hours] ==
        IF n = 0 THEN <<>>
        ELSE IF hour[n].is = "unknown" THEN m[n - 1]
        ELSE Extended(m[n - 1], Segment(n - 1))
  IN  m

Merged == MergedTo[Hours]

\* Mutant of Complete: the edges may be seen in different captures.
CompleteInAnyPhase(m, i) ==
  LET Off(j) == j \in DOMAIN m /\ ~m[j].active
  IN  /\ Off(i - 1) /\ m[i - 1].end = m[i].start
      /\ Off(i + 1) /\ m[i].end = m[i + 1].start
      /\ 0 < m[i].start /\ m[i].end < Hours

\* Both edges were seen in the same capture.
Complete(m, i) ==
  LET Off(j) == j \in DOMAIN m /\ ~m[j].active /\ m[j].phase = m[i].phase
  IN  /\ Off(i - 1) /\ m[i - 1].end = m[i].start
      /\ Off(i + 1) /\ m[i].end = m[i + 1].start
      /\ 0 < m[i].start /\ m[i].end < Hours

Active(m) == {i \in DOMAIN m : m[i].active}

\* Episodes whose energy is measured.
WithEnergy(m) ==
  {i \in Active(m) : Complete(m, i) /\ m[i].start .. (m[i].end - 1) \subseteq DOMAIN Energy}

\* Neither an episode nor the energy of one is left out for want of room.
Inventoried(m) ==
  /\ Cardinality(Active(m)) <= MaxEpisodes
  /\ MapThenSumSet(LAMBDA i : m[i].end - m[i].start, WithEnergy(m)) <= MaxIntervals

\* Cycles that may be shifted, by the hour they started: of the declared duration,
\* after a pause that was long enough.
Eligible(m) ==
  {m[i].start : i \in {j \in WithEnergy(m) :
     /\ m[j].end - m[j].start = Duration
     /\ m[j - 1].end - m[j - 1].start >= MinimumOff}}

-------------------------------------------------------------------------------

\* The load was seen inactive all the time, in one capture.
Inactive(start, end) ==
  /\ 0 <= start /\ end <= Hours
  /\ \A h \in start .. (end - 1) : hour[h + 1].is = "off" /\ Phase(h) = Phase(start)

\* Where a cycle may be looked for.
Fits(at, duration) == at \in DOMAIN Export \cap Windows /\ at + duration <= Hours

Tried(m) ==
  {u \in Eligible(m) \X Interval :
     /\ Fits(u[2], Duration)
     /\ ~(u[2] < u[1] + Duration /\ u[1] < u[2] + Duration)}

\* The energy of a cycle, hour by hour, where it would run.
Demanded(o, at) == [h \in at .. (at + Duration - 1) |-> Energy[o + h - at]]

Measured(demand) == DOMAIN demand \subseteq DOMAIN Export

Least(x, y) == IF x < y THEN x ELSE y

\* Alternatives of the observed load.
Observed(m) ==
  {[load |-> 1, cycle |-> t[1], start |-> t[2], end |-> t[2] + Duration, off |-> MinimumOff,
    demand |-> Demanded(t[1], t[2])] :
     t \in {u \in Tried(m) : /\ Inactive(u[2] - MinimumOff, u[2] + Duration + MinimumOff)
                             /\ Measured(Demanded(u[1], u[2]))
                             /\ \E h \in DOMAIN Demanded(u[1], u[2]) :
                                  Least(Demanded(u[1], u[2])[h], Export[h]) > 0}}

\* Alternatives of the declared load: one cycle, of which no feedback is known.  It
\* is moved once at most, so that its pause does not matter.
Declared ==
  LET D(at) == [h \in at .. (at + DeclaredDuration - 1) |-> DeclaredEnergy]
  IN  {[load |-> 2, cycle |-> 0, start |-> at, end |-> at + DeclaredDuration, off |-> 0,
        demand |-> D(at)] :
         at \in {a \in Interval : Fits(a, DeclaredDuration) /\ Measured(D(a))}}

\* The analysis: no result is drawn from a part of the cycles or alternatives.
Analyse ==
  LET m == Merged
      looked == Cardinality(Tried(m)) + Cardinality({at \in Interval : Fits(at, DeclaredDuration)})
  IN  /\ step = "observe"
      /\ Len(hour) = Hours
      /\ IF ~Inventoried(m) \/ looked > MaxAlternatives
         THEN step' = "done" /\ UNCHANGED candidates
         ELSE step' = "allocate" /\ candidates' = Observed(m) \cup Declared
      /\ UNCHANGED <<hour, budget, chosen>>

-------------------------------------------------------------------------------

SumOver(f) == Total([h \in 1..Hours |-> IF h - 1 \in DOMAIN f THEN f[h - 1] ELSE 0])

\* What a candidate would be given now, and then is, from the budget of all.
Share(c) == [h \in DOMAIN c.demand |-> Least(c.demand[h], budget[h])]

\* More absorbed, then earlier, then the load, then the cycle.
Before(c, d) ==
  LET x == SumOver(Share(c))
      y == SumOver(Share(d))
  IN  \/ x > y
      \/ x = y /\ c.start < d.start
      \/ x = y /\ c.start = d.start /\ c.load < d.load
      \/ x = y /\ c.start = d.start /\ c.load = d.load /\ c.cycle <= d.cycle

\* Mutant of Conflicts: cycles may follow one another without a pause.
ConflictsWithoutPause(c, d) ==
  /\ c.load = d.load
  /\ c.cycle = d.cycle \/ (c.start < d.end /\ d.start < c.end)

Conflicts(c, d) ==
  /\ c.load = d.load
  /\ \/ c.cycle = d.cycle
     \/ c.start - d.off < d.end /\ d.start < c.end + d.off

Published == Total([k \in DOMAIN chosen |-> Cardinality(DOMAIN chosen[k].given)])

Select ==
  LET best == CHOOSE c \in candidates : \A d \in candidates : Before(c, d)
  IN  /\ step = "allocate"
      /\ candidates # {}
      /\ IF \/ SumOver(Share(best)) = 0
            \/ Len(chosen) = MaxSelections
            \/ Cardinality(DOMAIN best.demand) > MaxAllocations - Published
         THEN step' = "done" /\ UNCHANGED <<candidates, budget, chosen>>
         ELSE /\ chosen' = Append(chosen, [of |-> best, given |-> Share(best)])
              /\ budget' = [h \in DOMAIN budget |-> IF h \in DOMAIN best.demand
                                                    THEN budget[h] - Share(best)[h]
                                                    ELSE budget[h]]
              /\ candidates' = {c \in candidates : ~Conflicts(c, best)}
              /\ UNCHANGED step
      /\ UNCHANGED hour

Finish ==
  /\ step = "allocate"
  /\ candidates = {}
  /\ step' = "done"
  /\ UNCHANGED <<hour, candidates, budget, chosen>>

Next == Observe \/ Analyse \/ Select \/ Finish

Spec == Init /\ [][Next]_vars

-------------------------------------------------------------------------------

\* Types; every candidate lies in the interval.
TypeOK ==
  /\ Len(hour) <= Hours
  /\ step \in {"observe", "allocate", "done"}
  /\ budget \in [DOMAIN Export -> Nat]
  /\ \A c \in candidates : c.start >= 0 /\ c.end <= Hours
  /\ Len(chosen) <= MaxSelections

Selected == {chosen[k] : k \in DOMAIN chosen}
Moved == {s.of.cycle : s \in {t \in Selected : t.of.load = 1}}
RunOf(o) == o .. (o + Duration - 1)

\* What is moved has been observed: the load was seen to start and to stop, in
\* one capture and after a pause, and ran for the declared time in between; and it
\* takes at most what it took.
CyclesWereRun ==
  \A s \in Selected : s.of.load = 1 =>
    LET o == s.of.cycle
        seen == (o - MinimumOff) .. (o + Duration)
    IN  /\ seen \cup {o - 1} \subseteq Interval
        /\ \A h \in seen \cup {o - 1} : hour[h + 1].is = IF h \in RunOf(o) THEN "on" ELSE "off"
        /\ \A h \in o .. (o + Duration) : ~hour[h + 1].cut
        /\ \A h \in DOMAIN s.given : s.given[h] <= Energy[o + h - s.of.start]

\* What the selections are given in an hour
Given(selections, h) ==
  [k \in DOMAIN selections |->
     IF h \in DOMAIN selections[k].given THEN selections[k].given[h] ELSE 0]

\* The selections together are possible: in each hour they take no more than was
\* exported; no cycle is moved twice; and with all of them moved, the observed load
\* keeps its pause between any two runs, unobserved hours counted as runs.
PlanIsPossible ==
  /\ \A h \in DOMAIN Export : Total(Given(chosen, h)) <= Export[h]
  /\ \A j, k \in DOMAIN chosen :
       j # k => <<chosen[j].of.load, chosen[j].of.cycle>> # <<chosen[k].of.load, chosen[k].of.cycle>>
  /\ LET moved == {t \in Selected : t.of.load = 1}
         stays == {h \in Interval : /\ hour[h + 1].is # "off"
                                    /\ \A o \in Moved : h \notin RunOf(o)}
     IN  \A s \in moved :
           LET near == (s.of.start - MinimumOff) .. (s.of.end + MinimumOff - 1)
           IN  /\ near \subseteq Interval
               /\ near \cap stays = {}
               /\ \A t \in moved \ {s} : near \cap (t.of.start .. (t.of.end - 1)) = {}

-------------------------------------------------------------------------------
(***************************************************************************)
(* The inductive invariant.                                                *)
(***************************************************************************)

Segments == [start : Nat, end : Nat, active : BOOLEAN, phase : Nat]

Observations == [is : {"on", "off", "unknown"}, cut : BOOLEAN]

Alternatives == Observed(Merged) \cup Declared

\* A selection is given energy in the hours in which its cycle would run, and no more
\* than the cycle takes.
IsSelection(s) ==
  /\ s.of \in Alternatives
  /\ s.given \in [DOMAIN s.of.demand -> Nat]
  /\ \A h \in DOMAIN s.given : s.given[h] <= s.of.demand[h]

\* What is chosen, and what can be chosen next, are alternatives of what was observed.
FromObservation ==
  /\ hour \in Seq(Observations)
  /\ Len(chosen) \in Nat /\ DOMAIN chosen = 1 .. Len(chosen)
  /\ IF step = "observe" THEN candidates = {} /\ chosen = <<>>
     ELSE /\ Len(hour) = Hours
          /\ candidates \subseteq Alternatives
          /\ \A k \in DOMAIN chosen : IsSelection(chosen[k])

\* In each hour, what was given and what is left make up what was exported.
ExportIsSpent == \A h \in DOMAIN Export : Total(Given(chosen, h)) + budget[h] = Export[h]

\* No selection conflicts with another, and none with what can be chosen next.
NoConflict ==
  /\ \A j, k \in DOMAIN chosen : j < k => ~Conflicts(chosen[k].of, chosen[j].of)
  /\ \A c \in candidates, k \in DOMAIN chosen : ~Conflicts(c, chosen[k].of)

ShiftInv == TypeOK /\ FromObservation /\ ExportIsSpent /\ NoConflict
===============================================================================
