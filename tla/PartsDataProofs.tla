--------------------------- MODULE PartsDataProofs ----------------------------
(***************************************************************************)
(* Theorems about the two components of MCData, the shift of loads and the *)
(* cache of states.  Both keep sums, and compute with loops over sequences *)
(* and with recursive functions: those are shown to exist and to be what   *)
(* they look like by induction on sets of numbers.  PartsProofs puts the   *)
(* steps together to theorems about MCParts.                               *)
(***************************************************************************)
EXTENDS MCData, Sums, Sequences, SequenceTheorems, FunctionTheorems, FiniteSetTheorems,
        WellFoundedInduction, TLAPS

-------------------------------------------------------------------------------
(***************************************************************************)
(* Numbers and sums.                                                       *)
(***************************************************************************)

\* Every set of natural numbers has a least one.
LessOnNat == OpToRel(<, Nat)

LEMMA LessOnNatIsWellFounded == IsWellFoundedOn(LessOnNat, Nat)
  BY NatLessThanWellFounded DEF LessOnNat

LEMMA LessOnNatIsLess ==
  \A a, b : <<a, b>> \in LessOnNat <=> a \in Nat /\ b \in Nat /\ a < b
  BY DEF LessOnNat, OpToRel

LEMMA LeastNatural ==
  ASSUME NEW T \in SUBSET Nat, T # {}
  PROVE  \E x \in T : \A y \in T : x <= y
  <1>1. \E x \in T : \A y \in T : ~ (<<y, x>> \in LessOnNat)
    BY LessOnNatIsWellFounded, WFMin
  <1>2. PICK x \in T : \A y \in T : ~ (<<y, x>> \in LessOnNat)
    BY <1>1
  <1>3. ASSUME NEW y \in T PROVE x <= y
    <2>1. ~ (y \in Nat /\ x \in Nat /\ y < x)
      BY <1>2, LessOnNatIsLess
    <2>2. QED
      BY <2>1
  <1>4. QED
    BY <1>3

\* A set of numbers with zero and all successors has every number.
LEMMA FromZero ==
  ASSUME NEW S, 0 \in S, \A n \in Nat : n \in S => n + 1 \in S
  PROVE  \A n \in Nat : n \in S
  <1>1. SUFFICES ASSUME NEW n \in Nat, n \notin S PROVE FALSE
    OBVIOUS
  <1>2. DEFINE Bad == {k \in Nat : k \notin S}
  <1>3. /\ Bad \subseteq Nat /\ Bad # {}
    BY <1>1
  <1>4. PICK k \in Bad : \A j \in Bad : k <= j
    BY <1>3, LeastNatural
  <1>5. k \in Nat /\ k # 0 /\ k \notin S
    BY <1>4
  <1>6. k - 1 \in Nat /\ ~(k <= k - 1)
    BY <1>5
  <1>7. k - 1 \in S
    BY <1>4, <1>5, <1>6
  <1>8. QED
    BY <1>5, <1>6, <1>7

\* N steps g in V from v, and the values r they lead to.
Recurrence(V, v, N, g) == v \in V /\ N \in Nat /\ g \in [1..N -> [V -> V]]
Solves(r, V, v, N, g) ==
  r \in [0..N -> V] /\ r[0] = v /\ \A n \in 1..N : r[n] = g[n][r[n - 1]]

\* Such values exist: the recursive definitions below are the functions they look like.
LEMMA Recursion ==
  ASSUME NEW V, NEW v, NEW N, NEW g, Recurrence(V, v, N, g)
  PROVE  \E r : Solves(r, V, v, N, g)
  <1> USE DEF Recurrence, Solves
  <1>1. DEFINE Upto(k, r) == r \in [0..k -> V] /\ r[0] = v /\ \A n \in 1..k : r[n] = g[n][r[n - 1]]
               S == {k \in Nat : k <= N => \E r : Upto(k, r)}
  <1>2. 0 \in S
    <2>1. Upto(0, [n \in 0..0 |-> v])
      OBVIOUS
    <2>2. \E r : Upto(0, r)
      BY <2>1
    <2>3. QED
      BY <2>2
  <1>3. ASSUME NEW k \in Nat, k \in S PROVE k + 1 \in S
    <2>1. SUFFICES ASSUME k + 1 <= N PROVE \E r : Upto(k + 1, r)
      OBVIOUS
    <2>2. PICK r : Upto(k, r)
      BY <1>3, <2>1
    <2>3. DEFINE q == [n \in 0..(k + 1) |-> IF n = k + 1 THEN g[k + 1][r[k]] ELSE r[n]]
    <2>4. g[k + 1][r[k]] \in V
      <3>1. r[k] \in V /\ k + 1 \in 1..N
        BY <2>1, <2>2
      <3>2. QED
        BY <3>1
    <2>5. q \in [0..(k + 1) -> V] /\ q[0] = v
      BY <2>2, <2>4
    <2>6. ASSUME NEW n \in 1..(k + 1) PROVE q[n] = g[n][q[n - 1]]
      <3>1. CASE n = k + 1
        BY <3>1
      <3>2. CASE n # k + 1
        <4>1. n \in 1..k /\ n - 1 \in 0..k
          BY <3>2
        <4>2. q[n] = r[n] /\ q[n - 1] = r[n - 1]
          BY <4>1
        <4>3. QED
          BY <4>1, <4>2, <2>2
      <3>3. QED
        BY <3>1, <3>2
    <2>7. Upto(k + 1, q)
      BY <2>5, <2>6
    <2>8. QED
      BY <2>7
  <1>4. \A n \in Nat : n \in S
    <2>1. HIDE DEF S
    <2>2. QED
      BY <1>2, <1>3, FromZero
  <1>5. QED
    BY <1>4

\* Sums of prefixes.
LEMMA TotalsDef ==
  ASSUME NEW f \in Seq(Nat)
  PROVE  /\ Totals(f) \in [0..Len(f) -> Nat]
         /\ Totals(f)[0] = 0
         /\ \A n \in 1..Len(f) : Totals(f)[n] = Totals(f)[n - 1] + f[n]
  <1>1. PICK N \in Nat : N = Len(f)
    OBVIOUS
  <1>2. DEFINE g == [n \in 1..N |-> [x \in Nat |-> x + f[n]]]
               Eq(t) == t = [n \in 0..N |-> IF n = 0 THEN 0 ELSE t[n - 1] + f[n]]
  <1>3. \A n \in 1..N : f[n] \in Nat
    BY <1>1
  <1>4. g \in [1..N -> [Nat -> Nat]]
    BY <1>3
  <1>5. PICK r \in [0..N -> Nat] : r[0] = 0 /\ \A n \in 1..N : r[n] = g[n][r[n - 1]]
    <2>1. PICK V : V = Nat
      OBVIOUS
    <2>2. PICK h \in [1..N -> [V -> V]] : h = g
      BY <1>4, <2>1
    <2>3. PICK z \in V : z = 0
      BY <2>1
    <2>4. Recurrence(V, z, N, h)
      BY DEF Recurrence
    <2>5. PICK r : Solves(r, V, z, N, h)
      BY <2>4, Recursion
    <2>6. HIDE DEF g
    <2>7. QED
      BY <2>1, <2>2, <2>3, <2>5 DEF Solves
  <1>6. ASSUME NEW n \in 1..N PROVE r[n] = r[n - 1] + f[n]
    <2>1. n - 1 \in 0..N
      OBVIOUS
    <2>2. r[n - 1] \in Nat
      BY <2>1
    <2>3. g[n][r[n - 1]] = r[n - 1] + f[n]
      BY <2>2
    <2>4. QED
      BY <1>5, <2>3
  <1>7. Eq(r)
    BY <1>5, <1>6
  <1>8. DEFINE t == Totals(f)
  <1>9. t = CHOOSE s : Eq(s)
    BY <1>1 DEF Totals
  <1>10. HIDE DEF t
  <1>11. Eq(t)
    BY <1>7, <1>9
  <1>12. DEFINE u == [n \in 0..N |-> IF n = 0 THEN 0 ELSE t[n - 1] + f[n]]
  <1>13. u[0] = 0 /\ DOMAIN u = 0..N /\ u = [n \in 0..N |-> u[n]]
    OBVIOUS
  <1>14. ASSUME NEW n \in 1..N PROVE u[n] = t[n - 1] + f[n]
    OBVIOUS
  <1>15. t = u
    BY <1>11
  <1>16. HIDE DEF u
  <1>17. /\ t[0] = 0
         /\ \A n \in 1..N : t[n] = t[n - 1] + f[n]
         /\ t = [n \in 0..N |-> t[n]]
    BY <1>13, <1>14, <1>15
  <1>18. \A n \in 0..N : t[n] \in Nat
    <2>1. DEFINE S == {k \in Nat : k <= N => t[k] \in Nat}
    <2>2. 0 \in S
      BY <1>17
    <2>3. ASSUME NEW k \in Nat, k \in S PROVE k + 1 \in S
      <3>1. SUFFICES ASSUME k + 1 <= N PROVE t[k + 1] \in Nat
        OBVIOUS
      <3>2. k + 1 \in 1..N /\ k + 1 - 1 = k /\ t[k] \in Nat
        BY <2>3, <3>1
      <3>3. f[k + 1] \in Nat /\ t[k + 1] = t[k + 1 - 1] + f[k + 1]
        <4>1. f[k + 1] \in Nat
          BY <3>2, <1>3
        <4>2. t[k + 1] = t[k + 1 - 1] + f[k + 1]
          <5>1. \A n \in 1..N : t[n] = t[n - 1] + f[n]
            BY <1>17
          <5>2. QED
            BY <5>1, <3>2
        <4>3. QED
          BY <4>1, <4>2
      <3>4. QED
        BY <3>2, <3>3
    <2>4. HIDE DEF S
    <2>5. \A n \in Nat : n \in S
      BY <2>2, <2>3, FromZero
    <2>6. USE DEF S
    <2>7. QED
      BY <2>5
  <1>19. t \in [0..N -> Nat]
    BY <1>17, <1>18
  <1>20. USE DEF t
  <1>21. QED
    BY <1>1, <1>17, <1>19

LEMMA TotalType ==
  ASSUME NEW f \in Seq(Nat)
  PROVE  Total(f) \in Nat /\ Totals(f)[Len(f)] = Total(f)
  <1>1. Len(f) \in Nat /\ Len(f) \in 0..Len(f)
    OBVIOUS
  <1>2. QED
    BY <1>1, TotalsDef DEF Total

\* Prefixes with the same numbers have the same sums.
LEMMA TotalsAgree ==
  ASSUME NEW f \in Seq(Nat), NEW g \in Seq(Nat), NEW N \in Nat, N <= Len(f), N <= Len(g),
         \A n \in 1..N : f[n] = g[n]
  PROVE  Totals(f)[N] = Totals(g)[N]
  <1>1. DEFINE S == {k \in Nat : k <= N => Totals(f)[k] = Totals(g)[k]}
  <1>2. 0 \in S
    BY TotalsDef
  <1>3. ASSUME NEW k \in Nat, k \in S PROVE k + 1 \in S
    <2>1. SUFFICES ASSUME k + 1 <= N PROVE Totals(f)[k + 1] = Totals(g)[k + 1]
      OBVIOUS
    <2>2. k + 1 \in 1..N /\ k + 1 \in 1..Len(f) /\ k + 1 \in 1..Len(g) /\ k + 1 - 1 = k
      BY <2>1
    <2>3. Totals(f)[k + 1] = Totals(f)[k + 1 - 1] + f[k + 1]
      BY <2>2, TotalsDef
    <2>4. Totals(g)[k + 1] = Totals(g)[k + 1 - 1] + g[k + 1]
      BY <2>2, TotalsDef
    <2>5. Totals(f)[k] = Totals(g)[k] /\ f[k + 1] = g[k + 1]
      BY <1>3, <2>1, <2>2
    <2>6. QED
      BY <2>2, <2>3, <2>4, <2>5
  <1>4. HIDE DEF S
  <1>5. N \in S
    BY <1>2, <1>3, FromZero
  <1>6. USE DEF S
  <1>7. QED
    BY <1>5

LEMMA TotalOfEmpty == Total(<<>>) = 0
  <1>1. <<>> \in Seq(Nat) /\ Len(<<>>) = 0
    OBVIOUS
  <1>2. QED
    BY <1>1, TotalsDef DEF Total

LEMMA TotalOfAppend ==
  ASSUME NEW f \in Seq(Nat), NEW x \in Nat
  PROVE  Total(Append(f, x)) = Total(f) + x
  <1>1. PICK g \in Seq(Nat) : g = Append(f, x)
    BY AppendProperties
  <1>2. PICK N \in Nat : N = Len(f)
    OBVIOUS
  <1>3. /\ Len(g) = N + 1 /\ g[N + 1] = x /\ \A n \in 1..N : f[n] = g[n]
        /\ N + 1 \in 1..Len(g) /\ N + 1 - 1 = N /\ N <= Len(f) /\ N <= Len(g)
    BY <1>1, <1>2
  <1>4. Totals(g)[N + 1] = Totals(g)[N + 1 - 1] + g[N + 1]
    <2>1. \A n \in 1..Len(g) : Totals(g)[n] = Totals(g)[n - 1] + g[n]
      BY TotalsDef
    <2>2. QED
      BY <1>3, <2>1
  <1>5. Totals(f)[N] = Totals(g)[N]
    BY <1>3, TotalsAgree
  <1>6. QED
    BY <1>1, <1>2, <1>3, <1>4, <1>5 DEF Total

\* More to add up makes no smaller sum.
LEMMA TotalIsMonotone ==
  ASSUME NEW f \in Seq(Nat), NEW g \in Seq(Nat), Len(f) = Len(g),
         \A n \in 1..Len(f) : f[n] <= g[n]
  PROVE  Total(f) <= Total(g)
  <1>1. PICK N \in Nat : N = Len(f) /\ N = Len(g)
    OBVIOUS
  <1>2. DEFINE S == {k \in Nat : k <= N => Totals(f)[k] <= Totals(g)[k]}
  <1>3. 0 \in S
    BY TotalsDef
  <1>4. ASSUME NEW k \in Nat, k \in S PROVE k + 1 \in S
    <2>1. SUFFICES ASSUME k + 1 <= N PROVE Totals(f)[k + 1] <= Totals(g)[k + 1]
      OBVIOUS
    <2>2. k + 1 \in 1..N /\ k + 1 - 1 = k /\ k \in 0..N
      BY <2>1
    <2>3. Totals(f)[k + 1] = Totals(f)[k + 1 - 1] + f[k + 1]
      BY <1>1, <2>2, TotalsDef
    <2>4. Totals(g)[k + 1] = Totals(g)[k + 1 - 1] + g[k + 1]
      BY <1>1, <2>2, TotalsDef, SMTT(30)
    <2>5. Totals(f)[k] <= Totals(g)[k] /\ f[k + 1] <= g[k + 1]
      BY <1>1, <1>4, <2>1, <2>2
    <2>6. Totals(f) \in [0..N -> Nat] /\ Totals(g) \in [0..N -> Nat]
      BY <1>1, TotalsDef
    <2>7. \A n \in 1..N : f[n] \in Nat /\ g[n] \in Nat
      BY <1>1
    <2>8. Totals(f)[k] \in Nat /\ Totals(g)[k] \in Nat /\ f[k + 1] \in Nat /\ g[k + 1] \in Nat
      BY <2>2, <2>6, <2>7
    <2>9. QED
      BY <2>2, <2>3, <2>4, <2>5, <2>8
  <1>5. HIDE DEF S
  <1>6. N \in S
    BY <1>3, <1>4, FromZero
  <1>7. USE DEF S
  <1>8. QED
    BY <1>1, <1>6 DEF Total

LEMMA GreatestNumber ==
  ASSUME NEW T \in SUBSET Nat, T # {}, NEW b \in Nat, \A x \in T : x <= b
  PROVE  \E x \in T : \A y \in T : y <= x
  <1>1. DEFINE R == {k \in Nat : b - k \in T}
  <1>2. R \in SUBSET Nat
    OBVIOUS
  <1>3. \A y \in T : b - y \in R
    <2>1. \A y \in T : b - y \in Nat /\ b - (b - y) = y
      OBVIOUS
    <2>2. QED
      BY <2>1
  <1>4. R # {}
    BY <1>3
  <1>5. PICK k \in R : \A j \in R : k <= j
    BY <1>2, <1>4, LeastNatural
  <1>6. \A y \in T : k <= b - y
    BY <1>3, <1>5
  <1>7. b - k \in T /\ \A y \in T : y <= b - k
    BY <1>5, <1>6
  <1>8. QED
    BY <1>7

-------------------------------------------------------------------------------
(***************************************************************************)
(* LoadShift: x1 is hour, x2 step, x3 candidates, x4 budget and x5 chosen. *)
(***************************************************************************)

LEMMA ShiftTotal == \A f : Shift!Total(f) = Total(f)
  BY DEF Shift!Total, Shift!Totals, Total, Totals

LEMMA ShiftCardinality == \A S : Shift!Cardinality(S) = Cardinality(S)
  BY DEF Shift!Cardinality, Cardinality

LEMMA ShiftNumbers ==
  /\ Hours \in Nat \ {0} /\ Duration \in Nat \ {0} /\ MinimumOff \in Nat
  /\ DeclaredDuration \in Nat \ {0} /\ DeclaredEnergy \in Nat /\ MaxSelections \in Nat
  /\ DOMAIN Energy \subseteq Shift!Interval /\ Energy \in [DOMAIN Energy -> Nat]
  /\ DOMAIN Export \subseteq Shift!Interval /\ Export \in [DOMAIN Export -> Nat]
  /\ \A h \in Shift!Interval : h \in Nat /\ h < Hours
  BY ShiftParameters DEF Shift!Parameters, Shift!Interval

LEMMA CutsAreFinite ==
  ASSUME NEW h \in Nat
  PROVE  /\ IsFiniteSet({i \in 1..(h + 1) : x1[i].cut})
         /\ Shift!Phase(h) \in Nat
  <1>1. IsFiniteSet(1..(h + 1))
    BY FS_Interval
  <1>2. {i \in 1..(h + 1) : x1[i].cut} \in SUBSET (1..(h + 1))
    OBVIOUS
  <1>3. IsFiniteSet({i \in 1..(h + 1) : x1[i].cut})
    BY <1>1, <1>2, FS_Subset
  <1>4. QED
    BY <1>3, FS_CardinalityType, ShiftCardinality DEF Shift!Phase

\* Hours of one phase: no capture begins with the later one.
LEMMA PhaseOfNext ==
  ASSUME NEW h \in Nat \ {0}, Shift!Phase(h) = Shift!Phase(h - 1)
  PROVE  ~ x1[h + 1].cut
  <1>1. SUFFICES ASSUME x1[h + 1].cut PROVE FALSE
    OBVIOUS
  <1>2. DEFINE A == {i \in 1..h : x1[i].cut}
               B == {i \in 1..(h + 1) : x1[i].cut}
  <1>3. h - 1 \in Nat /\ h - 1 + 1 = h
    OBVIOUS
  <1>4. IsFiniteSet(A) /\ Shift!Phase(h - 1) = Cardinality(A) /\ Cardinality(A) \in Nat
    BY <1>3, CutsAreFinite, FS_CardinalityType, ShiftCardinality DEF Shift!Phase
  <1>5. B = A \cup {h + 1} /\ h + 1 \notin A
    BY <1>1
  <1>6. Cardinality(A \cup {h + 1}) = Cardinality(A) + 1
    BY <1>4, <1>5, FS_AddElement
  <1>7. Shift!Phase(h) = Cardinality(B)
    BY ShiftCardinality DEF Shift!Phase
  <1>8. HIDE DEF A, B
  <1>9. QED
    BY <1>4, <1>5, <1>6, <1>7

\* A sequence of segments grows by a segment of its own, or its last one gets longer.
LEMMA ExtendedIs ==
  ASSUME NEW m \in Seq(Shift!Segments), NEW s \in Shift!Segments
  PROVE  /\ Shift!Extended(m, s) \in Seq(Shift!Segments)
         /\ \/ Shift!Extended(m, s) = Append(m, s)
            \/ /\ Len(m) \in 1..Len(m) /\ Len(Shift!Extended(m, s)) = Len(m)
               /\ Shift!Continues(m[Len(m)], s)
               /\ \A i \in 1..Len(m) :
                    Shift!Extended(m, s)[i] = IF i = Len(m) THEN [m[i] EXCEPT !.end = s.end]
                                              ELSE m[i]
  <1>1. CASE ~(m # <<>> /\ Shift!Continues(Shift!Last(m), s))
    <2>1. Shift!Extended(m, s) = Append(m, s)
      BY <1>1 DEF Shift!Extended
    <2>2. QED
      BY <2>1, AppendProperties
  <1>2. CASE m # <<>> /\ Shift!Continues(Shift!Last(m), s)
    <2>1. Len(m) \in Nat \ {0}
      BY <1>2, EmptySeq
    <2>2. Len(m) \in 1..Len(m)
      BY <2>1
    <2>3. m[Len(m)] \in Shift!Segments
      BY <2>2, ElementOfSeq
    <2>4. PICK e : e = [m[Len(m)] EXCEPT !.end = s.end]
      OBVIOUS
    <2>5. e \in Shift!Segments
      BY <2>3, <2>4 DEF Shift!Segments
    <2>6. Shift!Extended(m, s) = [m EXCEPT ![Len(m)] = e]
      BY <1>2, <2>4 DEF Shift!Extended
    <2>7. /\ [m EXCEPT ![Len(m)] = e] \in Seq(Shift!Segments)
          /\ Len([m EXCEPT ![Len(m)] = e]) = Len(m)
          /\ \A j \in 1..Len(m) : [m EXCEPT ![Len(m)] = e][j] = IF j = Len(m) THEN e ELSE m[j]
      BY <2>2, <2>5, ExceptSeq
    <2>8. Shift!Continues(m[Len(m)], s)
      BY <1>2 DEF Shift!Last
    <2>9. QED
      BY <2>2, <2>4, <2>6, <2>7, <2>8
  <1>3. QED
    BY <1>1, <1>2

LEMMA SegmentIs ==
  ASSUME NEW h \in Nat
  PROVE  Shift!Segment(h) \in Shift!Segments
  <1>1. PICK a \in BOOLEAN : a = (x1[h + 1].is = "on")
    OBVIOUS
  <1>2. Shift!Segment(h) = [start |-> h, end |-> h + 1, active |-> a, phase |-> Shift!Phase(h)]
    BY <1>1 DEF Shift!Segment
  <1>3. Shift!Phase(h) \in Nat
    BY CutsAreFinite
  <1>4. QED
    BY <1>2, <1>3 DEF Shift!Segments

LEMMA MergedToDef ==
  /\ Shift!MergedTo[0] = <<>>
  /\ \A n \in 0..Hours : Shift!MergedTo[n] \in Seq(Shift!Segments)
  /\ \A n \in 1..Hours :
       Shift!MergedTo[n] = IF x1[n].is = "unknown" THEN Shift!MergedTo[n - 1]
                           ELSE Shift!Extended(Shift!MergedTo[n - 1], Shift!Segment(n - 1))
  <1>1. PICK N \in Nat : N = Hours
    BY ShiftNumbers
  <1>2. PICK V : V = Seq(Shift!Segments)
    OBVIOUS
  <1>3. PICK v \in V : v = <<>>
    BY <1>2, EmptySeq
  <1>4. DEFINE After(n, m) == IF x1[n].is = "unknown" THEN m
                              ELSE Shift!Extended(m, Shift!Segment(n - 1))
               Eq(t) == t = [n \in 0..N |-> IF n = 0 THEN <<>>
                                            ELSE IF x1[n].is = "unknown" THEN t[n - 1]
                                            ELSE Shift!Extended(t[n - 1], Shift!Segment(n - 1))]
  <1>5. ASSUME NEW n \in 1..N, NEW m \in V PROVE After(n, m) \in V
    <2>1. n - 1 \in Nat
      OBVIOUS
    <2>2. QED
      BY <1>2, <2>1, ExtendedIs, SegmentIs
  <1>6. HIDE DEF After
  <1>7. PICK g : g = [n \in 1..N |-> [m \in V |-> After(n, m)]]
    OBVIOUS
  <1>8. Recurrence(V, v, N, g)
    BY <1>5, <1>7 DEF Recurrence
  <1>9. PICK r : Solves(r, V, v, N, g)
    BY <1>8, Recursion
  <1>10. /\ r \in [0..N -> V] /\ r[0] = <<>>
         /\ \A n \in 1..N : r[n] = After(n, r[n - 1])
    <2>1. r \in [0..N -> V] /\ r[0] = v /\ \A n \in 1..N : r[n] = g[n][r[n - 1]]
      BY <1>9 DEF Solves
    <2>2. ASSUME NEW n \in 1..N PROVE g[n][r[n - 1]] = After(n, r[n - 1])
      <3>1. n - 1 \in 0..N
        OBVIOUS
      <3>2. r[n - 1] \in V
        BY <2>1, <3>1
      <3>3. QED
        BY <1>7, <3>2
    <2>3. QED
      BY <1>3, <2>1, <2>2
  <1>11. USE DEF After
  <1>12. Eq(r)
    BY <1>10
  <1>13. DEFINE t == Shift!MergedTo
  <1>14. t = CHOOSE s : Eq(s)
    BY <1>1 DEF Shift!MergedTo
  <1>15. HIDE DEF t
  <1>16. Eq(t)
    BY <1>12, <1>14
  <1>17. DEFINE u == [n \in 0..N |-> IF n = 0 THEN <<>> ELSE After(n, t[n - 1])]
  <1>18. t = u
    BY <1>16
  <1>19. u[0] = <<>> /\ \A n \in 1..N : u[n] = After(n, t[n - 1])
    <2>1. HIDE DEF After
    <2>2. QED
      OBVIOUS
  <1>20. HIDE DEF u, After
  <1>21. t[0] = <<>> /\ \A n \in 1..N : t[n] = After(n, t[n - 1])
    BY <1>18, <1>19
  <1>22. \A n \in 0..N : t[n] \in V
    <2>1. DEFINE S == {k \in Nat : k <= N => t[k] \in V}
    <2>2. 0 \in S
      BY <1>3, <1>21
    <2>3. ASSUME NEW k \in Nat, k \in S PROVE k + 1 \in S
      <3>1. SUFFICES ASSUME k + 1 <= N PROVE t[k + 1] \in V
        OBVIOUS
      <3>2. k + 1 \in 1..N /\ k + 1 - 1 = k /\ t[k] \in V
        BY <2>3, <3>1
      <3>3. t[k + 1] = After(k + 1, t[k + 1 - 1])
        BY <1>21, <3>2
      <3>4. QED
        BY <1>5, <3>2, <3>3
    <2>4. HIDE DEF S
    <2>5. \A n \in Nat : n \in S
      BY <2>2, <2>3, FromZero
    <2>6. USE DEF S
    <2>7. QED
      BY <2>5
  <1>23. USE DEF t, After
  <1>24. QED
    BY <1>1, <1>2, <1>21, <1>22

\* A segment tells what was observed, in hours up to n.
Observes(r, n) ==
  /\ r \in Shift!Segments
  /\ r.start < r.end /\ r.end <= n
  /\ \A h \in r.start .. (r.end - 1) :
       /\ x1[h + 1].is = IF r.active THEN "on" ELSE "off"
       /\ Shift!Phase(h) = r.phase

LEMMA SegmentObserves ==
  ASSUME x1 \in Seq(Shift!Observations), NEW n \in Nat, n \in 1..Len(x1), x1[n].is # "unknown"
  PROVE  Observes(Shift!Segment(n - 1), n)
  <1>1. n - 1 \in Nat /\ n - 1 + 1 = n
    OBVIOUS
  <1>2. Shift!Segment(n - 1) \in Shift!Segments
    BY <1>1, SegmentIs
  <1>3. x1[n] \in Shift!Observations
    BY ElementOfSeq
  <1>4. x1[n].is \in {"on", "off"}
    BY <1>3 DEF Shift!Observations
  <1>5. PICK r : r = Shift!Segment(n - 1)
    OBVIOUS
  <1>6. /\ r.start = n - 1 /\ r.end = n - 1 + 1 /\ r.phase = Shift!Phase(n - 1)
        /\ r.active = (x1[n - 1 + 1].is = "on")
    BY <1>5 DEF Shift!Segment
  <1>7. r.active <=> x1[n].is = "on"
    BY <1>1, <1>6
  <1>8. x1[n].is = IF r.active THEN "on" ELSE "off"
    BY <1>4, <1>7
  <1>9. ASSUME NEW h \in r.start .. (r.end - 1)
        PROVE  h = n - 1
    BY <1>1, <1>6
  <1>10. QED
    BY <1>1, <1>2, <1>5, <1>6, <1>8, <1>9 DEF Observes

LEMMA ObservesMore ==
  ASSUME NEW n \in Nat, NEW r, Observes(r, n)
  PROVE  Observes(r, n + 1)
  BY DEF Observes, Shift!Segments

LEMMA ContinuedObserves ==
  ASSUME NEW n \in Nat, NEW r, NEW s, Observes(r, n), Observes(s, n + 1), Shift!Continues(r, s)
  PROVE  Observes([r EXCEPT !.end = s.end], n + 1)
  <1>1. /\ r \in Shift!Segments /\ s \in Shift!Segments
        /\ r.start < r.end /\ r.end <= n /\ s.start < s.end /\ s.end <= n + 1
    BY DEF Observes
  <1>2. r.end = s.start /\ r.active = s.active /\ r.phase = s.phase
    BY DEF Shift!Continues
  <1>3. PICK e : e = [r EXCEPT !.end = s.end]
    OBVIOUS
  <1>4. /\ e \in Shift!Segments /\ e.start = r.start /\ e.end = s.end
        /\ e.active = r.active /\ e.phase = r.phase
    BY <1>1, <1>3 DEF Shift!Segments
  <1>5. /\ r.start \in Nat /\ r.end \in Nat /\ s.start \in Nat /\ s.end \in Nat
    BY <1>1 DEF Shift!Segments
  <1>6. ASSUME NEW h \in e.start .. (e.end - 1)
        PROVE  /\ x1[h + 1].is = IF e.active THEN "on" ELSE "off"
               /\ Shift!Phase(h) = e.phase
    <2>1. h \in r.start .. (r.end - 1) \/ h \in s.start .. (s.end - 1)
      BY <1>2, <1>4, <1>5
    <2>2. CASE h \in r.start .. (r.end - 1)
      BY <1>4, <2>2 DEF Observes
    <2>3. CASE h \in s.start .. (s.end - 1)
      BY <1>2, <1>4, <2>3 DEF Observes
    <2>4. QED
      BY <2>1, <2>2, <2>3
  <1>7. QED
    BY <1>1, <1>2, <1>3, <1>4, <1>5, <1>6 DEF Observes

LEMMA MergedObserves ==
  ASSUME x1 \in Seq(Shift!Observations), Len(x1) = Hours
  PROVE  /\ Shift!Merged \in Seq(Shift!Segments)
         /\ \A i \in DOMAIN Shift!Merged : Observes(Shift!Merged[i], Hours)
  <1>1. PICK t : t = Shift!MergedTo
    OBVIOUS
  <1>2. DEFINE True(n) == \A i \in 1..Len(t[n]) : Observes(t[n][i], n)
               S == {n \in Nat : n <= Hours => True(n)}
  <1>3. Hours \in Nat
    BY ShiftNumbers
  <1>4. 0 \in S
    <2>1. t[0] = <<>>
      BY <1>1, MergedToDef
    <2>2. QED
      BY <2>1
  <1>5. ASSUME NEW n \in Nat, n \in S PROVE n + 1 \in S
    <2>1. SUFFICES ASSUME n + 1 <= Hours PROVE True(n + 1)
      OBVIOUS
    <2>2. /\ n + 1 \in 1..Hours /\ n + 1 - 1 = n /\ n \in 0..Hours /\ n + 1 \in 0..Hours
          /\ n + 1 \in 1..Len(x1) /\ n + 1 \in Nat
      BY <1>3, <2>1
    <2>3. True(n)
      BY <1>3, <1>5, <2>1
    <2>4. t[n] \in Seq(Shift!Segments) /\ t[n + 1] \in Seq(Shift!Segments)
      BY <1>1, <2>2, MergedToDef
    <2>5. t[n + 1] = IF x1[n + 1].is = "unknown" THEN t[n]
                     ELSE Shift!Extended(t[n], Shift!Segment(n))
      <3>1. \A k \in 1..Hours : t[k] = IF x1[k].is = "unknown" THEN t[k - 1]
                                       ELSE Shift!Extended(t[k - 1], Shift!Segment(k - 1))
        BY <1>1, MergedToDef
      <3>2. QED
        BY <2>2, <3>1
    <2>6. CASE x1[n + 1].is = "unknown"
      <3>1. t[n + 1] = t[n]
        BY <2>5, <2>6
      <3>2. QED
        BY <2>3, <3>1, ObservesMore
    <2>7. CASE x1[n + 1].is # "unknown"
      <3>1. PICK s : s = Shift!Segment(n)
        OBVIOUS
      <3>2. s \in Shift!Segments /\ Observes(s, n + 1)
        BY <2>2, <2>7, <3>1, SegmentIs, SegmentObserves
      <3>3. t[n + 1] = Shift!Extended(t[n], s)
        BY <2>5, <2>7, <3>1
      <3>4. CASE t[n + 1] = Append(t[n], s)
        <4>1. /\ Len(t[n + 1]) = Len(t[n]) + 1 /\ Len(t[n]) \in Nat
              /\ t[n + 1][Len(t[n]) + 1] = s
              /\ \A i \in 1..Len(t[n]) : t[n + 1][i] = t[n][i]
          BY <2>4, <3>2, <3>4
        <4>2. ASSUME NEW i \in 1..Len(t[n + 1]) PROVE Observes(t[n + 1][i], n + 1)
          <5>1. CASE i = Len(t[n]) + 1
            BY <3>2, <4>1, <5>1
          <5>2. CASE i \in 1..Len(t[n])
            <6>1. Observes(t[n][i], n) /\ t[n + 1][i] = t[n][i]
              BY <2>3, <4>1, <5>2
            <6>2. QED
              BY <6>1, ObservesMore
          <5>3. QED
            BY <4>1, <5>1, <5>2
        <4>3. QED
          BY <4>2
      <3>5. CASE t[n + 1] # Append(t[n], s)
        <4>1. /\ Len(t[n]) \in 1..Len(t[n]) /\ Len(t[n + 1]) = Len(t[n])
              /\ Shift!Continues(t[n][Len(t[n])], s)
              /\ \A i \in 1..Len(t[n]) :
                   t[n + 1][i] = IF i = Len(t[n]) THEN [t[n][i] EXCEPT !.end = s.end] ELSE t[n][i]
          <5>1. PICK m \in Seq(Shift!Segments) : m = t[n]
            BY <2>4
          <5>2. PICK e : e = Shift!Extended(m, s)
            OBVIOUS
          <5>3. \/ e = Append(m, s)
                \/ /\ Len(m) \in 1..Len(m) /\ Len(e) = Len(m)
                   /\ Shift!Continues(m[Len(m)], s)
                   /\ \A i \in 1..Len(m) :
                        e[i] = IF i = Len(m) THEN [m[i] EXCEPT !.end = s.end] ELSE m[i]
            BY <3>2, <5>2, ExtendedIs
          <5>4. t[n + 1] = e
            BY <3>3, <5>1, <5>2
          <5>5. QED
            BY <3>5, <5>1, <5>3, <5>4
        <4>2. ASSUME NEW i \in 1..Len(t[n + 1]) PROVE Observes(t[n + 1][i], n + 1)
          <5>1. Observes(t[n][i], n)
            BY <2>3, <4>1
          <5>2. CASE i = Len(t[n])
            <6>1. t[n + 1][i] = [t[n][i] EXCEPT !.end = s.end]
              BY <4>1, <5>2
            <6>2. Shift!Continues(t[n][i], s)
              BY <4>1, <5>2
            <6>3. QED
              BY <3>2, <5>1, <6>1, <6>2, ContinuedObserves
          <5>3. CASE i # Len(t[n])
            <6>1. t[n + 1][i] = t[n][i]
              BY <4>1, <5>3
            <6>2. QED
              BY <5>1, <6>1, ObservesMore
          <5>4. QED
            BY <5>2, <5>3
        <4>3. QED
          BY <4>2
      <3>6. QED
        BY <3>4, <3>5
    <2>8. QED
      BY <2>6, <2>7
  <1>6. HIDE DEF S, True
  <1>7. Hours \in S
    BY <1>3, <1>4, <1>5, FromZero
  <1>8. True(Hours)
    BY <1>3, <1>7 DEF S
  <1>9. t[Hours] = Shift!Merged
    BY <1>1 DEF Shift!Merged
  <1>10. Shift!Merged \in Seq(Shift!Segments)
    BY <1>3, MergedToDef DEF Shift!Merged
  <1>11. QED
    BY <1>8, <1>9, <1>10 DEF True

\* The cycle that began at o was seen as a whole.
WasRun(o) ==
  /\ o \in Nat
  /\ ((o - MinimumOff) .. (o + Duration)) \cup {o - 1} \subseteq Shift!Interval
  /\ \A h \in ((o - MinimumOff) .. (o + Duration)) \cup {o - 1} :
       x1[h + 1].is = IF h \in Shift!RunOf(o) THEN "on" ELSE "off"
  /\ \A h \in o .. (o + Duration) : ~ x1[h + 1].cut
  /\ Shift!RunOf(o) \subseteq DOMAIN Energy

LEMMA EligibleWasRun ==
  ASSUME x1 \in Seq(Shift!Observations), Len(x1) = Hours,
         NEW o \in Shift!Eligible(Shift!Merged)
  PROVE  WasRun(o)
  <1>1. PICK m : m = Shift!Merged
    OBVIOUS
  <1>2. /\ m \in Seq(Shift!Segments) /\ \A i \in DOMAIN m : Observes(m[i], Hours)
    BY <1>1, MergedObserves
  <1>3. PICK j \in Shift!WithEnergy(m) :
          /\ m[j].end - m[j].start = Duration
          /\ m[j - 1].end - m[j - 1].start >= MinimumOff
          /\ o = m[j].start
    BY <1>1 DEF Shift!Eligible
  <1>4. /\ j \in DOMAIN m /\ m[j].active /\ Shift!Complete(m, j)
        /\ m[j].start .. (m[j].end - 1) \subseteq DOMAIN Energy
    BY DEF Shift!WithEnergy, Shift!Active
  <1>5. PICK a, b, c : a = m[j - 1] /\ b = m[j] /\ c = m[j + 1]
    OBVIOUS
  <1>6. /\ j - 1 \in DOMAIN m /\ j + 1 \in DOMAIN m /\ ~ a.active /\ ~ c.active
        /\ a.phase = b.phase /\ c.phase = b.phase /\ a.end = b.start /\ b.end = c.start
        /\ 0 < b.start /\ b.end < Hours
    BY <1>4, <1>5 DEF Shift!Complete
  <1>7. Observes(a, Hours) /\ Observes(b, Hours) /\ Observes(c, Hours)
    BY <1>2, <1>4, <1>5, <1>6
  <1>8. /\ a \in Shift!Segments /\ b \in Shift!Segments /\ c \in Shift!Segments
        /\ a.start < a.end /\ b.start < b.end /\ c.start < c.end /\ c.end <= Hours
    BY <1>7 DEF Observes
  <1>9. /\ a.start \in Nat /\ a.end \in Nat /\ b.start \in Nat /\ b.end \in Nat
        /\ c.start \in Nat /\ c.end \in Nat
    BY <1>8 DEF Shift!Segments
  <1>10. Duration \in Nat \ {0} /\ MinimumOff \in Nat /\ Hours \in Nat
    BY ShiftNumbers
  <1>11. b.end - b.start = Duration /\ a.end - a.start >= MinimumOff /\ o = b.start
    BY <1>3, <1>5
  <1>12. /\ o = b.start /\ b.end = o + Duration /\ a.start <= o - MinimumOff /\ a.end = o
         /\ a.start <= o - 1 /\ c.start = o + Duration /\ o + Duration < Hours /\ 0 < o
         /\ o \in Nat /\ o + Duration <= c.end - 1
    BY <1>11, <1>10, <1>6, <1>8, <1>9, SMTT(30)
  <1>13. \A h \in a.start .. (a.end - 1) : x1[h + 1].is = "off" /\ Shift!Phase(h) = b.phase
    BY <1>6, <1>7 DEF Observes
  <1>14. \A h \in b.start .. (b.end - 1) : x1[h + 1].is = "on" /\ Shift!Phase(h) = b.phase
    BY <1>4, <1>5, <1>7 DEF Observes
  <1>15. \A h \in c.start .. (c.end - 1) : x1[h + 1].is = "off" /\ Shift!Phase(h) = b.phase
    BY <1>6, <1>7 DEF Observes
  <1>16. Shift!RunOf(o) = b.start .. (b.end - 1)
    BY <1>9, <1>12, <1>10 DEF Shift!RunOf
  <1>17. ASSUME NEW h \in ((o - MinimumOff) .. (o + Duration)) \cup {o - 1}
         PROVE  /\ h \in Shift!Interval
                /\ x1[h + 1].is = IF h \in Shift!RunOf(o) THEN "on" ELSE "off"
    <2>1. h \in Int /\ a.start <= h /\ h <= o + Duration
      BY <1>9, <1>12, <1>10, SMTT(30)
    <2>2. h \in Shift!Interval
      BY <1>9, <1>12, <2>1, <1>10 DEF Shift!Interval
    <2>3. CASE h < o
      <3>1. h \in a.start .. (a.end - 1) /\ h \notin b.start .. (b.end - 1)
        BY <1>9, <1>12, <2>1, <2>3
      <3>2. QED
        BY <1>13, <1>16, <2>2, <3>1
    <2>4. CASE o <= h /\ h < o + Duration
      <3>1. h \in b.start .. (b.end - 1)
        BY <1>9, <1>12, <2>1, <2>4
      <3>2. QED
        BY <1>14, <1>16, <2>2, <3>1
    <2>5. CASE h = o + Duration
      <3>1. h \in c.start .. (c.end - 1) /\ h \notin b.start .. (b.end - 1)
        BY <1>9, <1>12, <2>1, <2>5
      <3>2. QED
        BY <1>15, <1>16, <2>2, <3>1
    <2>6. QED
      BY <1>12, <2>1, <2>3, <2>4, <2>5, <1>10, SMTT(30)
  <1>18. ASSUME NEW h \in o .. (o + Duration) PROVE ~ x1[h + 1].cut
    <2>1. h \in Nat \ {0} /\ h - 1 \in Int
      BY <1>12, <1>10
    <2>2. h \in b.start .. (b.end - 1) \/ h \in c.start .. (c.end - 1)
      BY <1>9, <1>12, <1>10, SMTT(30)
    <2>3. h - 1 \in a.start .. (a.end - 1) \/ h - 1 \in b.start .. (b.end - 1)
      BY <1>9, <1>12, <1>10, SMTT(30)
    <2>4. Shift!Phase(h) = b.phase /\ Shift!Phase(h - 1) = b.phase
      BY <1>13, <1>14, <1>15, <2>2, <2>3
    <2>5. QED
      BY <2>1, <2>4, PhaseOfNext
  <1>19. Shift!RunOf(o) \subseteq DOMAIN Energy
    BY <1>4, <1>5, <1>16
  <1>20. QED
    BY <1>12, <1>17, <1>18, <1>19 DEF WasRun

\* An alternative asks for energy in hours of the interval whose export is known.
IsAlternative(c) ==
  /\ c.load \in {1, 2} /\ c.cycle \in Nat /\ c.off \in Nat
  /\ c.start \in Nat /\ c.end \in Nat /\ c.start < c.end /\ c.end <= Hours
  /\ c.demand \in [c.start .. (c.end - 1) -> Nat]
  /\ DOMAIN c.demand \subseteq DOMAIN Export
  /\ c.load = 2 => c.cycle = 0
  /\ c.load = 1 =>
       /\ c.off = MinimumOff /\ c.end = c.start + Duration
       /\ 0 <= c.start - MinimumOff /\ c.end + MinimumOff <= Hours
       /\ \A h \in (c.start - MinimumOff) .. (c.end + MinimumOff - 1) : x1[h + 1].is = "off"
       /\ WasRun(c.cycle)
       /\ \A h \in DOMAIN c.demand : c.demand[h] = Energy[c.cycle + h - c.start]

LEMMA InactiveIs ==
  ASSUME NEW s \in Int, NEW e \in Int, Shift!Inactive(s, e)
  PROVE  0 <= s /\ e <= Hours /\ \A h \in s .. (e - 1) : x1[h + 1].is = "off"
  BY DEF Shift!Inactive

LEMMA ObservedIs ==
  ASSUME x1 \in Seq(Shift!Observations), Len(x1) = Hours,
         NEW c \in Shift!Observed(Shift!Merged)
  PROVE  IsAlternative(c)
  <1>1. PICK u \in Shift!Tried(Shift!Merged) :
          /\ Shift!Inactive(u[2] - MinimumOff, u[2] + Duration + MinimumOff)
          /\ Shift!Measured(Shift!Demanded(u[1], u[2]))
          /\ c = [load |-> 1, cycle |-> u[1], start |-> u[2], end |-> u[2] + Duration,
                  off |-> MinimumOff, demand |-> Shift!Demanded(u[1], u[2])]
    BY DEF Shift!Observed
  <1>2. PICK o \in Shift!Eligible(Shift!Merged), at \in Shift!Interval :
          /\ o = u[1] /\ at = u[2] /\ Shift!Fits(at, Duration)
    BY DEF Shift!Tried
  <1>3. WasRun(o)
    BY EligibleWasRun
  <1>4. at \in Nat /\ at + Duration <= Hours /\ Duration \in Nat \ {0} /\ MinimumOff \in Nat
    BY <1>2, ShiftNumbers DEF Shift!Fits
  <1>5. PICK d : d = Shift!Demanded(o, at)
    OBVIOUS
  <1>6. d = [h \in at .. (at + Duration - 1) |-> Energy[o + h - at]]
    BY <1>5 DEF Shift!Demanded
  <1>7. \A h \in DOMAIN d : d[h] = Energy[o + h - at]
    BY <1>6
  <1>8. ASSUME NEW h \in at .. (at + Duration - 1) PROVE Energy[o + h - at] \in Nat
    <2>1. o \in Nat /\ o + h - at \in o .. (o + Duration - 1)
      BY <1>3, <1>4 DEF WasRun
    <2>2. o + h - at \in DOMAIN Energy
      BY <1>3, <2>1 DEF WasRun, Shift!RunOf
    <2>3. QED
      BY <2>2, ShiftNumbers
  <1>9. d \in [at .. (at + Duration - 1) -> Nat]
    BY <1>6, <1>8
  <1>10. DOMAIN d \subseteq DOMAIN Export
    BY <1>1, <1>2, <1>5 DEF Shift!Measured
  <1>11. /\ 0 <= at - MinimumOff /\ at + Duration + MinimumOff <= Hours
         /\ \A h \in (at - MinimumOff) .. (at + Duration + MinimumOff - 1) : x1[h + 1].is = "off"
    <2>1. Shift!Inactive(at - MinimumOff, at + Duration + MinimumOff)
      BY <1>1, <1>2
    <2>2. PICK s \in Int, e \in Int : s = at - MinimumOff /\ e = at + Duration + MinimumOff
      BY <1>4
    <2>3. Shift!Inactive(s, e)
      BY <2>1, <2>2
    <2>4. 0 <= s /\ e <= Hours /\ \A h \in s .. (e - 1) : x1[h + 1].is = "off"
      BY <2>3, InactiveIs
    <2>5. QED
      BY <1>4, <2>2, <2>4
  <1>12. /\ c.load = 1 /\ c.cycle = o /\ c.start = at /\ c.end = at + Duration
         /\ c.off = MinimumOff /\ c.demand = d
    BY <1>1, <1>2, <1>5
  <1>13. o \in Nat
    BY <1>3 DEF WasRun
  <1>14. QED
    BY <1>3, <1>4, <1>7, <1>9, <1>10, <1>11, <1>12, <1>13 DEF IsAlternative

LEMMA DeclaredIs ==
  ASSUME NEW c \in Shift!Declared
  PROVE  IsAlternative(c)
  <1>1. PICK at, d :
          /\ at \in Shift!Interval
          /\ d = [h \in at .. (at + DeclaredDuration - 1) |-> DeclaredEnergy]
          /\ Shift!Fits(at, DeclaredDuration) /\ Shift!Measured(d)
          /\ c = [load |-> 2, cycle |-> 0, start |-> at, end |-> at + DeclaredDuration,
                  off |-> 0, demand |-> d]
    BY DEF Shift!Declared
  <1>2. /\ at \in Nat /\ at + DeclaredDuration <= Hours
        /\ DeclaredDuration \in Nat \ {0} /\ DeclaredEnergy \in Nat
    BY <1>1, ShiftNumbers DEF Shift!Fits
  <1>3. d \in [at .. (at + DeclaredDuration - 1) -> Nat] /\ DOMAIN d \subseteq DOMAIN Export
    BY <1>1, <1>2 DEF Shift!Measured
  <1>4. /\ c.load = 2 /\ c.cycle = 0 /\ c.start = at /\ c.end = at + DeclaredDuration
        /\ c.off = 0 /\ c.demand = d
    BY <1>1
  <1>5. QED
    BY <1>2, <1>3, <1>4 DEF IsAlternative

LEMMA AlternativeIs ==
  ASSUME x1 \in Seq(Shift!Observations), Len(x1) = Hours, NEW c \in Shift!Alternatives
  PROVE  IsAlternative(c)
  BY ObservedIs, DeclaredIs DEF Shift!Alternatives

\* Energy by hour, in the order of the hours
LEMMA RowIs ==
  ASSUME NEW D, NEW f \in [D -> Nat]
  PROVE  /\ [h \in 1..Hours |-> IF h - 1 \in DOMAIN f THEN f[h - 1] ELSE 0] \in Seq(Nat)
         /\ Shift!SumOver(f) \in Nat
  <1>1. PICK N \in Nat : N = Hours
    BY ShiftNumbers
  <1>2. PICK r : r = [h \in 1..N |-> IF h - 1 \in DOMAIN f THEN f[h - 1] ELSE 0]
    OBVIOUS
  <1>3. r \in Seq(Nat)
    BY <1>2
  <1>4. Shift!SumOver(f) = Total(r)
    BY <1>1, <1>2, ShiftTotal DEF Shift!SumOver
  <1>5. QED
    BY <1>1, <1>2, <1>3, <1>4, TotalType

LEMMA SumIsMonotone ==
  ASSUME NEW D, NEW E, D \subseteq E, NEW f \in [D -> Nat], NEW g \in [E -> Nat],
         \A h \in D : f[h] <= g[h]
  PROVE  Shift!SumOver(f) <= Shift!SumOver(g)
  <1>1. PICK N \in Nat : N = Hours
    BY ShiftNumbers
  <1>2. PICK r, q : /\ r = [h \in 1..N |-> IF h - 1 \in DOMAIN f THEN f[h - 1] ELSE 0]
                    /\ q = [h \in 1..N |-> IF h - 1 \in DOMAIN g THEN g[h - 1] ELSE 0]
    OBVIOUS
  <1>3. r \in Seq(Nat) /\ q \in Seq(Nat) /\ Len(r) = N /\ Len(q) = N
    BY <1>2
  <1>4. \A n \in 1..N : r[n] <= q[n]
    BY <1>2
  <1>5. Total(r) <= Total(q)
    BY <1>3, <1>4, TotalIsMonotone
  <1>6. Shift!SumOver(f) = Total(r) /\ Shift!SumOver(g) = Total(q)
    BY <1>1, <1>2, ShiftTotal DEF Shift!SumOver
  <1>7. QED
    BY <1>5, <1>6

LEMMA ShareIs ==
  ASSUME NEW c, IsAlternative(c), x4 \in [DOMAIN Export -> Nat]
  PROVE  /\ Shift!Share(c) \in [DOMAIN c.demand -> Nat]
         /\ \A h \in DOMAIN c.demand :
              /\ Shift!Share(c)[h] <= c.demand[h] /\ Shift!Share(c)[h] <= x4[h]
              /\ Shift!Share(c)[h] \in Nat /\ h \in DOMAIN Export /\ x4[h] \in Nat
  <1>1. c.demand \in [DOMAIN c.demand -> Nat] /\ DOMAIN c.demand \subseteq DOMAIN Export
    BY DEF IsAlternative
  <1>2. ASSUME NEW h \in DOMAIN c.demand
        PROVE  /\ c.demand[h] \in Nat /\ x4[h] \in Nat /\ h \in DOMAIN Export
               /\ Shift!Least(c.demand[h], x4[h]) \in Nat
               /\ Shift!Least(c.demand[h], x4[h]) <= c.demand[h]
               /\ Shift!Least(c.demand[h], x4[h]) <= x4[h]
    <2>1. c.demand[h] \in Nat /\ x4[h] \in Nat /\ h \in DOMAIN Export
      BY <1>1
    <2>2. QED
      BY <2>1 DEF Shift!Least
  <1>3. Shift!Share(c) = [h \in DOMAIN c.demand |-> Shift!Least(c.demand[h], x4[h])]
    BY DEF Shift!Share
  <1>4. QED
    BY <1>2, <1>3

\* There is a best candidate.
LEMMA BestIs ==
  ASSUME x3 # {}, \A c \in x3 : IsAlternative(c), x4 \in [DOMAIN Export -> Nat]
  PROVE  (CHOOSE c \in x3 : \A d \in x3 : Shift!Before(c, d)) \in x3
  <1>1. DEFINE value(c) == Shift!SumOver(Shift!Share(c))
  <1>2. PICK b \in Nat : b = Shift!SumOver(x4)
    BY RowIs
  <1>3. ASSUME NEW c \in x3 PROVE value(c) \in Nat /\ value(c) <= b
    <2>1. /\ Shift!Share(c) \in [DOMAIN c.demand -> Nat]
          /\ \A h \in DOMAIN c.demand : Shift!Share(c)[h] <= x4[h]
          /\ DOMAIN c.demand \subseteq DOMAIN Export
      BY ShareIs DEF IsAlternative
    <2>2. QED
      BY <1>2, <2>1, RowIs, SumIsMonotone
  <1>4. ASSUME NEW c \in x3
        PROVE  c.start \in Nat /\ c.load \in Nat /\ c.cycle \in Nat
    BY DEF IsAlternative
  <1>5. HIDE DEF value
  <1>6. PICK x \in {value(c) : c \in x3} : \A y \in {value(c) : c \in x3} : y <= x
    <2>1. {value(c) : c \in x3} \in SUBSET Nat /\ {value(c) : c \in x3} # {}
      BY <1>3
    <2>2. \A y \in {value(c) : c \in x3} : y <= b
      BY <1>3
    <2>3. QED
      BY <2>1, <2>2, GreatestNumber
  <1>7. PICK A : A = {c \in x3 : value(c) = x}
    OBVIOUS
  <1>8. A \subseteq x3 /\ A # {}
    BY <1>6, <1>7
  <1>9. PICK s \in {c.start : c \in A} : \A y \in {c.start : c \in A} : s <= y
    <2>1. {c.start : c \in A} \in SUBSET Nat /\ {c.start : c \in A} # {}
      BY <1>4, <1>8
    <2>2. QED
      BY <2>1, LeastNatural
  <1>10. PICK B : B = {c \in A : c.start = s}
    OBVIOUS
  <1>11. B \subseteq A /\ B # {}
    BY <1>9, <1>10
  <1>12. PICK l \in {c.load : c \in B} : \A y \in {c.load : c \in B} : l <= y
    <2>1. {c.load : c \in B} \in SUBSET Nat /\ {c.load : c \in B} # {}
      BY <1>4, <1>8, <1>11
    <2>2. QED
      BY <2>1, LeastNatural
  <1>13. PICK C : C = {c \in B : c.load = l}
    OBVIOUS
  <1>14. C \subseteq B /\ C # {}
    BY <1>12, <1>13
  <1>15. PICK k \in {c.cycle : c \in C} : \A y \in {c.cycle : c \in C} : k <= y
    <2>1. {c.cycle : c \in C} \in SUBSET Nat /\ {c.cycle : c \in C} # {}
      BY <1>4, <1>8, <1>11, <1>14
    <2>2. QED
      BY <2>1, LeastNatural
  <1>16. PICK c \in C : c.cycle = k
    BY <1>15
  <1>17. /\ c \in x3 /\ value(c) = x /\ c.start = s /\ c.load = l
    BY <1>7, <1>8, <1>10, <1>11, <1>13, <1>14
  <1>18. ASSUME NEW d \in x3 PROVE Shift!Before(c, d)
    <2>1. /\ value(d) <= x /\ value(d) \in Nat /\ x \in Nat
      BY <1>3, <1>6, <1>17
    <2>2. value(d) = x => s <= d.start
      BY <1>7, <1>9
    <2>3. value(d) = x /\ d.start = s => l <= d.load
      BY <1>7, <1>10, <1>12
    <2>4. value(d) = x /\ d.start = s /\ d.load = l => k <= d.cycle
      BY <1>7, <1>10, <1>13, <1>15
    <2>5. /\ s \in Nat /\ l \in Nat /\ k \in Nat
          /\ d.start \in Nat /\ d.load \in Nat /\ d.cycle \in Nat
      BY <1>4, <1>16, <1>17
    <2>6. \/ value(c) > value(d)
          \/ value(c) = value(d) /\ c.start < d.start
          \/ value(c) = value(d) /\ c.start = d.start /\ c.load < d.load
          \/ value(c) = value(d) /\ c.start = d.start /\ c.load = d.load /\ c.cycle <= d.cycle
      BY <1>16, <1>17, <2>1, <2>2, <2>3, <2>4, <2>5
    <2>7. QED
      BY <2>6 DEF value, Shift!Before
  <1>19. QED
    BY <1>17, <1>18

LEMMA SameObservation ==
  ASSUME x1' = x1
  PROVE  Shift!Merged' = Shift!Merged
  BY DEF Shift!Merged, Shift!MergedTo, Shift!Extended, Shift!Segment, Shift!Phase,
     Shift!Continues, Shift!Last

LEMMA SameAlternatives ==
  ASSUME x1' = x1
  PROVE  Shift!Alternatives' = Shift!Alternatives
  BY SameObservation
     DEF Shift!Alternatives, Shift!Observed, Shift!Declared, Shift!Tried, Shift!Eligible,
         Shift!WithEnergy, Shift!Active, Shift!Complete, Shift!Inactive, Shift!Phase, Shift!Fits,
         Shift!Demanded, Shift!Measured, Shift!Least, Shift!Interval

LEMMA ShiftBegins ==
  ASSUME Shift!Init
  PROVE  Shift!ShiftInv
  <1>1. /\ x1 = <<>> /\ x2 = "observe" /\ x3 = {} /\ x4 = Export /\ x5 = <<>>
    BY DEF Shift!Init
  <1>2. /\ x1 \in Seq(Shift!Observations) /\ Len(x1) = 0 /\ Len(x5) = 0
        /\ DOMAIN x5 = 1 .. Len(x5) /\ DOMAIN x5 = {}
    BY <1>1
  <1>3. Shift!TypeOK
    BY <1>1, <1>2, ShiftNumbers DEF Shift!TypeOK
  <1>4. Shift!FromObservation
    BY <1>1, <1>2 DEF Shift!FromObservation
  <1>5. ASSUME NEW h \in DOMAIN Export
        PROVE  Shift!Total(Shift!Given(x5, h)) + x4[h] = Export[h]
    <2>1. Shift!Given(x5, h) = <<>>
      BY <1>1, <1>2 DEF Shift!Given
    <2>2. Shift!Total(Shift!Given(x5, h)) = 0
      BY <2>1, ShiftTotal, TotalOfEmpty
    <2>3. Export[h] \in Nat
      BY ShiftNumbers
    <2>4. QED
      BY <1>1, <2>2, <2>3
  <1>6. QED
    BY <1>1, <1>2, <1>3, <1>4, <1>5 DEF Shift!ShiftInv, Shift!ExportIsSpent, Shift!NoConflict

\* Only what was observed changes, before anything is chosen.
LEMMA ObserveKeeps ==
  ASSUME Shift!ShiftInv, Shift!Observe
  PROVE  Shift!ShiftInv'
  <1>1. /\ x2 = "observe" /\ x2' = x2 /\ x3' = x3 /\ x4' = x4 /\ x5' = x5
        /\ Len(x1) < Hours
    BY DEF Shift!Observe
  <1>2. /\ x1 \in Seq(Shift!Observations) /\ x3 = {} /\ x5 = <<>>
        /\ Len(x5) \in Nat /\ DOMAIN x5 = 1 .. Len(x5) /\ Shift!TypeOK
    BY <1>1 DEF Shift!ShiftInv, Shift!FromObservation
  <1>3. PICK o \in Shift!Observations : x1' = Append(x1, o)
    BY DEF Shift!Observe, Shift!Observations
  <1>4. x1' \in Seq(Shift!Observations) /\ Len(x1') = Len(x1) + 1 /\ Len(x1) \in Nat
    BY <1>2, <1>3, AppendProperties, LenProperties
  <1>5. Len(x1') <= Hours
    BY <1>1, <1>4, ShiftNumbers
  <1>6. Shift!TypeOK'
    BY <1>1, <1>2, <1>5 DEF Shift!TypeOK
  <1>7. Shift!FromObservation'
    BY <1>1, <1>2, <1>4 DEF Shift!FromObservation
  <1>8. Shift!ExportIsSpent'
    BY <1>1 DEF Shift!ShiftInv, Shift!ExportIsSpent, Shift!Given
  <1>9. Shift!NoConflict'
    BY <1>1 DEF Shift!ShiftInv, Shift!NoConflict
  <1>10. QED
    BY <1>6, <1>7, <1>8, <1>9 DEF Shift!ShiftInv

LEMMA AnalyseKeeps ==
  ASSUME Shift!ShiftInv, Shift!Analyse
  PROVE  Shift!ShiftInv'
  <1>1. /\ x2 = "observe" /\ Len(x1) = Hours /\ x1' = x1 /\ x4' = x4 /\ x5' = x5
        /\ x2' \in {"allocate", "done"}
        /\ x3' = x3 \/ x3' = Shift!Observed(Shift!Merged) \cup Shift!Declared
    BY DEF Shift!Analyse
  <1>2. /\ x1 \in Seq(Shift!Observations) /\ x3 = {} /\ x5 = <<>>
        /\ Len(x5) \in Nat /\ DOMAIN x5 = 1 .. Len(x5) /\ DOMAIN x5 = {}
        /\ Shift!TypeOK
    BY <1>1 DEF Shift!ShiftInv, Shift!FromObservation
  <1>3. x3' \subseteq Shift!Alternatives
    BY <1>1, <1>2 DEF Shift!Alternatives
  <1>4. x3' \subseteq Shift!Alternatives'
    BY <1>1, <1>3, SameAlternatives
  <1>5. Shift!FromObservation'
    BY <1>1, <1>2, <1>4 DEF Shift!FromObservation
  <1>6. \A c \in x3' : c.start >= 0 /\ c.end <= Hours
    BY <1>1, <1>2, <1>3, AlternativeIs DEF IsAlternative
  <1>7. Shift!TypeOK'
    BY <1>1, <1>2, <1>6 DEF Shift!TypeOK
  <1>8. Shift!ExportIsSpent'
    BY <1>1 DEF Shift!ShiftInv, Shift!ExportIsSpent, Shift!Given
  <1>9. Shift!NoConflict'
    BY <1>1, <1>2 DEF Shift!NoConflict
  <1>10. QED
    BY <1>5, <1>7, <1>8, <1>9 DEF Shift!ShiftInv

\* Nothing but the step changes.
LEMMA ShiftEnds ==
  ASSUME Shift!ShiftInv, x2 = "allocate", x2' = "done",
         x1' = x1, x3' = x3, x4' = x4, x5' = x5
  PROVE  Shift!ShiftInv'
  <1>1. /\ Shift!TypeOK /\ Shift!FromObservation /\ Shift!ExportIsSpent /\ Shift!NoConflict
    BY DEF Shift!ShiftInv
  <1>2. Shift!TypeOK'
    BY <1>1 DEF Shift!TypeOK
  <1>3. Shift!FromObservation'
    BY <1>1, SameAlternatives DEF Shift!FromObservation, Shift!IsSelection
  <1>4. Shift!ExportIsSpent'
    BY <1>1 DEF Shift!ExportIsSpent, Shift!Given
  <1>5. Shift!NoConflict'
    BY <1>1 DEF Shift!NoConflict
  <1>6. QED
    BY <1>2, <1>3, <1>4, <1>5 DEF Shift!ShiftInv

\* The hours of what is given, selection by selection.
LEMMA GivenIs ==
  ASSUME Len(x5) \in Nat, DOMAIN x5 = 1 .. Len(x5),
         \A k \in DOMAIN x5 : Shift!IsSelection(x5[k]), NEW h
  PROVE  Shift!Given(x5, h) \in Seq(Nat) /\ Len(Shift!Given(x5, h)) = Len(x5)
  <1>1. PICK n \in Nat : n = Len(x5) /\ DOMAIN x5 = 1 .. n
    OBVIOUS
  <1>2. PICK g : g = Shift!Given(x5, h)
    OBVIOUS
  <1>3. g = [k \in 1 .. n |-> IF h \in DOMAIN x5[k].given THEN x5[k].given[h] ELSE 0]
    BY <1>1, <1>2 DEF Shift!Given
  <1>4. ASSUME NEW k \in 1 .. n
        PROVE  (IF h \in DOMAIN x5[k].given THEN x5[k].given[h] ELSE 0) \in Nat
    <2>1. x5[k].given \in [DOMAIN x5[k].of.demand -> Nat]
      BY <1>1 DEF Shift!IsSelection
    <2>2. QED
      BY <2>1
  <1>5. g \in [1 .. n -> Nat]
    BY <1>3, <1>4
  <1>6. QED
    BY <1>1, <1>2, <1>5

\* The best candidate is chosen, gets its share, and takes with it what conflicts.
LEMMA SelectKeeps ==
  ASSUME Shift!ShiftInv, Shift!Select
  PROVE  Shift!ShiftInv'
  <1>1. /\ Shift!TypeOK /\ Shift!FromObservation /\ Shift!ExportIsSpent /\ Shift!NoConflict
    BY DEF Shift!ShiftInv
  <1>2. x2 = "allocate" /\ x3 # {} /\ x1' = x1
    BY DEF Shift!Select
  <1>3. /\ x1 \in Seq(Shift!Observations) /\ Len(x1) = Hours
        /\ Len(x5) \in Nat /\ DOMAIN x5 = 1 .. Len(x5)
        /\ x3 \subseteq Shift!Alternatives /\ \A k \in DOMAIN x5 : Shift!IsSelection(x5[k])
    BY <1>1, <1>2 DEF Shift!FromObservation
  <1>4. \A c \in x3 : IsAlternative(c)
    BY <1>3, AlternativeIs
  <1>5. x4 \in [DOMAIN Export -> Nat] /\ Len(x5) <= MaxSelections
    BY <1>1 DEF Shift!TypeOK
  <1>6. PICK b : b = CHOOSE c \in x3 : \A d \in x3 : Shift!Before(c, d)
    OBVIOUS
  <1>7. b \in x3 /\ IsAlternative(b)
    BY <1>2, <1>4, <1>5, <1>6, BestIs
  <1>8. CASE x2' = "done" /\ UNCHANGED <<x3, x4, x5>>
    BY <1>2, <1>8, ShiftEnds
  <1>9. CASE ~(x2' = "done" /\ UNCHANGED <<x3, x4, x5>>)
    <2>1. PICK s : s = [of |-> b, given |-> Shift!Share(b)]
      OBVIOUS
    <2>2. /\ Len(x5) # MaxSelections /\ x2' = x2
          /\ x5' = Append(x5, s)
          /\ x4' = [h \in DOMAIN x4 |-> IF h \in DOMAIN b.demand THEN x4[h] - Shift!Share(b)[h]
                                        ELSE x4[h]]
          /\ x3' = {c \in x3 : ~ Shift!Conflicts(c, b)}
      BY <1>6, <1>9, <2>1 DEF Shift!Select
    <2>3. PICK n \in Nat : n = Len(x5)
      BY <1>3
    <2>4. /\ Len(x5') = n + 1 /\ DOMAIN x5' = 1 .. (n + 1)
          /\ x5'[n + 1] = s /\ \A k \in 1 .. n : x5'[k] = x5[k]
      BY <1>3, <2>2, <2>3
    <2>5. Shift!IsSelection(s)
      BY <1>3, <1>5, <1>7, <2>1, ShareIs DEF Shift!IsSelection
    <2>6. \A k \in DOMAIN x5' : Shift!IsSelection(x5'[k])
      BY <1>3, <2>3, <2>4, <2>5
    <2>7. Shift!FromObservation'
      <3>1. \A k \in DOMAIN x5' :
              /\ x5'[k].of \in Shift!Alternatives'
              /\ x5'[k].given \in [DOMAIN x5'[k].of.demand -> Nat]
              /\ \A h \in DOMAIN x5'[k].given : x5'[k].given[h] <= x5'[k].of.demand[h]
        BY <1>2, <2>6, SameAlternatives DEF Shift!IsSelection
      <3>2. x3' \subseteq Shift!Alternatives'
        BY <1>2, <1>3, <2>2, SameAlternatives
      <3>3. Len(x5') \in Nat /\ DOMAIN x5' = 1 .. Len(x5') /\ x2' # "observe"
        BY <1>2, <2>2, <2>4
      <3>4. QED
        BY <1>2, <1>3, <3>1, <3>2, <3>3 DEF Shift!FromObservation, Shift!IsSelection
    <2>8. x4' \in [DOMAIN Export -> Nat]
      <3>1. ASSUME NEW h \in DOMAIN Export
            PROVE  (IF h \in DOMAIN b.demand THEN x4[h] - Shift!Share(b)[h] ELSE x4[h]) \in Nat
        <4>1. x4[h] \in Nat
          BY <1>5
        <4>2. h \in DOMAIN b.demand => Shift!Share(b)[h] \in Nat /\ Shift!Share(b)[h] <= x4[h]
          BY <1>5, <1>7, ShareIs
        <4>3. QED
          BY <4>1, <4>2
      <3>2. QED
        BY <1>5, <2>2, <3>1
    <2>9. Shift!TypeOK'
      <3>1. \A c \in x3' : c.start >= 0 /\ c.end <= Hours
        BY <1>1, <2>2 DEF Shift!TypeOK
      <3>2. Len(x5') <= MaxSelections
        BY <1>5, <2>2, <2>3, <2>4, ShiftNumbers
      <3>3. QED
        BY <1>1, <1>2, <2>2, <2>8, <3>1, <3>2 DEF Shift!TypeOK
    <2>10. Shift!ExportIsSpent'
      <3>1. ASSUME NEW h \in DOMAIN Export
            PROVE  Shift!Total(Shift!Given(x5', h)) + x4'[h] = Export[h]
        <4>1. PICK g : g = Shift!Given(x5, h)
          OBVIOUS
        <4>2. g \in Seq(Nat) /\ Len(g) = n
          BY <1>3, <2>3, <4>1, GivenIs
        <4>3. PICK x : x = IF h \in DOMAIN s.given THEN s.given[h] ELSE 0
          OBVIOUS
        <4>4. /\ x \in Nat /\ x4[h] \in Nat
              /\ x4'[h] = x4[h] - x
          <5>1. x4[h] \in Nat /\ DOMAIN x4 = DOMAIN Export
            BY <1>5
          <5>2. /\ s.given = Shift!Share(b) /\ DOMAIN Shift!Share(b) = DOMAIN b.demand
                /\ h \in DOMAIN b.demand => Shift!Share(b)[h] \in Nat
            BY <1>5, <1>7, <2>1, ShareIs
          <5>3. CASE h \in DOMAIN b.demand
            BY <2>2, <4>3, <5>1, <5>2, <5>3
          <5>4. CASE h \notin DOMAIN b.demand
            BY <2>2, <4>3, <5>1, <5>2, <5>4
          <5>5. QED
            BY <5>3, <5>4
        <4>5. Shift!Given(x5', h) = Append(g, x)
          <5>1. g = [k \in 1 .. n |-> IF h \in DOMAIN x5[k].given THEN x5[k].given[h] ELSE 0]
            BY <1>3, <2>3, <4>1 DEF Shift!Given
          <5>2. PICK f : f = Shift!Given(x5', h)
            OBVIOUS
          <5>3. f = [k \in 1 .. (n + 1) |-> IF h \in DOMAIN x5'[k].given
                                            THEN x5'[k].given[h] ELSE 0]
            BY <2>4, <5>2 DEF Shift!Given
          <5>4. /\ f[n + 1] = x
                /\ \A k \in 1 .. n : f[k] = g[k]
            BY <2>4, <4>3, <5>1, <5>3
          <5>5. f \in [1 .. (n + 1) -> Nat]
            <6>1. \A k \in 1 .. n : g[k] \in Nat
              BY <4>2, ElementOfSeq
            <6>2. \A k \in 1 .. (n + 1) : k = n + 1 \/ k \in 1 .. n
              OBVIOUS
            <6>3. \A k \in 1 .. (n + 1) : f[k] \in Nat
              BY <4>4, <5>4, <6>1, <6>2
            <6>4. QED
              BY <5>3, <6>3
          <5>6. f \in Seq(Nat) /\ Len(f) = n + 1
            BY <5>5
          <5>7. /\ Append(g, x) \in Seq(Nat) /\ Len(Append(g, x)) = n + 1
                /\ Append(g, x)[n + 1] = x /\ \A k \in 1 .. n : Append(g, x)[k] = g[k]
            BY <4>2, <4>4, AppendProperties
          <5>8. \A k \in 1 .. (n + 1) : f[k] = Append(g, x)[k]
            <6>1. \A k \in 1 .. (n + 1) : k = n + 1 \/ k \in 1 .. n
              OBVIOUS
            <6>2. QED
              BY <5>4, <5>7, <6>1
          <5>9. f = Append(g, x)
            BY <5>6, <5>7, <5>8, SeqEqual
          <5>10. QED
            BY <5>2, <5>9
        <4>6. Shift!Total(Append(g, x)) = Shift!Total(g) + x /\ Shift!Total(g) \in Nat
          BY <4>2, <4>4, ShiftTotal, TotalOfAppend, TotalType
        <4>7. Shift!Total(g) + x4[h] = Export[h]
          BY <1>1, <4>1 DEF Shift!ExportIsSpent
        <4>8. QED
          BY <4>4, <4>5, <4>6, <4>7
      <3>2. QED
        BY <3>1 DEF Shift!ExportIsSpent
    <2>11. Shift!NoConflict'
      <3>1. ASSUME NEW j \in 1 .. (n + 1), NEW k \in 1 .. (n + 1), j < k
            PROVE  ~ Shift!Conflicts(x5'[k].of, x5'[j].of)
        <4>1. j \in 1 .. n
          BY <3>1
        <4>2. CASE k = n + 1
          <5>1. ~ Shift!Conflicts(b, x5[j].of)
            BY <1>1, <1>3, <1>7, <2>3, <4>1 DEF Shift!NoConflict
          <5>2. QED
            BY <2>1, <2>4, <4>1, <4>2, <5>1
        <4>3. CASE k \in 1 .. n
          BY <1>1, <1>3, <2>3, <2>4, <3>1, <4>1, <4>3 DEF Shift!NoConflict
        <4>4. QED
          BY <4>2, <4>3
      <3>2. ASSUME NEW c \in x3', NEW k \in 1 .. (n + 1)
            PROVE  ~ Shift!Conflicts(c, x5'[k].of)
        <4>1. c \in x3 /\ ~ Shift!Conflicts(c, b)
          BY <2>2
        <4>2. CASE k = n + 1
          BY <2>1, <2>4, <4>1, <4>2
        <4>3. CASE k \in 1 .. n
          BY <1>1, <1>3, <2>3, <2>4, <4>1, <4>3 DEF Shift!NoConflict
        <4>4. QED
          BY <4>2, <4>3
      <3>3. QED
        BY <2>4, <3>1, <3>2 DEF Shift!NoConflict, Shift!Conflicts
    <2>12. QED
      BY <2>7, <2>9, <2>10, <2>11 DEF Shift!ShiftInv
  <1>10. QED
    BY <1>8, <1>9

LEMMA ShiftSteps ==
  ASSUME Shift!ShiftInv, Shift!Next
  PROVE  Shift!ShiftInv'
  <1>1. CASE Shift!Finish
    BY <1>1, ShiftEnds DEF Shift!Finish
  <1>2. QED
    BY <1>1, ObserveKeeps, AnalyseKeeps, SelectKeeps DEF Shift!Next

LEMMA ShiftRests ==
  ASSUME Shift!ShiftInv, UNCHANGED <<x1, x2, x3, x4, x5>>
  PROVE  Shift!ShiftInv'
  <1>1. /\ Shift!TypeOK /\ Shift!FromObservation /\ Shift!ExportIsSpent /\ Shift!NoConflict
        /\ x1' = x1 /\ x2' = x2 /\ x3' = x3 /\ x4' = x4 /\ x5' = x5
    BY DEF Shift!ShiftInv
  <1>2. Shift!TypeOK'
    BY <1>1 DEF Shift!TypeOK
  <1>3. Shift!FromObservation'
    BY <1>1, SameAlternatives DEF Shift!FromObservation, Shift!IsSelection
  <1>4. Shift!ExportIsSpent'
    BY <1>1 DEF Shift!ExportIsSpent, Shift!Given
  <1>5. Shift!NoConflict'
    BY <1>1 DEF Shift!NoConflict
  <1>6. QED
    BY <1>2, <1>3, <1>4, <1>5 DEF Shift!ShiftInv

\* Every selection moves an alternative.
LEMMA SelectedIs ==
  ASSUME Shift!ShiftInv, NEW k \in DOMAIN x5
  PROVE  /\ IsAlternative(x5[k].of)
         /\ DOMAIN x5[k].given = DOMAIN x5[k].of.demand
         /\ \A h \in DOMAIN x5[k].given : x5[k].given[h] <= x5[k].of.demand[h]
  <1>1. Shift!FromObservation
    BY DEF Shift!ShiftInv
  <1>2. x2 # "observe"
    BY <1>1 DEF Shift!FromObservation
  <1>3. Shift!IsSelection(x5[k]) /\ x1 \in Seq(Shift!Observations) /\ Len(x1) = Hours
    BY <1>1, <1>2 DEF Shift!FromObservation
  <1>4. QED
    BY <1>3, AlternativeIs DEF Shift!IsSelection

\* Of two that are moved, one keeps clear of the other and of its pause.
LEMMA MovedApart ==
  ASSUME Shift!ShiftInv, NEW j \in DOMAIN x5, NEW k \in DOMAIN x5, j # k,
         x5[j].of.load = x5[k].of.load
  PROVE  /\ x5[j].of.cycle # x5[k].of.cycle
         /\ x5[j].of.load = 1 =>
              \/ x5[j].of.start >= x5[k].of.end + MinimumOff
              \/ x5[k].of.start >= x5[j].of.end + MinimumOff
  <1>1. PICK c, d : c = x5[j].of /\ d = x5[k].of
    OBVIOUS
  <1>2. IsAlternative(c) /\ IsAlternative(d)
    BY <1>1, SelectedIs
  <1>3. /\ c.start \in Nat /\ c.end \in Nat /\ d.start \in Nat /\ d.end \in Nat
        /\ c.load = d.load
        /\ c.load = 1 => c.off = MinimumOff /\ d.off = MinimumOff
    BY <1>1, <1>2 DEF IsAlternative
  <1>4. MinimumOff \in Nat
    BY ShiftNumbers
  <1>5. j \in Nat /\ k \in Nat
    BY DEF Shift!ShiftInv, Shift!FromObservation
  <1>6. ~ Shift!Conflicts(c, d) \/ ~ Shift!Conflicts(d, c)
    <2>1. j < k \/ k < j
      BY <1>5
    <2>2. \A l, n \in DOMAIN x5 : l < n => ~ Shift!Conflicts(x5[n].of, x5[l].of)
      BY DEF Shift!ShiftInv, Shift!NoConflict
    <2>3. QED
      BY <1>1, <2>1, <2>2
  <1>7. c.load = d.load
    BY <1>3
  <1>8. \/ c.cycle # d.cycle /\ ~(c.start - d.off < d.end /\ d.start < c.end + d.off)
        \/ d.cycle # c.cycle /\ ~(d.start - c.off < c.end /\ c.start < d.end + c.off)
    BY <1>6, <1>7 DEF Shift!Conflicts
  <1>9. c.cycle # d.cycle
    BY <1>8
  <1>10. ASSUME c.load = 1
        PROVE  c.start >= d.end + MinimumOff \/ d.start >= c.end + MinimumOff
    <2>1. c.off = MinimumOff /\ d.off = MinimumOff
      BY <1>3, <1>10
    <2>2. \/ ~(c.start - MinimumOff < d.end /\ d.start < c.end + MinimumOff)
          \/ ~(d.start - MinimumOff < c.end /\ c.start < d.end + MinimumOff)
      BY <1>8, <2>1
    <2>3. QED
      BY <1>3, <1>4, <2>2
  <1>11. QED
    BY <1>1, <1>9, <1>10

\* What the selections are given and what is left are what was exported; where a cycle is
\* moved to, the load was inactive, its pause before and after included.
LEMMA ShiftIsPossible ==
  ASSUME Shift!ShiftInv
  PROVE  Shift!PlanIsPossible
  <1>1. ASSUME NEW h \in DOMAIN Export
        PROVE  Shift!Total(Shift!Given(x5, h)) <= Export[h]
    <2>1. /\ Len(x5) \in Nat /\ DOMAIN x5 = 1 .. Len(x5)
          /\ \A k \in DOMAIN x5 : Shift!IsSelection(x5[k])
      BY DEF Shift!ShiftInv, Shift!FromObservation
    <2>2. Shift!Given(x5, h) \in Seq(Nat)
      BY <2>1, GivenIs
    <2>3. Shift!Total(Shift!Given(x5, h)) \in Nat
      BY <2>2, ShiftTotal, TotalType
    <2>4. x4[h] \in Nat /\ Export[h] \in Nat
      BY ShiftNumbers DEF Shift!ShiftInv, Shift!TypeOK
    <2>5. Shift!Total(Shift!Given(x5, h)) + x4[h] = Export[h]
      BY DEF Shift!ShiftInv, Shift!ExportIsSpent
    <2>6. QED
      BY <2>3, <2>4, <2>5
  <1>2. ASSUME NEW j \in DOMAIN x5, NEW k \in DOMAIN x5, j # k
        PROVE  <<x5[j].of.load, x5[j].of.cycle>> # <<x5[k].of.load, x5[k].of.cycle>>
    BY <1>2, MovedApart
  <1>3. ASSUME NEW s \in Shift!Selected, s.of.load = 1
        PROVE  LET near == (s.of.start - MinimumOff) .. (s.of.end + MinimumOff - 1)
               IN  /\ near \subseteq Shift!Interval
                   /\ \A h \in near : x1[h + 1].is = "off"
                   /\ \A t \in Shift!Selected \ {s} : t.of.load = 1 =>
                        near \cap (t.of.start .. (t.of.end - 1)) = {}
    <2>1. PICK k \in DOMAIN x5 : s = x5[k]
      BY DEF Shift!Selected
    <2>2. PICK c : c = s.of
      OBVIOUS
    <2>3. /\ c.start \in Nat /\ c.end \in Nat
          /\ 0 <= c.start - MinimumOff /\ c.end + MinimumOff <= Hours
          /\ \A h \in (c.start - MinimumOff) .. (c.end + MinimumOff - 1) : x1[h + 1].is = "off"
      BY <1>3, <2>1, <2>2, SelectedIs DEF IsAlternative
    <2>4. MinimumOff \in Nat /\ Hours \in Nat
      BY ShiftNumbers
    <2>5. (c.start - MinimumOff) .. (c.end + MinimumOff - 1) \subseteq Shift!Interval
      BY <2>3, <2>4 DEF Shift!Interval
    <2>6. ASSUME NEW t \in Shift!Selected \ {s}, t.of.load = 1
          PROVE  ((c.start - MinimumOff) .. (c.end + MinimumOff - 1))
                   \cap (t.of.start .. (t.of.end - 1)) = {}
      <3>1. PICK j \in DOMAIN x5 : t = x5[j]
        BY DEF Shift!Selected
      <3>2. PICK d : d = t.of
        OBVIOUS
      <3>3. d.start \in Nat /\ d.end \in Nat
        BY <3>1, <3>2, SelectedIs DEF IsAlternative
      <3>4. c.start >= d.end + MinimumOff \/ d.start >= c.end + MinimumOff
        BY <1>3, <2>1, <2>2, <2>6, <3>1, <3>2, MovedApart
      <3>5. QED
        BY <2>3, <2>4, <3>2, <3>3, <3>4
    <2>7. QED
      BY <2>2, <2>3, <2>5, <2>6
  <1>4. QED
    BY <1>1, <1>2, <1>3 DEF Shift!PlanIsPossible

LEMMA ShiftWasRun ==
  ASSUME Shift!ShiftInv
  PROVE  Shift!CyclesWereRun
  <1>1. ASSUME NEW s \in Shift!Selected, s.of.load = 1
        PROVE  /\ WasRun(s.of.cycle)
               /\ \A h \in DOMAIN s.given : s.given[h] <= Energy[s.of.cycle + h - s.of.start]
    <2>1. PICK k \in DOMAIN x5 : s = x5[k]
      BY DEF Shift!Selected
    <2>2. /\ IsAlternative(s.of) /\ DOMAIN s.given = DOMAIN s.of.demand
          /\ \A h \in DOMAIN s.given : s.given[h] <= s.of.demand[h]
      BY <2>1, SelectedIs
    <2>3. /\ WasRun(s.of.cycle)
          /\ \A h \in DOMAIN s.of.demand :
               s.of.demand[h] = Energy[s.of.cycle + h - s.of.start]
      BY <1>1, <2>2 DEF IsAlternative
    <2>4. QED
      BY <2>2, <2>3
  <1>2. QED
    BY <1>1 DEF Shift!CyclesWereRun, WasRun

-------------------------------------------------------------------------------
(***************************************************************************)
(* Weights.                                                                *)
(***************************************************************************)

\* What has a weight: finitely many things of D.
Weighed(w, D, K) == w \in [D -> Nat] /\ K \in SUBSET D /\ IsFiniteSet(K)

LEMMA UnitsAreFinite ==
  ASSUME NEW D, NEW w \in [D -> Nat], NEW K \in SUBSET D, IsFiniteSet(K)
  PROVE  IsFiniteSet(Units(w, K)) /\ Weight(w, K) \in Nat
  <1>1. PICK T : T = {{e} \X (1..w[e]) : e \in K}
    OBVIOUS
  <1>2. PICK f : f = [e \in K |-> {e} \X (1..w[e])]
    OBVIOUS
  <1>3. f \in Surjection(K, T)
    BY <1>1, <1>2 DEF Surjection
  <1>4. IsFiniteSet(T)
    BY <1>3, FS_Surjection
  <1>5. ASSUME NEW t \in T PROVE IsFiniteSet(t)
    <2>1. PICK e \in K : t = {e} \X (1..w[e])
      BY <1>1
    <2>2. IsFiniteSet({e})
      BY FS_Singleton
    <2>3. w[e] \in Int
      OBVIOUS
    <2>4. IsFiniteSet(1..w[e])
      BY <2>3, FS_Interval
    <2>5. IsFiniteSet({e} \X (1..w[e]))
      BY <2>2, <2>4, FS_Product
    <2>6. QED
      BY <2>1, <2>5
  <1>6. IsFiniteSet(UNION T)
    BY <1>4, <1>5, FS_UNION
  <1>7. Units(w, K) = UNION T
    BY <1>1 DEF Units
  <1>8. QED
    BY <1>6, <1>7, FS_CardinalityType DEF Weight

LEMMA WeightOfUnion ==
  ASSUME NEW D, NEW w \in [D -> Nat], NEW K \in SUBSET D, NEW L \in SUBSET D,
         IsFiniteSet(K), IsFiniteSet(L), K \cap L = {}
  PROVE  Weight(w, K \cup L) = Weight(w, K) + Weight(w, L)
  <1>1. PICK A, B : A = Units(w, K) /\ B = Units(w, L)
    OBVIOUS
  <1>2. IsFiniteSet(A) /\ IsFiniteSet(B)
    BY <1>1, UnitsAreFinite
  <1>3. \A u \in A : \E e \in K : u \in {e} \X (1..w[e])
    BY <1>1 DEF Units
  <1>4. \A u \in B : \E e \in L : u \in {e} \X (1..w[e])
    BY <1>1 DEF Units
  <1>5. A \cap B = {}
    BY <1>3, <1>4
  <1>6. Units(w, K \cup L) = A \cup B
    BY <1>1 DEF Units
  <1>7. Cardinality(A \cup B) = Cardinality(A) + Cardinality(B) - Cardinality(A \cap B)
    BY <1>2, FS_Union
  <1>8. Cardinality(A) \in Nat /\ Cardinality(B) \in Nat /\ Cardinality(A \cap B) = 0
    BY <1>2, <1>5, FS_CardinalityType, FS_EmptySet
  <1>9. Cardinality(A \cup B) = Cardinality(A) + Cardinality(B)
    BY <1>7, <1>8
  <1>10. QED
    BY <1>1, <1>6, <1>9 DEF Weight

LEMMA WeightOfNone == ASSUME NEW w PROVE Weight(w, {}) = 0
  <1>1. Units(w, {}) = {}
    BY DEF Units
  <1>2. QED
    BY <1>1, FS_EmptySet DEF Weight

LEMMA WeightOfOne ==
  ASSUME NEW D, NEW w \in [D -> Nat], NEW e \in D
  PROVE  Weight(w, {e}) = w[e]
  <1>1. Units(w, {e}) = {e} \X (1..w[e])
    BY DEF Units
  <1>2. IsFiniteSet({e}) /\ Cardinality({e}) = 1
    BY FS_Singleton
  <1>3. PICK n \in Nat : n = w[e]
    OBVIOUS
  <1>4. IsFiniteSet(1..n) /\ Cardinality(1..n) = n
    BY FS_Interval
  <1>5. PICK A, B : A = {e} /\ B = 1..n
    OBVIOUS
  <1>6. Cardinality(A \X B) = Cardinality(A) * Cardinality(B)
    BY <1>2, <1>4, <1>5, FS_Product
  <1>7. Cardinality(A \X B) = n
    <2>1. Cardinality(A) = 1 /\ Cardinality(B) = n /\ 1 * n = n
      BY <1>2, <1>4, <1>5
    <2>2. QED
      BY <1>6, <2>1
  <1>8. Units(w, {e}) = A \X B
    BY <1>1, <1>3, <1>5
  <1>9. QED
    BY <1>3, <1>7, <1>8 DEF Weight

LEMMA WeightAgrees ==
  ASSUME NEW w, NEW v, NEW K, \A e \in K : w[e] = v[e]
  PROVE  Weight(w, K) = Weight(v, K)
  <1>1. Units(w, K) = Units(v, K)
    BY DEF Units
  <1>2. QED
    BY <1>1 DEF Weight

\* A set weighs what is taken from it and what is left.
LEMMA WeightOfParts ==
  ASSUME NEW D, NEW w \in [D -> Nat], NEW K \in SUBSET D, IsFiniteSet(K), NEW L
  PROVE  /\ Weight(w, K) = Weight(w, K \ L) + Weight(w, K \cap L)
         /\ Weight(w, K \ L) \in Nat /\ Weight(w, K \cap L) \in Nat
  <1>1. IsFiniteSet(K \ L) /\ IsFiniteSet(K \cap L)
    BY FS_Difference, FS_Intersection
  <1>2. PICK A \in SUBSET D, B \in SUBSET D : A = K \ L /\ B = K \cap L
    OBVIOUS
  <1>3. A \cap B = {} /\ A \cup B = K
    BY <1>2
  <1>4. Weight(w, A \cup B) = Weight(w, A) + Weight(w, B)
    BY <1>1, <1>2, <1>3, WeightOfUnion
  <1>5. Weight(w, A) \in Nat /\ Weight(w, B) \in Nat
    BY <1>1, <1>2, UnitsAreFinite
  <1>6. QED
    BY <1>2, <1>3, <1>4, <1>5

LEMMA WeightSplits ==
  ASSUME NEW D, NEW w, NEW K, Weighed(w, D, K), NEW L
  PROVE  /\ Weight(w, K) = Weight(w, K \ L) + Weight(w, K \cap L)
         /\ Weight(w, K \ L) \in Nat /\ Weight(w, K \cap L) \in Nat
  BY WeightOfParts DEF Weighed

LEMMA WeightIsMonotone ==
  ASSUME NEW D, NEW w \in [D -> Nat], NEW L \in SUBSET D, IsFiniteSet(L), NEW K \in SUBSET L
  PROVE  Weight(w, K) <= Weight(w, L)
  <1>1. Weighed(w, D, L)
    BY DEF Weighed
  <1>2. /\ Weight(w, L) = Weight(w, L \ K) + Weight(w, L \cap K)
        /\ Weight(w, L \ K) \in Nat /\ Weight(w, L \cap K) \in Nat
    BY <1>1, WeightSplits
  <1>3. L \cap K = K
    OBVIOUS
  <1>4. PICK a \in Nat, b \in Nat : a = Weight(w, L \ K) /\ b = Weight(w, L \cap K)
    BY <1>2
  <1>5. a + b >= b
    OBVIOUS
  <1>6. QED
    BY <1>2, <1>3, <1>4, <1>5

LEMMA WeightJoins ==
  ASSUME NEW D, NEW w, NEW K, Weighed(w, D, K), NEW L, Weighed(w, D, L), K \cap L = {}
  PROVE  Weight(w, K \cup L) = Weight(w, K) + Weight(w, L)
  BY WeightOfUnion DEF Weighed

LEMMA WeightWithOne ==
  ASSUME NEW D, NEW w \in [D -> Nat], NEW K \in SUBSET D, IsFiniteSet(K), NEW e \in D, e \notin K
  PROVE  Weight(w, K \cup {e}) = Weight(w, K) + w[e]
  <1>1. IsFiniteSet({e}) /\ {e} \in SUBSET D /\ K \cap {e} = {}
    BY FS_Singleton
  <1>2. Weight(w, K \cup {e}) = Weight(w, K) + Weight(w, {e})
    BY <1>1, WeightOfUnion
  <1>3. QED
    BY <1>2, WeightOfOne

\* What the parts of an enumeration weigh adds up.  S[k] is the part that f[k] counts.
Weighs(D, w, f, S) ==
  /\ w \in [D -> Nat] /\ f \in Seq(Nat)
  /\ \A k \in 1..Len(f) : S[k] \in SUBSET D /\ IsFiniteSet(S[k]) /\ Weight(w, S[k]) = f[k]
  /\ \A j, k \in 1..Len(f) : j # k => S[j] \cap S[k] = {}

LEMMA WeightOfAll ==
  ASSUME NEW D, NEW w, NEW f, NEW S, Weighs(D, w, f, S)
  PROVE  Weight(w, UNION {S[k] : k \in 1..Len(f)}) = Total(f)
  <1>0. USE DEF Weighs
  <1>1. PICK N \in Nat : N = Len(f)
    OBVIOUS
  <1>2. DEFINE U(n) == UNION {S[k] : k \in 1..n}
               R == {n \in Nat : n <= N => IsFiniteSet(U(n)) /\ Weight(w, U(n)) = Totals(f)[n]}
  <1>3. 0 \in R
    <2>1. U(0) = {}
      OBVIOUS
    <2>2. Totals(f)[0] = 0
      BY TotalsDef
    <2>3. QED
      BY <2>1, <2>2, WeightOfNone, FS_EmptySet
  <1>4. ASSUME NEW n \in Nat, n \in R PROVE n + 1 \in R
    <2>1. SUFFICES ASSUME n + 1 <= N
                   PROVE  IsFiniteSet(U(n + 1)) /\ Weight(w, U(n + 1)) = Totals(f)[n + 1]
      OBVIOUS
    <2>2. /\ n + 1 \in 1..Len(f) /\ n + 1 - 1 = n /\ \A k \in 1..n : k \in 1..Len(f) /\ k # n + 1
      BY <1>1, <2>1
    <2>3. IsFiniteSet(U(n)) /\ Weight(w, U(n)) = Totals(f)[n]
      BY <1>4, <2>1
    <2>4. U(n + 1) = U(n) \cup S[n + 1]
      <3>1. 1..(n + 1) = (1..n) \cup {n + 1}
        OBVIOUS
      <3>2. QED
        BY <3>1
    <2>5. /\ S[n + 1] \in SUBSET D /\ IsFiniteSet(S[n + 1]) /\ Weight(w, S[n + 1]) = f[n + 1]
      BY <2>2
    <2>6. U(n) \in SUBSET D
      BY <2>2
    <2>7. U(n) \cap S[n + 1] = {}
      BY <2>2
    <2>8. PICK A : A = U(n)
      OBVIOUS
    <2>9. Weight(w, A \cup S[n + 1]) = Weight(w, A) + Weight(w, S[n + 1])
      <3>1. PICK B : B = S[n + 1]
        OBVIOUS
      <3>2. Weighed(w, D, A) /\ Weighed(w, D, B) /\ A \cap B = {}
        BY <2>3, <2>5, <2>6, <2>7, <2>8, <3>1 DEF Weighed
      <3>3. QED
        BY <3>1, <3>2, WeightJoins
    <2>10. Totals(f)[n + 1] = Totals(f)[n + 1 - 1] + f[n + 1]
      BY <2>2, TotalsDef
    <2>11. IsFiniteSet(A \cup S[n + 1])
      BY <2>3, <2>5, <2>8, FS_Union
    <2>12. HIDE DEF U
    <2>13. QED
      BY <2>2, <2>3, <2>4, <2>5, <2>8, <2>9, <2>10, <2>11
  <1>5. HIDE DEF R
  <1>6. N \in R
    BY <1>3, <1>4, FromZero
  <1>7. USE DEF R
  <1>8. QED
    BY <1>1, <1>6 DEF Total

\* A sequence without repetitions weighs what its members weigh.
LEMMA WeightOfSequence ==
  ASSUME NEW D, NEW w \in [D -> Nat], NEW q \in Seq(D),
         \A j, k \in 1..Len(q) : q[j] = q[k] => j = k,
         NEW f \in Seq(Nat), Len(f) = Len(q), \A k \in 1..Len(q) : f[k] = w[q[k]]
  PROVE  Weight(w, {q[k] : k \in 1..Len(q)}) = Total(f)
  <1>0. \A x \in D : Weight(w, {x}) = w[x] /\ IsFiniteSet({x})
    <2>1. TAKE x \in D
    <2>2. Weight(w, {x}) = w[x]
      BY WeightOfOne, Zenon
    <2>3. QED
      BY <2>2, FS_Singleton
  <1>1. PICK S : S = [k \in 1..Len(f) |-> {q[k]}]
    OBVIOUS
  <1>2. ASSUME NEW k \in 1..Len(f)
        PROVE  S[k] = {q[k]} /\ S[k] \in SUBSET D /\ IsFiniteSet(S[k]) /\ Weight(w, S[k]) = f[k]
    <2>1. S[k] = {q[k]} /\ q[k] \in D
      BY <1>1, ElementOfSeq
    <2>2. PICK e \in D : e = q[k]
      BY <2>1
    <2>3. Weight(w, {e}) = w[e] /\ IsFiniteSet({e})
      BY <1>0
    <2>4. f[k] = w[e]
      BY <2>2
    <2>5. QED
      BY <2>1, <2>2, <2>3, <2>4
  <1>3. \A j, k \in 1..Len(f) : j # k => S[j] \cap S[k] = {}
    <2>1. \A k \in 1..Len(f) : S[k] = {q[k]}
      BY <1>2
    <2>2. \A j, k \in 1..Len(f) : j # k => q[j] # q[k]
      OBVIOUS
    <2>3. QED
      BY <2>1, <2>2
  <1>4. UNION {S[k] : k \in 1..Len(f)} = {q[k] : k \in 1..Len(q)}
    <2>1. PICK N : N = 1..Len(f) /\ N = 1..Len(q)
      OBVIOUS
    <2>2. \A k \in N : S[k] = {q[k]}
      BY <1>1, <2>1
    <2>3. UNION {S[k] : k \in N} = {q[k] : k \in N}
      <3>1. ASSUME NEW x \in UNION {S[k] : k \in N} PROVE x \in {q[k] : k \in N}
        <4>1. PICK k \in N : x \in S[k]
          BY Zenon
        <4>2. x = q[k]
          BY <2>2, <4>1
        <4>3. QED
          BY <4>2
      <3>2. ASSUME NEW k \in N PROVE q[k] \in UNION {S[j] : j \in N}
        <4>1. q[k] \in S[k]
          BY <2>2
        <4>2. QED
          BY <4>1, Zenon
      <3>3. PICK A : A = UNION {S[k] : k \in N}
        OBVIOUS
      <3>4. /\ \A x \in A : x \in {q[k] : k \in N}
            /\ \A k \in N : q[k] \in A
        BY <3>1, <3>2, <3>3
      <3>5. A = {q[k] : k \in N}
        BY <3>4, Zenon
      <3>6. QED
        BY <3>3, <3>5
    <2>4. QED
      BY <2>1, <2>3
  <1>5. Weighs(D, w, f, S)
    BY <1>2, <1>3 DEF Weighs
  <1>6. Weight(w, UNION {S[k] : k \in 1..Len(f)}) = Total(f)
    BY <1>5, WeightOfAll
  <1>7. QED
    BY <1>4, <1>6

-------------------------------------------------------------------------------
(***************************************************************************)
(* StateCache: x1 is store.                                                *)
(***************************************************************************)

LEMMA CacheFinite == \A S : Cache!IsFiniteSet(S) <=> IsFiniteSet(S)
  BY DEF Cache!IsFiniteSet, IsFiniteSet

LEMMA CacheCardinality == \A S : Cache!Cardinality(S) = Cardinality(S)
  BY DEF Cache!Cardinality, Cardinality

LEMMA CacheTotal == \A f : Cache!Total(f) = Total(f)
  BY DEF Cache!Total, Cache!Totals, Total, Totals

LEMMA CacheWeight == \A w, K : Cache!Weight(w, K) = Weight(w, K)
  BY CacheCardinality DEF Cache!Weight, Cache!Units, Weight, Units

LEMMA CacheNumbers ==
  /\ IsFiniteSet(Subjects) /\ MaxStates \in Nat \ {0} /\ CacheBytes \in Nat \ {0}
  /\ MaxTotal \in Nat \ {0} /\ Sizes \subseteq Nat \ {0} /\ Structures \subseteq SUBSET Uuids
  /\ NoUser \notin Users \cup Subjects /\ Users \cap Subjects = {}
  BY CacheParameters, CacheFinite DEF Cache!Parameters

\* A sequence without repetitions without one of its members
LEMMA RemovedIs ==
  ASSUME NEW T, NEW q \in Seq(T), Cache!IsInjective(q), NEW x
  PROVE  /\ Cache!RemoveFirst(q, x) \in Seq(T)
         /\ Cache!IsInjective(Cache!RemoveFirst(q, x))
         /\ Cache!ToSet(Cache!RemoveFirst(q, x)) = Cache!ToSet(q) \ {x}
         /\ Len(Cache!RemoveFirst(q, x)) <= Len(q)
         /\ \A a, b : Cache!Older(Cache!RemoveFirst(q, x), a, b)
                        <=> Cache!Older(q, a, b) /\ a # x /\ b # x
  <1>1. PICK N \in Nat : N = Len(q) /\ DOMAIN q = 1..N
    BY LenProperties
  <1>2. PICK r : r = Cache!RemoveFirst(q, x)
    OBVIOUS
  <1>3. CASE ~ \E i \in 1..N : q[i] = x
    <2>1. r = q
      BY <1>1, <1>2, <1>3 DEF Cache!RemoveFirst
    <2>2. x \notin Cache!ToSet(q)
      BY <1>1, <1>3 DEF Cache!ToSet
    <2>3. \A a, b : Cache!Older(q, a, b) => a # x /\ b # x
      BY <1>1, <1>3 DEF Cache!Older
    <2>4. QED
      BY <1>1, <1>2, <2>1, <2>2, <2>3
  <1>4. CASE \E i \in 1..N : q[i] = x
    <2>1. PICK p \in 1..N : q[p] = x
      BY <1>4
    <2>2. \A i \in 1..N : q[i] = x => i = p
      BY <1>1, <2>1 DEF Cache!IsInjective
    <2>3. {i \in 1..Len(q) : q[i] = x} = {p}
      BY <1>1, <2>1, <2>2
    <2>4. Cache!Min({p}) = p
      BY DEF Cache!Min
    <2>5. Cache!SelectInSeq(q, LAMBDA v : v = x) = p
      BY <2>3, <2>4 DEF Cache!SelectInSeq
    <2>6. r = SubSeq(q, 1, p - 1) \o SubSeq(q, p + 1, N)
      BY <1>1, <1>2, <1>4, <2>5 DEF Cache!RemoveFirst, Cache!RemoveAt
    <2>7. PICK a, b : a = SubSeq(q, 1, p - 1) /\ b = SubSeq(q, p + 1, N)
      OBVIOUS
    <2>8. /\ a \in Seq(T) /\ Len(a) = p - 1 /\ \A i \in 1..(p - 1) : a[i] = q[i]
      <3>1. \A i \in 1..(p - 1) : q[i] \in T
        BY <1>1, ElementOfSeq
      <3>2. 1 \in Int /\ p - 1 \in Int /\ (p - 1) - 1 + 1 = p - 1 /\ \A i \in Int : 1 + i - 1 = i
        OBVIOUS
      <3>3. /\ a \in Seq(T) /\ Len(a) = IF 1 <= p - 1 THEN (p - 1) - 1 + 1 ELSE 0
            /\ \A i \in 1..((p - 1) - 1 + 1) : a[i] = q[1 + i - 1]
        BY <2>7, <3>1, <3>2, SubSeqProperties
      <3>4. QED
        BY <3>2, <3>3
    <2>9. /\ b \in Seq(T) /\ Len(b) = N - p /\ \A i \in 1..(N - p) : b[i] = q[p + i]
      <3>1. \A i \in (p + 1)..N : q[i] \in T
        BY <1>1, ElementOfSeq
      <3>2. /\ p + 1 \in Int /\ N \in Int /\ N - (p + 1) + 1 = N - p
            /\ \A i \in Int : (p + 1) + i - 1 = p + i
        OBVIOUS
      <3>3. /\ b \in Seq(T) /\ Len(b) = IF p + 1 <= N THEN N - (p + 1) + 1 ELSE 0
            /\ \A i \in 1..(N - (p + 1) + 1) : b[i] = q[(p + 1) + i - 1]
        BY <2>7, <3>1, <3>2, SubSeqProperties
      <3>4. PICK m \in Int : m = N - (p + 1) + 1 /\ m = N - p
        BY <3>2
      <3>5. \A i \in 1..m : b[i] = q[p + i]
        BY <3>2, <3>3, <3>4
      <3>6. Len(b) = m
        BY <3>3, <3>4
      <3>7. QED
        BY <3>3, <3>4, <3>5, <3>6
    <2>10. /\ r \in Seq(T) /\ Len(r) = N - 1
           /\ \A i \in 1..(N - 1) : r[i] = IF i < p THEN q[i] ELSE q[i + 1]
      <3>1. /\ r \in Seq(T) /\ Len(r) = Len(a) + Len(b)
            /\ \A i \in 1 .. (Len(a) + Len(b)) : r[i] = IF i <= Len(a) THEN a[i] ELSE b[i - Len(a)]
        <4>1. a \in Seq(T) /\ b \in Seq(T)
          BY <2>8, <2>9
        <4>2. r = a \o b
          BY <2>6, <2>7
        <4>3. QED
          BY <4>1, <4>2, ConcatProperties
      <3>2. Len(a) + Len(b) = N - 1
        BY <2>8, <2>9
      <3>3. ASSUME NEW i \in 1..(N - 1) PROVE r[i] = IF i < p THEN q[i] ELSE q[i + 1]
        <4>1. CASE i < p
          <5>1. i \in 1..(p - 1) /\ i <= p - 1
            BY <4>1
          <5>2. r[i] = a[i]
            BY <2>8, <3>1, <3>2, <5>1
          <5>3. QED
            BY <2>8, <4>1, <5>1, <5>2
        <4>2. CASE ~(i < p)
          <5>1. i - (p - 1) \in 1..(N - p) /\ p + (i - (p - 1)) = i + 1 /\ ~(i <= p - 1)
            BY <4>2
          <5>2. r[i] = b[i - (p - 1)]
            BY <2>8, <3>1, <3>2, <5>1
          <5>3. QED
            BY <2>9, <4>2, <5>1, <5>2
        <4>3. QED
          BY <4>1, <4>2
      <3>4. QED
        BY <3>1, <3>2, <3>3
    <2>11. DOMAIN r = 1..(N - 1) /\ N - 1 \in Nat
      BY <2>10, LenProperties
    <2>12. PICK m : m = [i \in 1..(N - 1) |-> IF i < p THEN i ELSE i + 1]
      OBVIOUS
    <2>13. /\ \A i \in 1..(N - 1) : m[i] \in 1..N /\ m[i] # p /\ r[i] = q[m[i]]
           /\ \A i, j \in 1..(N - 1) : i < j <=> m[i] < m[j]
      BY <2>10, <2>12
    <2>14. \A j \in 1..N : j # p => \E i \in 1..(N - 1) : m[i] = j
      <3>1. ASSUME NEW j \in 1..N, j # p PROVE \E i \in 1..(N - 1) : m[i] = j
        <4>1. CASE j < p
          <5>1. j \in 1..(N - 1) /\ m[j] = j
            BY <2>12, <4>1
          <5>2. QED
            BY <5>1
        <4>2. CASE j > p
          <5>1. j - 1 \in 1..(N - 1) /\ m[j - 1] = j
            BY <2>12, <4>2
          <5>2. QED
            BY <5>1
        <4>3. QED
          BY <3>1, <4>1, <4>2
      <3>2. QED
        BY <3>1
    <2>15. Cache!IsInjective(r)
      <3>1. SUFFICES ASSUME NEW i \in 1..(N - 1), NEW j \in 1..(N - 1), r[i] = r[j] PROVE i = j
        BY <2>11 DEF Cache!IsInjective
      <3>2. q[m[i]] = q[m[j]] /\ m[i] \in 1..N /\ m[j] \in 1..N
        BY <2>13, <3>1
      <3>3. m[i] = m[j]
        BY <1>1, <3>2 DEF Cache!IsInjective
      <3>4. ~(m[i] < m[j]) /\ ~(m[j] < m[i])
        BY <3>2, <3>3
      <3>5. ~(i < j) /\ ~(j < i)
        BY <2>13, <3>4
      <3>6. QED
        BY <2>11, <3>5
    <2>16. Cache!ToSet(r) = Cache!ToSet(q) \ {x}
      <3>1. /\ Cache!ToSet(q) = {q[j] : j \in 1..N}
            /\ Cache!ToSet(r) = {r[i] : i \in 1..(N - 1)}
        BY <1>1, <2>11 DEF Cache!ToSet
      <3>2. ASSUME NEW i \in 1..(N - 1) PROVE r[i] \in Cache!ToSet(q) \ {x}
        <4>1. m[i] \in 1..N /\ m[i] # p /\ r[i] = q[m[i]]
          BY <2>13
        <4>2. QED
          BY <2>2, <3>1, <4>1
      <3>3. ASSUME NEW j \in 1..N, q[j] # x PROVE q[j] \in Cache!ToSet(r)
        <4>1. j # p
          BY <2>1, <3>3
        <4>2. PICK i \in 1..(N - 1) : m[i] = j
          BY <2>14, <4>1
        <4>3. r[i] = q[j]
          BY <2>13, <4>2
        <4>4. QED
          BY <3>1, <4>3
      <3>4. QED
        BY <3>1, <3>2, <3>3
    <2>17. ASSUME NEW c, NEW d
           PROVE  Cache!Older(r, c, d) <=> Cache!Older(q, c, d) /\ c # x /\ d # x
      <3>1. ASSUME Cache!Older(r, c, d) PROVE Cache!Older(q, c, d) /\ c # x /\ d # x
        BY <1>1, <2>2, <2>11, <2>13, <3>1 DEF Cache!Older
      <3>2. ASSUME Cache!Older(q, c, d), c # x, d # x PROVE Cache!Older(r, c, d)
        <4>1. PICK j \in 1..N, k \in 1..N : j < k /\ q[j] = c /\ q[k] = d
          BY <1>1, <3>2 DEF Cache!Older
        <4>2. PICK g \in 1..(N - 1), h \in 1..(N - 1) : m[g] = j /\ m[h] = k
          BY <2>1, <2>14, <3>2, <4>1
        <4>3. QED
          BY <2>11, <2>13, <4>1, <4>2 DEF Cache!Older
      <3>3. QED
        BY <3>1, <3>2
    <2>18. Len(r) <= Len(q)
      BY <1>1, <2>10
    <2>19. QED
      BY <1>2, <2>10, <2>15, <2>16, <2>17, <2>18
  <1>5. QED
    BY <1>3, <1>4

\* ... and with another
LEMMA AppendedIs ==
  ASSUME NEW T, NEW q \in Seq(T), Cache!IsInjective(q), NEW x \in T, x \notin Cache!ToSet(q)
  PROVE  /\ Append(q, x) \in Seq(T)
         /\ Cache!IsInjective(Append(q, x))
         /\ Cache!ToSet(Append(q, x)) = Cache!ToSet(q) \cup {x}
         /\ \A a, b : Cache!Older(Append(q, x), a, b)
                        <=> Cache!Older(q, a, b) \/ (b = x /\ a \in Cache!ToSet(q))
  <1>1. PICK N \in Nat : N = Len(q) /\ DOMAIN q = 1..N
    BY LenProperties
  <1>2. PICK r \in Seq(T) : r = Append(q, x)
    BY AppendProperties
  <1>3. /\ Len(r) = N + 1 /\ DOMAIN r = 1..(N + 1)
        /\ r[N + 1] = x /\ \A i \in 1..N : r[i] = q[i]
    BY <1>1, <1>2, AppendProperties, LenProperties
  <1>4. \A i \in 1..N : q[i] # x
    BY <1>1 DEF Cache!ToSet
  <1>5. \A i \in 1..(N + 1) : i = N + 1 \/ i \in 1..N
    OBVIOUS
  <1>6. Cache!IsInjective(r)
    BY <1>1, <1>3, <1>4, <1>5 DEF Cache!IsInjective
  <1>7. Cache!ToSet(r) = Cache!ToSet(q) \cup {x}
    BY <1>1, <1>3, <1>5 DEF Cache!ToSet
  <1>8. ASSUME NEW a, NEW b
        PROVE  Cache!Older(r, a, b) <=> Cache!Older(q, a, b) \/ (b = x /\ a \in Cache!ToSet(q))
    <2>1. ASSUME Cache!Older(r, a, b) PROVE Cache!Older(q, a, b) \/ (b = x /\ a \in Cache!ToSet(q))
      <3>1. PICK j \in 1..(N + 1), k \in 1..(N + 1) : j < k /\ r[j] = a /\ r[k] = b
        BY <1>3, <2>1 DEF Cache!Older
      <3>2. j \in 1..N /\ a = q[j] /\ a \in Cache!ToSet(q)
        BY <1>1, <1>3, <3>1 DEF Cache!ToSet
      <3>3. CASE k = N + 1
        BY <1>3, <3>1, <3>2, <3>3
      <3>4. CASE k \in 1..N
        BY <1>1, <1>3, <3>1, <3>2, <3>4 DEF Cache!Older
      <3>5. QED
        BY <1>5, <3>3, <3>4
    <2>2. ASSUME Cache!Older(q, a, b) PROVE Cache!Older(r, a, b)
      <3>1. PICK j \in 1..N, k \in 1..N : j < k /\ q[j] = a /\ q[k] = b
        BY <1>1, <2>2 DEF Cache!Older
      <3>2. j \in DOMAIN r /\ k \in DOMAIN r /\ r[j] = a /\ r[k] = b
        BY <1>3, <3>1
      <3>3. QED
        BY <3>1, <3>2 DEF Cache!Older
    <2>3. ASSUME b = x, a \in Cache!ToSet(q) PROVE Cache!Older(r, a, b)
      <3>1. PICK j \in 1..N : q[j] = a
        BY <1>1, <2>3 DEF Cache!ToSet
      <3>2. j \in DOMAIN r /\ N + 1 \in DOMAIN r /\ j < N + 1 /\ r[j] = a /\ r[N + 1] = b
        BY <1>3, <2>3, <3>1
      <3>3. QED
        BY <3>2 DEF Cache!Older
    <2>4. QED
      BY <2>1, <2>2, <2>3
  <1>9. QED
    BY <1>2, <1>6, <1>7, <1>8

LEMMA StoreTypes ==
  ASSUME NEW c \in Cache!Caches
  PROVE  /\ c.values \in [Subjects -> Seq(Uuids)] /\ c.sizes \in [Subjects -> [Uuids -> Nat]]
         /\ c.identity \in [Subjects -> Cache!Identities \cup {NoUser}]
         /\ c.members \in [Cache!Identities -> SUBSET Subjects]
         /\ c.entries \in [Cache!Identities -> Seq(Cache!Keys)]
         /\ c.identityBytes \in [Cache!Identities -> Nat]
         /\ c.subjectBytes \in [Subjects -> Nat] /\ c.total \in Nat
  BY DEF Cache!Caches

\* What is stored of some subjects, in bytes
Bytes(c, S) == Weight(Cache!SizeIn(c), Cache!KeysIn(c, S))

LEMMA CountersAre ==
  ASSUME NEW c
  PROVE  Cache!Counters(c) <=>
           /\ \A s \in Subjects : c.subjectBytes[s] = Bytes(c, {s})
           /\ \A i \in Cache!Identities : c.identityBytes[i] = Bytes(c, c.members[i])
           /\ c.total = Bytes(c, Subjects)
  BY CacheWeight DEF Cache!Counters, Bytes

LEMMA SizesAre ==
  ASSUME NEW c \in Cache!Caches
  PROVE  /\ Cache!SizeIn(c) \in [Cache!Keys -> Nat]
         /\ \A s \in Subjects, u \in Uuids :
              <<s, u>> \in Cache!Keys /\ Cache!SizeIn(c)[<<s, u>>] = c.sizes[s][u]
         /\ \A e \in Cache!Keys :
              /\ e[1] \in Subjects /\ e[2] \in Uuids /\ e = <<e[1], e[2]>>
              /\ Cache!SizeIn(c)[e] = c.sizes[e[1]][e[2]]
  BY StoreTypes DEF Cache!SizeIn, Cache!Keys

LEMMA FiniteRange ==
  ASSUME NEW T, NEW q \in Seq(T)
  PROVE  IsFiniteSet(Cache!ToSet(q)) /\ Cache!ToSet(q) \in SUBSET T
  <1>1. PICK n \in Nat : n = Len(q) /\ DOMAIN q = 1..n /\ q \in [1..n -> T]
    BY LenProperties
  <1>2. Cache!ToSet(q) = {q[k] : k \in 1..n}
    BY <1>1 DEF Cache!ToSet
  <1>3. q \in Surjection(1..n, Cache!ToSet(q))
    BY <1>1, <1>2 DEF Surjection
  <1>4. IsFiniteSet(1..n)
    BY FS_Interval
  <1>5. QED
    BY <1>1, <1>2, <1>3, <1>4, FS_Surjection

LEMMA KeysAreFinite ==
  ASSUME NEW c \in Cache!Caches, Cache!Orders(c), NEW S
  PROVE  IsFiniteSet(Cache!KeysIn(c, S)) /\ Cache!KeysIn(c, S) \in SUBSET Cache!Keys
  <1>1. PICK T : T = {{s} \X Cache!ToSet(c.values[s]) : s \in Subjects}
    OBVIOUS
  <1>2. PICK f : f = [s \in Subjects |-> {s} \X Cache!ToSet(c.values[s])]
    OBVIOUS
  <1>3. f \in Surjection(Subjects, T)
    BY <1>1, <1>2 DEF Surjection
  <1>4. IsFiniteSet(T)
    BY <1>3, FS_Surjection, CacheNumbers
  <1>5. ASSUME NEW t \in T PROVE IsFiniteSet(t)
    <2>1. PICK s \in Subjects : t = {s} \X Cache!ToSet(c.values[s])
      BY <1>1
    <2>2. PICK q \in Seq(Uuids) : q = c.values[s]
      BY StoreTypes
    <2>3. IsFiniteSet({s}) /\ IsFiniteSet(Cache!ToSet(q))
      BY FS_Singleton, FiniteRange
    <2>4. QED
      BY <2>1, <2>2, <2>3, FS_Product
  <1>6. IsFiniteSet(UNION T)
    BY <1>4, <1>5, FS_UNION
  <1>7. ASSUME NEW e \in Cache!KeysIn(c, S) PROVE e \in UNION T
    <2>1. e[1] \in Subjects /\ e[2] \in Uuids /\ e = <<e[1], e[2]>> /\ c.sizes[e[1]][e[2]] > 0
      BY DEF Cache!KeysIn, Cache!Keys
    <2>2. e[2] \in Cache!ToSet(c.values[e[1]])
      BY <2>1 DEF Cache!Orders
    <2>3. e \in {e[1]} \X Cache!ToSet(c.values[e[1]])
      BY <2>1, <2>2
    <2>4. QED
      BY <1>1, <2>1, <2>3
  <1>8. Cache!KeysIn(c, S) \in SUBSET (UNION T)
    BY <1>7
  <1>9. IsFiniteSet(Cache!KeysIn(c, S))
    BY <1>6, <1>8, FS_Subset
  <1>10. QED
    BY <1>9 DEF Cache!KeysIn

\* d has the values of c without K, or some with them; who is whose is the same.
Without(c, d, K) ==
  /\ d.identity = c.identity /\ d.members = c.members
  /\ \A s \in Subjects, u \in Uuids :
       d.sizes[s][u] = IF <<s, u>> \in K THEN 0 ELSE c.sizes[s][u]
  /\ \A s \in Subjects : Len(d.values[s]) <= Len(c.values[s])
  /\ \A i \in Cache!Identities :
       (\A e \in K : c.identity[e[1]] # i) => d.entries[i] = c.entries[i]

LEMMA WithoutBoth ==
  ASSUME NEW b \in Cache!Caches, NEW c \in Cache!Caches, NEW d \in Cache!Caches,
         NEW K, NEW L, Without(b, c, K), Without(c, d, L)
  PROVE  Without(b, d, K \cup L)
  <1>1. d.identity = b.identity /\ d.members = b.members /\ c.identity = b.identity
    BY DEF Without
  <1>2. \A s \in Subjects, u \in Uuids :
          d.sizes[s][u] = IF <<s, u>> \in K \cup L THEN 0 ELSE b.sizes[s][u]
    <2> SUFFICES ASSUME NEW s \in Subjects, NEW u \in Uuids
                 PROVE  d.sizes[s][u] = IF <<s, u>> \in K \cup L THEN 0 ELSE b.sizes[s][u]
      OBVIOUS
    <2>1. c.sizes[s][u] = IF <<s, u>> \in K THEN 0 ELSE b.sizes[s][u]
      BY DEF Without
    <2>2. d.sizes[s][u] = IF <<s, u>> \in L THEN 0 ELSE c.sizes[s][u]
      BY DEF Without
    <2>3. QED
      BY <2>1, <2>2
  <1>3. ASSUME NEW s \in Subjects PROVE Len(d.values[s]) <= Len(b.values[s])
    <2>1. Len(b.values[s]) \in Nat /\ Len(c.values[s]) \in Nat /\ Len(d.values[s]) \in Nat
      BY StoreTypes, LenProperties
    <2>2. Len(c.values[s]) <= Len(b.values[s]) /\ Len(d.values[s]) <= Len(c.values[s])
      BY DEF Without
    <2>3. QED
      BY <2>1, <2>2
  <1>4. ASSUME NEW i \in Cache!Identities, \A e \in K \cup L : b.identity[e[1]] # i
        PROVE  d.entries[i] = b.entries[i]
    <2>1. c.entries[i] = b.entries[i]
      BY <1>4 DEF Without
    <2>2. d.entries[i] = c.entries[i]
      BY <1>1, <1>4 DEF Without
    <2>3. QED
      BY <2>1, <2>2
  <1>5. QED
    BY <1>1, <1>2, <1>3, <1>4 DEF Without

Reduced(c, d, K) ==
  c \in Cache!Caches /\ d \in Cache!Caches /\ Cache!Orders(c) /\ Without(c, d, K)

\* What is left, and what it weighs
Remains(c, d, K, S) ==
  /\ Cache!KeysIn(d, S) = Cache!KeysIn(c, S) \ K
  /\ Bytes(d, S) = Weight(Cache!SizeIn(c), Cache!KeysIn(c, S) \ K)
  /\ Bytes(c, S) = Bytes(d, S) + Weight(Cache!SizeIn(c), Cache!KeysIn(c, S) \cap K)
  /\ Bytes(d, S) \in Nat /\ Bytes(c, S) \in Nat
  /\ Weight(Cache!SizeIn(c), Cache!KeysIn(c, S) \cap K) \in Nat

LEMMA WithoutBytes ==
  ASSUME NEW c, NEW d, NEW K, Reduced(c, d, K), NEW S
  PROVE  Remains(c, d, K, S)
  <1>0. c \in Cache!Caches /\ d \in Cache!Caches /\ Cache!Orders(c) /\ Without(c, d, K)
    BY DEF Reduced
  <1>1. ASSUME NEW e \in Cache!Keys
        PROVE  Cache!SizeIn(d)[e] = IF e \in K THEN 0 ELSE Cache!SizeIn(c)[e]
    <2>1. e[1] \in Subjects /\ e[2] \in Uuids /\ e = <<e[1], e[2]>>
      BY <1>0, SizesAre
    <2>2. d.sizes[e[1]][e[2]] = IF <<e[1], e[2]>> \in K THEN 0 ELSE c.sizes[e[1]][e[2]]
      BY <1>0, <2>1 DEF Without
    <2>3. QED
      BY <1>0, <2>1, <2>2, SizesAre
  <1>2. \A e \in Cache!Keys :
          /\ e \in Cache!KeysIn(c, S) <=> e[1] \in S /\ Cache!SizeIn(c)[e] > 0
          /\ e \in Cache!KeysIn(d, S) <=> e[1] \in S /\ Cache!SizeIn(d)[e] > 0
    BY DEF Cache!KeysIn, Cache!SizeIn
  <1>3. Cache!KeysIn(d, S) \subseteq Cache!Keys /\ Cache!KeysIn(c, S) \subseteq Cache!Keys
    BY DEF Cache!KeysIn
  <1>4. Cache!KeysIn(d, S) = Cache!KeysIn(c, S) \ K
    <2>1. ASSUME NEW e \in Cache!Keys
          PROVE  e \in Cache!KeysIn(d, S) <=> e \in Cache!KeysIn(c, S) \ K
      <3>1. PICK x \in Nat, y \in Nat : x = Cache!SizeIn(c)[e] /\ y = Cache!SizeIn(d)[e]
        BY <1>0, SizesAre
      <3>2. e \in Cache!KeysIn(c, S) <=> e[1] \in S /\ x > 0
        BY <1>2, <3>1
      <3>3. e \in Cache!KeysIn(d, S) <=> e[1] \in S /\ y > 0
        BY <1>2, <3>1
      <3>4. y = IF e \in K THEN 0 ELSE x
        BY <1>1, <3>1
      <3>5. QED
        BY <3>2, <3>3, <3>4
    <2>2. QED
      BY <1>3, <2>1
  <1>5. \A e \in Cache!KeysIn(c, S) \ K : Cache!SizeIn(d)[e] = Cache!SizeIn(c)[e]
    BY <1>1, <1>3
  <1>6. Bytes(d, S) = Weight(Cache!SizeIn(c), Cache!KeysIn(c, S) \ K)
    BY <1>4, <1>5, WeightAgrees DEF Bytes
  <1>7. IsFiniteSet(Cache!KeysIn(c, S)) /\ Cache!KeysIn(c, S) \in SUBSET Cache!Keys
    BY <1>0, KeysAreFinite
  <1>8. Cache!SizeIn(c) \in [Cache!Keys -> Nat]
    BY <1>0, SizesAre
  <1>9. /\ Bytes(c, S) = Weight(Cache!SizeIn(c), Cache!KeysIn(c, S) \ K)
                           + Weight(Cache!SizeIn(c), Cache!KeysIn(c, S) \cap K)
        /\ Weight(Cache!SizeIn(c), Cache!KeysIn(c, S) \ K) \in Nat
        /\ Weight(Cache!SizeIn(c), Cache!KeysIn(c, S) \cap K) \in Nat
    BY <1>7, <1>8, WeightOfParts DEF Bytes
  <1>10. QED
    BY <1>4, <1>6, <1>9 DEF Remains

LEMMA ReducedKeys ==
  ASSUME NEW c, NEW d, NEW K, Reduced(c, d, K), NEW S
  PROVE  Cache!KeysIn(d, S) = Cache!KeysIn(c, S) \ K
  <1>1. Remains(c, d, K, S)
    BY WithoutBytes
  <1>2. QED
    BY <1>1 DEF Remains

LEMMA ReducedBytes ==
  ASSUME NEW c, NEW d, NEW K, Reduced(c, d, K), NEW S
  PROVE  Bytes(d, S) = Weight(Cache!SizeIn(c), Cache!KeysIn(c, S) \ K)
  <1>1. Remains(c, d, K, S)
    BY WithoutBytes
  <1>2. QED
    BY <1>1 DEF Remains

\* d is c without the value u of subject s, which is of size z and counted under i.
Discards(c, s, u, i, z, d) ==
  /\ d \in Cache!Caches
  /\ d.values = [c.values EXCEPT ![s] = Cache!RemoveFirst(c.values[s], u)]
  /\ d.sizes = [c.sizes EXCEPT ![s] = [c.sizes[s] EXCEPT ![u] = 0]]
  /\ d.identity = c.identity /\ d.members = c.members
  /\ d.entries = [c.entries EXCEPT ![i] = Cache!RemoveFirst(c.entries[i], <<s, u>>)]
  /\ d.identityBytes = [c.identityBytes EXCEPT ![i] = c.identityBytes[i] - z]
  /\ d.subjectBytes = [c.subjectBytes EXCEPT ![s] = c.subjectBytes[s] - z]
  /\ d.total = c.total - z

Counted(c, s, u) ==
  /\ c \in Cache!Caches /\ Cache!Orders(c) /\ c.identity[s] \in Cache!Identities
  /\ c.sizes[s][u] <= c.identityBytes[c.identity[s]] /\ c.sizes[s][u] <= c.subjectBytes[s]
  /\ c.sizes[s][u] <= c.total

LEMMA DiscardFields ==
  ASSUME NEW c, NEW s \in Subjects, NEW u \in Uuids, Counted(c, s, u)
  PROVE  Discards(c, s, u, c.identity[s], c.sizes[s][u], Cache!Discard(c, s, u))
  <1>0. USE DEF Counted
  <1>1. PICK i \in Cache!Identities, z \in Nat : i = c.identity[s] /\ z = c.sizes[s][u]
    BY StoreTypes
  <1>2. PICK v, q, zs : /\ v = Cache!RemoveFirst(c.values[s], u)
                        /\ q = Cache!RemoveFirst(c.entries[i], <<s, u>>)
                        /\ zs = [c.sizes[s] EXCEPT ![u] = 0]
    OBVIOUS
  <1>3. v \in Seq(Uuids) /\ q \in Seq(Cache!Keys) /\ zs \in [Uuids -> Nat]
    BY <1>2, StoreTypes, RemovedIs DEF Cache!Orders
  <1>4. PICK y \in Nat, x \in Nat, t \in Nat :
          y = c.identityBytes[i] - z /\ x = c.subjectBytes[s] - z /\ t = c.total - z
    BY <1>1, StoreTypes
  <1>5. PICK d : d = [c EXCEPT !.values = [c.values EXCEPT ![s] = v],
                               !.sizes = [c.sizes EXCEPT ![s] = zs],
                               !.entries = [c.entries EXCEPT ![i] = q],
                               !.identityBytes = [c.identityBytes EXCEPT ![i] = y],
                               !.subjectBytes = [c.subjectBytes EXCEPT ![s] = x],
                               !.total = t]
    OBVIOUS
  <1>6. Cache!Discard(c, s, u) = d
    BY <1>1, <1>2, <1>4, <1>5 DEF Cache!Discard, Cache!Caches
  <1>7. d \in Cache!Caches
    BY <1>3, <1>5 DEF Cache!Caches
  <1>8. /\ d.values = [c.values EXCEPT ![s] = v] /\ d.sizes = [c.sizes EXCEPT ![s] = zs]
        /\ d.identity = c.identity /\ d.members = c.members
        /\ d.entries = [c.entries EXCEPT ![i] = q]
        /\ d.identityBytes = [c.identityBytes EXCEPT ![i] = y]
        /\ d.subjectBytes = [c.subjectBytes EXCEPT ![s] = x] /\ d.total = t
    BY <1>5 DEF Cache!Caches
  <1>9. QED
    BY <1>1, <1>2, <1>4, <1>6, <1>7, <1>8 DEF Discards

\* A value is no more than what the counters count.
LEMMA SizeIsCounted ==
  ASSUME NEW c, Cache!WellFormed(c), NEW s \in Subjects, NEW u \in Uuids, NEW S, s \in S
  PROVE  /\ c.sizes[s][u] \in Nat /\ Bytes(c, S) \in Nat /\ c.sizes[s][u] <= Bytes(c, S)
         /\ Bytes(c, S) = Weight(Cache!SizeIn(c), Cache!KeysIn(c, S) \ {<<s, u>>}) + c.sizes[s][u]
         /\ Weight(Cache!SizeIn(c), Cache!KeysIn(c, S) \ {<<s, u>>}) \in Nat
  <1>1. c \in Cache!Caches /\ Cache!Orders(c)
    BY DEF Cache!WellFormed
  <1>2. PICK w, K : w = Cache!SizeIn(c) /\ K = Cache!KeysIn(c, S)
    OBVIOUS
  <1>3. /\ w \in [Cache!Keys -> Nat] /\ K \in SUBSET Cache!Keys /\ IsFiniteSet(K)
        /\ <<s, u>> \in Cache!Keys /\ w[<<s, u>>] = c.sizes[s][u]
    BY <1>1, <1>2, SizesAre, KeysAreFinite
  <1>4. /\ Weight(w, K) = Weight(w, K \ {<<s, u>>}) + Weight(w, K \cap {<<s, u>>})
        /\ Weight(w, K \ {<<s, u>>}) \in Nat
    <2>1. Weighed(w, Cache!Keys, K)
      BY <1>3 DEF Weighed
    <2>2. PICK L : L = {<<s, u>>}
      OBVIOUS
    <2>3. /\ Weight(w, K) = Weight(w, K \ L) + Weight(w, K \cap L)
          /\ Weight(w, K \ L) \in Nat
      BY <2>1, WeightSplits
    <2>4. QED
      BY <2>2, <2>3
  <1>5. Weight(w, K \cap {<<s, u>>}) = c.sizes[s][u]
    <2>1. CASE <<s, u>> \in K
      <3>1. K \cap {<<s, u>>} = {<<s, u>>}
        BY <2>1
      <3>2. QED
        BY <1>3, <3>1, WeightOfOne
    <2>2. CASE <<s, u>> \notin K
      <3>1. K \cap {<<s, u>>} = {}
        BY <2>2
      <3>2. c.sizes[s][u] = 0
        BY <1>1, <1>2, <1>3, <2>2, StoreTypes DEF Cache!KeysIn
      <3>3. QED
        BY <3>1, <3>2, WeightOfNone
    <2>3. QED
      BY <2>1, <2>2
  <1>6. c.sizes[s][u] \in Nat
    BY <1>1, StoreTypes
  <1>7. QED
    BY <1>2, <1>4, <1>5, <1>6 DEF Bytes

\* The members of an order after a removal
LEMMA OrdersWithout ==
  ASSUME NEW c, Cache!WellFormed(c), NEW d \in Cache!Caches,
         NEW s \in Subjects, NEW u \in Uuids, NEW i \in Cache!Identities, i = c.identity[s],
         Without(c, d, {<<s, u>>}),
         d.values = [c.values EXCEPT ![s] = Cache!RemoveFirst(c.values[s], u)],
         d.entries = [c.entries EXCEPT ![i] = Cache!RemoveFirst(c.entries[i], <<s, u>>)]
  PROVE  Cache!Orders(d)
  <1>1. c \in Cache!Caches /\ Cache!Orders(c) /\ Cache!Members(c)
    BY DEF Cache!WellFormed
  <1>2. /\ \A t \in Subjects : c.values[t] \in Seq(Uuids) /\ Cache!IsInjective(c.values[t])
        /\ \A j \in Cache!Identities :
             c.entries[j] \in Seq(Cache!Keys) /\ Cache!IsInjective(c.entries[j])
        /\ DOMAIN c.values = Subjects /\ DOMAIN c.entries = Cache!Identities
    BY <1>1, StoreTypes DEF Cache!Orders
  <1>3. PICK v, q : /\ v = Cache!RemoveFirst(c.values[s], u)
                    /\ q = Cache!RemoveFirst(c.entries[i], <<s, u>>)
    OBVIOUS
  <1>4. /\ Cache!IsInjective(v) /\ Cache!ToSet(v) = Cache!ToSet(c.values[s]) \ {u}
        /\ \A a, b : Cache!Older(v, a, b) <=> Cache!Older(c.values[s], a, b) /\ a # u /\ b # u
    BY <1>2, <1>3, RemovedIs
  <1>5. /\ Cache!IsInjective(q) /\ Cache!ToSet(q) = Cache!ToSet(c.entries[i]) \ {<<s, u>>}
        /\ \A a, b : Cache!Older(q, a, b)
                       <=> Cache!Older(c.entries[i], a, b) /\ a # <<s, u>> /\ b # <<s, u>>
    <2>1. PICK f, e : f \in Seq(Cache!Keys) /\ f = c.entries[i] /\ e = <<s, u>>
      BY <1>2
    <2>2. f \in Seq(Cache!Keys) /\ Cache!IsInjective(f)
      BY <1>2, <2>1
    <2>3. PICK g : g = Cache!RemoveFirst(f, e)
      OBVIOUS
    <2>4. /\ Cache!IsInjective(g) /\ Cache!ToSet(g) = Cache!ToSet(f) \ {e}
          /\ \A a, b : Cache!Older(g, a, b) <=> Cache!Older(f, a, b) /\ a # e /\ b # e
      BY <2>2, <2>3, RemovedIs
    <2>5. q = g
      BY <1>3, <2>1, <2>3
    <2>6. QED
      BY <2>1, <2>4, <2>5
  <1>6. /\ \A t \in Subjects : d.values[t] = IF t = s THEN v ELSE c.values[t]
        /\ \A j \in Cache!Identities : d.entries[j] = IF j = i THEN q ELSE c.entries[j]
        /\ d.identity = c.identity /\ d.members = c.members
    BY <1>2, <1>3 DEF Without
  <1>7. \A t \in Subjects, w \in Uuids :
          d.sizes[t][w] = IF t = s /\ w = u THEN 0 ELSE c.sizes[t][w]
    BY DEF Without
  <1>8. ASSUME NEW t \in Subjects
        PROVE  /\ Cache!IsInjective(d.values[t])
               /\ \A w \in Uuids : w \in Cache!ToSet(d.values[t]) <=> d.sizes[t][w] > 0
    <2>1. \A w \in Uuids : w \in Cache!ToSet(c.values[t]) <=> c.sizes[t][w] > 0
      BY <1>1 DEF Cache!Orders
    <2>2. CASE t = s
      BY <1>4, <1>6, <1>7, <2>1, <2>2
    <2>3. CASE t # s
      <3>1. d.values[t] = c.values[t]
        BY <1>6, <2>3
      <3>2. \A w \in Uuids : d.sizes[t][w] = c.sizes[t][w]
        BY <1>7, <2>3
      <3>3. Cache!IsInjective(c.values[t])
        BY <1>2
      <3>4. QED
        BY <2>1, <3>1, <3>2, <3>3
    <2>4. QED
      BY <2>2, <2>3
  <1>9. ASSUME NEW j \in Cache!Identities
        PROVE  /\ Cache!IsInjective(d.entries[j])
               /\ Cache!ToSet(d.entries[j]) = Cache!KeysIn(d, d.members[j])
    <2>1. Cache!ToSet(c.entries[j]) = Cache!KeysIn(c, c.members[j])
      BY <1>1 DEF Cache!Orders
    <2>2. Cache!KeysIn(d, d.members[j]) = Cache!KeysIn(c, c.members[j]) \ {<<s, u>>}
      <3>1. PICK M, K : M = c.members[j] /\ K = {<<s, u>>}
        OBVIOUS
      <3>2. Reduced(c, d, K) /\ d.members[j] = M
        BY <1>1, <1>6, <3>1 DEF Reduced
      <3>3. Cache!KeysIn(d, M) = Cache!KeysIn(c, M) \ K
        BY <3>2, ReducedKeys
      <3>4. QED
        BY <3>1, <3>2, <3>3
    <2>3. CASE j = i
      BY <1>5, <1>6, <2>1, <2>2, <2>3
    <2>4. CASE j # i
      <3>1. s \notin c.members[j]
        BY <1>1, <2>4 DEF Cache!Members
      <3>2. <<s, u>> \notin Cache!KeysIn(c, c.members[j])
        BY <3>1 DEF Cache!KeysIn
      <3>3. Cache!KeysIn(d, d.members[j]) = Cache!KeysIn(c, c.members[j])
        BY <2>2, <3>2
      <3>4. d.entries[j] = c.entries[j]
        BY <1>6, <2>4
      <3>5. QED
        BY <1>2, <2>1, <3>3, <3>4
    <2>5. QED
      BY <2>3, <2>4
  <1>10. ASSUME NEW t \in Subjects, d.identity[t] # NoUser, NEW x \in Uuids, NEW y \in Uuids
         PROVE  Cache!Older(d.entries[d.identity[t]], <<t, x>>, <<t, y>>)
                  <=> Cache!Older(d.values[t], x, y)
    <2>1. c.identity[t] \in Cache!Identities /\ d.identity[t] = c.identity[t]
      BY <1>1, <1>6, <1>10, StoreTypes
    <2>2. Cache!Older(c.entries[c.identity[t]], <<t, x>>, <<t, y>>)
            <=> Cache!Older(c.values[t], x, y)
      BY <1>1, <1>6, <1>10 DEF Cache!Orders
    <2>3. CASE t = s
      <3>1. Cache!Older(q, <<s, x>>, <<s, y>>)
              <=> Cache!Older(c.entries[i], <<s, x>>, <<s, y>>) /\ x # u /\ y # u
        BY <1>5
      <3>2. QED
        BY <1>4, <1>6, <2>1, <2>2, <2>3, <3>1
    <2>4. CASE t # s
      <3>1. Cache!Older(q, <<t, x>>, <<t, y>>) <=> Cache!Older(c.entries[i], <<t, x>>, <<t, y>>)
        BY <1>5, <2>4
      <3>2. QED
        BY <1>6, <2>1, <2>2, <2>4, <3>1
    <2>5. QED
      BY <2>3, <2>4
  <1>11. QED
    BY <1>8, <1>9, <1>10 DEF Cache!Orders

LEMMA DiscardKeeps ==
  ASSUME NEW c, Cache!WellFormed(c), NEW s \in Subjects, NEW u \in Uuids, c.identity[s] # NoUser
  PROVE  /\ Cache!WellFormed(Cache!Discard(c, s, u))
         /\ Without(c, Cache!Discard(c, s, u), {<<s, u>>})
  <1>1. c \in Cache!Caches /\ Cache!Orders(c) /\ Cache!Members(c) /\ Cache!Counters(c)
    BY DEF Cache!WellFormed
  <1>2. PICK i \in Cache!Identities : i = c.identity[s]
    BY <1>1, StoreTypes
  <1>3. s \in c.members[i] /\ c.members[i] \in SUBSET Subjects
    BY <1>1, <1>2, StoreTypes DEF Cache!Members
  <1>4. PICK z \in Nat : z = c.sizes[s][u]
    BY <1>1, StoreTypes
  <1>5. /\ c.subjectBytes[s] = Bytes(c, {s}) /\ c.identityBytes[i] = Bytes(c, c.members[i])
        /\ c.total = Bytes(c, Subjects)
    BY <1>1, CountersAre
  <1>6. z <= c.subjectBytes[s] /\ z <= c.identityBytes[i] /\ z <= c.total
    <2>1. PICK S : S = {s}
      OBVIOUS
    <2>2. z <= Bytes(c, S)
      BY <1>4, <2>1, SizeIsCounted
    <2>3. z <= Bytes(c, c.members[i])
      BY <1>3, <1>4, SizeIsCounted
    <2>4. z <= Bytes(c, Subjects)
      BY <1>4, SizeIsCounted
    <2>5. QED
      BY <1>5, <2>1, <2>2, <2>3, <2>4
  <1>7. PICK d : d = Cache!Discard(c, s, u)
    OBVIOUS
  <1>8. /\ d \in Cache!Caches
        /\ d.values = [c.values EXCEPT ![s] = Cache!RemoveFirst(c.values[s], u)]
        /\ d.sizes = [c.sizes EXCEPT ![s] = [c.sizes[s] EXCEPT ![u] = 0]]
        /\ d.identity = c.identity /\ d.members = c.members
        /\ d.entries = [c.entries EXCEPT ![i] = Cache!RemoveFirst(c.entries[i], <<s, u>>)]
        /\ d.identityBytes = [c.identityBytes EXCEPT ![i] = c.identityBytes[i] - z]
        /\ d.subjectBytes = [c.subjectBytes EXCEPT ![s] = c.subjectBytes[s] - z]
        /\ d.total = c.total - z
    <2>1. Counted(c, s, u)
      BY <1>1, <1>2, <1>4, <1>6 DEF Counted
    <2>2. Discards(c, s, u, i, z, d)
      BY <1>2, <1>4, <1>7, <2>1, DiscardFields
    <2>3. QED
      BY <2>2 DEF Discards
  <1>9. Without(c, d, {<<s, u>>})
    <2>1. \A t \in Subjects, w \in Uuids :
            d.sizes[t][w] = IF <<t, w>> \in {<<s, u>>} THEN 0 ELSE c.sizes[t][w]
      <3>1. c.sizes \in [Subjects -> [Uuids -> Nat]]
        BY <1>1, StoreTypes
      <3>2. d.sizes = [c.sizes EXCEPT ![s] = [c.sizes[s] EXCEPT ![u] = 0]]
        BY <1>8
      <3>3. QED
        BY <3>1, <3>2
    <2>2. ASSUME NEW t \in Subjects PROVE Len(d.values[t]) <= Len(c.values[t])
      <3>1. c.values[t] \in Seq(Uuids) /\ Cache!IsInjective(c.values[t]) /\ Len(c.values[t]) \in Nat
        BY <1>1, StoreTypes, LenProperties DEF Cache!Orders
      <3>2. c.values \in [Subjects -> Seq(Uuids)]
        BY <1>1, StoreTypes
      <3>3. CASE t = s
        <4>1. d.values[t] = Cache!RemoveFirst(c.values[t], u)
          BY <1>8, <3>3, <3>2
        <4>2. QED
          BY <3>1, <4>1, RemovedIs
      <3>4. CASE t # s
        BY <1>8, <3>1, <3>4
      <3>5. QED
        BY <3>3, <3>4
    <2>3. ASSUME NEW j \in Cache!Identities, \A e \in {<<s, u>>} : c.identity[e[1]] # j
          PROVE  d.entries[j] = c.entries[j]
      BY <1>2, <1>8, <2>3
    <2>4. QED
      BY <1>8, <2>1, <2>2, <2>3 DEF Without
  <1>10. Reduced(c, d, {<<s, u>>})
    BY <1>1, <1>8, <1>9 DEF Reduced
  <1>11. Cache!Orders(d)
    BY <1>2, <1>8, <1>9, OrdersWithout
  <1>12. Cache!Members(d)
    <2>1. ASSUME NEW t \in Subjects, d.identity[t] = NoUser
          PROVE  Cache!KeysIn(d, {t}) = {}
      <3>1. Cache!KeysIn(c, {t}) = {}
        BY <1>1, <1>8, <2>1 DEF Cache!Members
      <3>2. QED
        <4>1. PICK M : M = {t}
          OBVIOUS
        <4>2. Cache!KeysIn(d, M) = Cache!KeysIn(c, M) \ {<<s, u>>}
          BY <1>10, ReducedKeys
        <4>3. QED
          BY <3>1, <4>1, <4>2
    <2>2. QED
      BY <1>1, <1>8, <2>1 DEF Cache!Members
  <1>13. ASSUME NEW S
         PROVE  Bytes(d, S) = IF s \in S THEN Bytes(c, S) - z ELSE Bytes(c, S)
    <2>1. Bytes(d, S) = Weight(Cache!SizeIn(c), Cache!KeysIn(c, S) \ {<<s, u>>})
      BY <1>10, ReducedBytes
    <2>2. CASE s \in S
      BY <1>4, <2>1, <2>2, SizeIsCounted
    <2>3. CASE s \notin S
      <3>1. Cache!KeysIn(c, S) \ {<<s, u>>} = Cache!KeysIn(c, S)
        BY <2>3 DEF Cache!KeysIn
      <3>2. QED
        BY <2>1, <2>3, <3>1 DEF Bytes
    <2>4. QED
      BY <2>2, <2>3
  <1>14. Cache!Counters(d)
    <2>1. ASSUME NEW t \in Subjects PROVE d.subjectBytes[t] = Bytes(d, {t})
      <3>1. c.subjectBytes[t] = Bytes(c, {t})
        BY <1>1, CountersAre
      <3>2. d.subjectBytes[t] = IF t = s THEN c.subjectBytes[t] - z ELSE c.subjectBytes[t]
        <4>1. c.subjectBytes \in [Subjects -> Nat]
          BY <1>1, StoreTypes
        <4>2. d.subjectBytes = [c.subjectBytes EXCEPT ![s] = c.subjectBytes[s] - z]
          BY <1>8
        <4>3. QED
          BY <4>1, <4>2
      <3>3. QED
        BY <1>13, <3>1, <3>2
    <2>2. ASSUME NEW j \in Cache!Identities PROVE d.identityBytes[j] = Bytes(d, d.members[j])
      <3>1. c.identityBytes[j] = Bytes(c, c.members[j])
        BY <1>1, CountersAre
      <3>2. d.identityBytes[j] = IF j = i THEN c.identityBytes[j] - z ELSE c.identityBytes[j]
        <4>1. c.identityBytes \in [Cache!Identities -> Nat]
          BY <1>1, StoreTypes
        <4>2. d.identityBytes = [c.identityBytes EXCEPT ![i] = c.identityBytes[i] - z]
          BY <1>8
        <4>3. QED
          BY <4>1, <4>2
      <3>3. s \in c.members[j] <=> j = i
        BY <1>1, <1>2 DEF Cache!Members
      <3>4. QED
        BY <1>8, <1>13, <3>1, <3>2, <3>3
    <2>3. d.total = Bytes(d, Subjects)
      BY <1>5, <1>8, <1>13
    <2>4. QED
      BY <2>1, <2>2, <2>3, CountersAre
  <1>15. QED
    BY <1>7, <1>8, <1>9, <1>11, <1>12, <1>14 DEF Cache!WellFormed

\* What a loop of discards goes through
DiscardSteps(t, c, q, N) ==
  t[0] = c /\ \A n \in 1..N : t[n] = Cache!Discard(t[n - 1], q[n][1], q[n][2])

LEMMA DiscardLoop ==
  ASSUME NEW c, NEW q, Len(q) \in Nat
  PROVE  \E t : DiscardSteps(t, c, q, Len(q)) /\ Cache!DiscardAll(c, q) = t[Len(q)]
  <1>1. PICK N \in Nat : N = Len(q)
    OBVIOUS
  <1>2. DEFINE Eq(t) == t = [n \in 0..N |-> IF n = 0 THEN c
                                            ELSE Cache!Discard(t[n - 1], q[n][1], q[n][2])]
               S == {k \in Nat : \E r : DiscardSteps(r, c, q, k)}
  <1>3. 0 \in S
    <2>1. DiscardSteps([n \in 0..0 |-> c], c, q, 0)
      BY DEF DiscardSteps
    <2>2. QED
      BY <2>1
  <1>4. ASSUME NEW k \in Nat, k \in S PROVE k + 1 \in S
    <2>1. PICK r : DiscardSteps(r, c, q, k)
      BY <1>4
    <2>2. PICK x : x = Cache!Discard(r[k], q[k + 1][1], q[k + 1][2])
      OBVIOUS
    <2>3. PICK p : p = [n \in 0..(k + 1) |-> IF n = k + 1 THEN x ELSE r[n]]
      OBVIOUS
    <2>4. /\ p[0] = c /\ p[k + 1] = x /\ p[k] = r[k]
          /\ \A n \in 1..k : p[n] = r[n] /\ p[n - 1] = r[n - 1]
      BY <2>1, <2>3 DEF DiscardSteps
    <2>5. ASSUME NEW n \in 1..(k + 1) PROVE p[n] = Cache!Discard(p[n - 1], q[n][1], q[n][2])
      <3>1. CASE n = k + 1
        BY <2>2, <2>4, <3>1
      <3>2. CASE n \in 1..k
        BY <2>1, <2>4, <3>2 DEF DiscardSteps
      <3>3. QED
        BY <3>1, <3>2
    <2>6. DiscardSteps(p, c, q, k + 1)
      BY <2>4, <2>5 DEF DiscardSteps
    <2>7. QED
      BY <2>6
  <1>5. N \in S
    <2>1. HIDE DEF S
    <2>2. QED
      BY <1>3, <1>4, FromZero
  <1>6. PICK r : DiscardSteps(r, c, q, N)
    BY <1>5
  <1>7. PICK t : t = [n \in 0..N |-> r[n]]
    OBVIOUS
  <1>8. \A n \in 0..N : t[n] = IF n = 0 THEN c ELSE Cache!Discard(t[n - 1], q[n][1], q[n][2])
    <2>1. \A n \in 0..N : t[n] = r[n]
      BY <1>7
    <2>2. \A n \in 1..N : n - 1 \in 0..N /\ n \in 0..N
      OBVIOUS
    <2>3. \A n \in 1..N : r[n] = Cache!Discard(r[n - 1], q[n][1], q[n][2])
      BY <1>6 DEF DiscardSteps
    <2>4. \A n \in 1..N : t[n] = Cache!Discard(t[n - 1], q[n][1], q[n][2])
      BY <2>1, <2>2, <2>3
    <2>5. t[0] = c
      BY <1>6, <2>1 DEF DiscardSteps
    <2>6. QED
      BY <2>4, <2>5
  <1>9. Eq(t)
    BY <1>7, <1>8
  <1>10. DEFINE a == CHOOSE s : Eq(s)
  <1>11. Cache!DiscardAll(c, q) = a[N]
    BY <1>1 DEF Cache!DiscardAll, Cache!After
  <1>12. Eq(a)
    BY <1>9
  <1>13. PICK b : b = a
    OBVIOUS
  <1>14. b = [n \in 0..N |-> IF n = 0 THEN c ELSE Cache!Discard(b[n - 1], q[n][1], q[n][2])]
    BY <1>12, <1>13
  <1>15. DiscardSteps(b, c, q, N)
    BY <1>14 DEF DiscardSteps
  <1>16. QED
    BY <1>1, <1>11, <1>13, <1>15

\* ... of trims
TrimSteps(t, c, q, N) ==
  t[0] = c /\ \A n \in 1..N : t[n] = Cache!Trim(t[n - 1], q[n])

LEMMA TrimLoop ==
  ASSUME NEW c, NEW q, Len(q) \in Nat
  PROVE  \E t : TrimSteps(t, c, q, Len(q)) /\ Cache!After(Cache!Trim, c, q) = t[Len(q)]
  <1>1. PICK N \in Nat : N = Len(q)
    OBVIOUS
  <1>2. DEFINE Eq(t) == t = [n \in 0..N |-> IF n = 0 THEN c
                                            ELSE Cache!Trim(t[n - 1], q[n])]
               S == {k \in Nat : \E r : TrimSteps(r, c, q, k)}
  <1>3. 0 \in S
    <2>1. TrimSteps([n \in 0..0 |-> c], c, q, 0)
      BY DEF TrimSteps
    <2>2. QED
      BY <2>1
  <1>4. ASSUME NEW k \in Nat, k \in S PROVE k + 1 \in S
    <2>1. PICK r : TrimSteps(r, c, q, k)
      BY <1>4
    <2>2. PICK x : x = Cache!Trim(r[k], q[k + 1])
      OBVIOUS
    <2>3. PICK p : p = [n \in 0..(k + 1) |-> IF n = k + 1 THEN x ELSE r[n]]
      OBVIOUS
    <2>4. /\ p[0] = c /\ p[k + 1] = x /\ p[k] = r[k]
          /\ \A n \in 1..k : p[n] = r[n] /\ p[n - 1] = r[n - 1]
      BY <2>1, <2>3 DEF TrimSteps
    <2>5. ASSUME NEW n \in 1..(k + 1) PROVE p[n] = Cache!Trim(p[n - 1], q[n])
      <3>1. CASE n = k + 1
        BY <2>2, <2>4, <3>1
      <3>2. CASE n \in 1..k
        BY <2>1, <2>4, <3>2 DEF TrimSteps
      <3>3. QED
        BY <3>1, <3>2
    <2>6. TrimSteps(p, c, q, k + 1)
      BY <2>4, <2>5 DEF TrimSteps
    <2>7. QED
      BY <2>6
  <1>5. N \in S
    <2>1. HIDE DEF S
    <2>2. QED
      BY <1>3, <1>4, FromZero
  <1>6. PICK r : TrimSteps(r, c, q, N)
    BY <1>5
  <1>7. PICK t : t = [n \in 0..N |-> r[n]]
    OBVIOUS
  <1>8. \A n \in 0..N : t[n] = IF n = 0 THEN c ELSE Cache!Trim(t[n - 1], q[n])
    <2>1. \A n \in 0..N : t[n] = r[n]
      BY <1>7
    <2>2. \A n \in 1..N : n - 1 \in 0..N /\ n \in 0..N
      OBVIOUS
    <2>3. \A n \in 1..N : r[n] = Cache!Trim(r[n - 1], q[n])
      BY <1>6 DEF TrimSteps
    <2>4. \A n \in 1..N : t[n] = Cache!Trim(t[n - 1], q[n])
      BY <2>1, <2>2, <2>3
    <2>5. t[0] = c
      BY <1>6, <2>1 DEF TrimSteps
    <2>6. QED
      BY <2>4, <2>5
  <1>9. Eq(t)
    BY <1>7, <1>8
  <1>10. DEFINE a == CHOOSE s : Eq(s)
  <1>11. Cache!After(Cache!Trim, c, q) = a[N]
    BY <1>1 DEF Cache!After
  <1>12. Eq(a)
    BY <1>9
  <1>13. PICK b : b = a
    OBVIOUS
  <1>14. b = [n \in 0..N |-> IF n = 0 THEN c ELSE Cache!Trim(b[n - 1], q[n])]
    BY <1>12, <1>13
  <1>15. TrimSteps(b, c, q, N)
    BY <1>14 DEF TrimSteps
  <1>16. QED
    BY <1>1, <1>11, <1>13, <1>15

\* ... of values that are no longer shown
PruneStep(d, s, u, allowed) == IF u \in allowed THEN d ELSE Cache!Discard(d, s, u)

PruneSteps(t, c, s, q, allowed, N) ==
  t[0] = c /\ \A n \in 1..N : t[n] = PruneStep(t[n - 1], s, q[n], allowed)

LEMMA PruneLoop ==
  ASSUME NEW c, NEW s, NEW allowed, NEW q, q = c.values[s], Len(q) \in Nat
  PROVE  \E t : PruneSteps(t, c, s, q, allowed, Len(q)) /\ Cache!Pruned(c, s, allowed) = t[Len(q)]
  <1>1. PICK N \in Nat : N = Len(q)
    OBVIOUS
  <1>2. DEFINE Eq(t) == t = [n \in 0..N |-> IF n = 0 THEN c
                                            ELSE PruneStep(t[n - 1], s, q[n], allowed)]
               S == {k \in Nat : \E r : PruneSteps(r, c, s, q, allowed, k)}
  <1>3. 0 \in S
    <2>1. PruneSteps([n \in 0..0 |-> c], c, s, q, allowed, 0)
      BY DEF PruneSteps
    <2>2. QED
      BY <2>1
  <1>4. ASSUME NEW k \in Nat, k \in S PROVE k + 1 \in S
    <2>1. PICK r : PruneSteps(r, c, s, q, allowed, k)
      BY <1>4
    <2>2. PICK x : x = PruneStep(r[k], s, q[k + 1], allowed)
      OBVIOUS
    <2>3. PICK p : p = [n \in 0..(k + 1) |-> IF n = k + 1 THEN x ELSE r[n]]
      OBVIOUS
    <2>4. /\ p[0] = c /\ p[k + 1] = x /\ p[k] = r[k]
          /\ \A n \in 1..k : p[n] = r[n] /\ p[n - 1] = r[n - 1]
      BY <2>1, <2>3 DEF PruneSteps
    <2>5. ASSUME NEW n \in 1..(k + 1) PROVE p[n] = PruneStep(p[n - 1], s, q[n], allowed)
      <3>1. CASE n = k + 1
        BY <2>2, <2>4, <3>1
      <3>2. CASE n \in 1..k
        BY <2>1, <2>4, <3>2 DEF PruneSteps
      <3>3. QED
        BY <3>1, <3>2
    <2>6. PruneSteps(p, c, s, q, allowed, k + 1)
      BY <2>4, <2>5 DEF PruneSteps
    <2>7. QED
      BY <2>6
  <1>5. N \in S
    <2>1. HIDE DEF S
    <2>2. QED
      BY <1>3, <1>4, FromZero
  <1>6. PICK r : PruneSteps(r, c, s, q, allowed, N)
    BY <1>5
  <1>7. PICK t : t = [n \in 0..N |-> r[n]]
    OBVIOUS
  <1>8. \A n \in 0..N : t[n] = IF n = 0 THEN c ELSE PruneStep(t[n - 1], s, q[n], allowed)
    <2>1. \A n \in 0..N : t[n] = r[n]
      BY <1>7
    <2>2. \A n \in 1..N : n - 1 \in 0..N /\ n \in 0..N
      OBVIOUS
    <2>3. \A n \in 1..N : r[n] = PruneStep(r[n - 1], s, q[n], allowed)
      BY <1>6 DEF PruneSteps
    <2>4. \A n \in 1..N : t[n] = PruneStep(t[n - 1], s, q[n], allowed)
      BY <2>1, <2>2, <2>3
    <2>5. t[0] = c
      BY <1>6, <2>1 DEF PruneSteps
    <2>6. QED
      BY <2>4, <2>5
  <1>9. Eq(t)
    BY <1>7, <1>8
  <1>10. DEFINE a == CHOOSE x : Eq(x)
  <1>11. Cache!Pruned(c, s, allowed) = a[N]
    BY <1>1 DEF PruneStep, Cache!Pruned, Cache!After
  <1>12. Eq(a)
    BY <1>9
  <1>13. PICK b : b = a
    OBVIOUS
  <1>14. b = [n \in 0..N |-> IF n = 0 THEN c ELSE PruneStep(b[n - 1], s, q[n], allowed)]
    BY <1>12, <1>13
  <1>15. PruneSteps(b, c, s, q, allowed, N)
    BY <1>14 DEF PruneSteps
  <1>16. QED
    BY <1>1, <1>11, <1>13, <1>15

\* ... of events
StoreStep(d, s, e, allowed) == IF e[1] \in allowed THEN Cache!Stored(d, s, e[1], e[2]) ELSE d

StoreSteps(t, c, s, q, allowed, N) ==
  t[0] = c /\ \A n \in 1..N : t[n] = StoreStep(t[n - 1], s, q[n], allowed)

LEMMA StoreLoop ==
  ASSUME NEW c, NEW s, NEW allowed, NEW q, Len(q) \in Nat
  PROVE  \E t : /\ StoreSteps(t, c, s, q, allowed, Len(q))
               /\ Cache!StoredAll(c, s, q, allowed) = t[Len(q)]
  <1>1. PICK N \in Nat : N = Len(q)
    OBVIOUS
  <1>2. DEFINE Eq(t) == t = [n \in 0..N |-> IF n = 0 THEN c
                                            ELSE StoreStep(t[n - 1], s, q[n], allowed)]
               S == {k \in Nat : \E r : StoreSteps(r, c, s, q, allowed, k)}
  <1>3. 0 \in S
    <2>1. StoreSteps([n \in 0..0 |-> c], c, s, q, allowed, 0)
      BY DEF StoreSteps
    <2>2. QED
      BY <2>1
  <1>4. ASSUME NEW k \in Nat, k \in S PROVE k + 1 \in S
    <2>1. PICK r : StoreSteps(r, c, s, q, allowed, k)
      BY <1>4
    <2>2. PICK x : x = StoreStep(r[k], s, q[k + 1], allowed)
      OBVIOUS
    <2>3. PICK p : p = [n \in 0..(k + 1) |-> IF n = k + 1 THEN x ELSE r[n]]
      OBVIOUS
    <2>4. /\ p[0] = c /\ p[k + 1] = x /\ p[k] = r[k]
          /\ \A n \in 1..k : p[n] = r[n] /\ p[n - 1] = r[n - 1]
      BY <2>1, <2>3 DEF StoreSteps
    <2>5. ASSUME NEW n \in 1..(k + 1) PROVE p[n] = StoreStep(p[n - 1], s, q[n], allowed)
      <3>1. CASE n = k + 1
        BY <2>2, <2>4, <3>1
      <3>2. CASE n \in 1..k
        BY <2>1, <2>4, <3>2 DEF StoreSteps
      <3>3. QED
        BY <3>1, <3>2
    <2>6. StoreSteps(p, c, s, q, allowed, k + 1)
      BY <2>4, <2>5 DEF StoreSteps
    <2>7. QED
      BY <2>6
  <1>5. N \in S
    <2>1. HIDE DEF S
    <2>2. QED
      BY <1>3, <1>4, FromZero
  <1>6. PICK r : StoreSteps(r, c, s, q, allowed, N)
    BY <1>5
  <1>7. PICK t : t = [n \in 0..N |-> r[n]]
    OBVIOUS
  <1>8. \A n \in 0..N : t[n] = IF n = 0 THEN c ELSE StoreStep(t[n - 1], s, q[n], allowed)
    <2>1. \A n \in 0..N : t[n] = r[n]
      BY <1>7
    <2>2. \A n \in 1..N : n - 1 \in 0..N /\ n \in 0..N
      OBVIOUS
    <2>3. \A n \in 1..N : r[n] = StoreStep(r[n - 1], s, q[n], allowed)
      BY <1>6 DEF StoreSteps
    <2>4. \A n \in 1..N : t[n] = StoreStep(t[n - 1], s, q[n], allowed)
      BY <2>1, <2>2, <2>3
    <2>5. t[0] = c
      BY <1>6, <2>1 DEF StoreSteps
    <2>6. QED
      BY <2>4, <2>5
  <1>9. Eq(t)
    BY <1>7, <1>8
  <1>10. DEFINE a == CHOOSE x : Eq(x)
  <1>11. Cache!StoredAll(c, s, q, allowed) = a[N]
    BY <1>1 DEF StoreStep, Cache!StoredAll, Cache!After
  <1>12. Eq(a)
    BY <1>9
  <1>13. PICK b : b = a
    OBVIOUS
  <1>14. b = [n \in 0..N |-> IF n = 0 THEN c ELSE StoreStep(b[n - 1], s, q[n], allowed)]
    BY <1>12, <1>13
  <1>15. StoreSteps(b, c, s, q, allowed, N)
    BY <1>14 DEF StoreSteps
  <1>16. QED
    BY <1>1, <1>11, <1>13, <1>15

\* ... of subjects that are cleared
ClearSteps(t, c, q, N) ==
  t[0] = c /\ \A n \in 1..N : t[n] = Cache!Cleared(t[n - 1], q[n])

LEMMA ClearLoop ==
  ASSUME NEW c, NEW q, Len(q) \in Nat
  PROVE  \E t : ClearSteps(t, c, q, Len(q)) /\ Cache!After(Cache!Cleared, c, q) = t[Len(q)]
  <1>1. PICK N \in Nat : N = Len(q)
    OBVIOUS
  <1>2. DEFINE Eq(t) == t = [n \in 0..N |-> IF n = 0 THEN c
                                            ELSE Cache!Cleared(t[n - 1], q[n])]
               S == {k \in Nat : \E r : ClearSteps(r, c, q, k)}
  <1>3. 0 \in S
    <2>1. ClearSteps([n \in 0..0 |-> c], c, q, 0)
      BY DEF ClearSteps
    <2>2. QED
      BY <2>1
  <1>4. ASSUME NEW k \in Nat, k \in S PROVE k + 1 \in S
    <2>1. PICK r : ClearSteps(r, c, q, k)
      BY <1>4
    <2>2. PICK x : x = Cache!Cleared(r[k], q[k + 1])
      OBVIOUS
    <2>3. PICK p : p = [n \in 0..(k + 1) |-> IF n = k + 1 THEN x ELSE r[n]]
      OBVIOUS
    <2>4. /\ p[0] = c /\ p[k + 1] = x /\ p[k] = r[k]
          /\ \A n \in 1..k : p[n] = r[n] /\ p[n - 1] = r[n - 1]
      BY <2>1, <2>3 DEF ClearSteps
    <2>5. ASSUME NEW n \in 1..(k + 1) PROVE p[n] = Cache!Cleared(p[n - 1], q[n])
      <3>1. CASE n = k + 1
        BY <2>2, <2>4, <3>1
      <3>2. CASE n \in 1..k
        BY <2>1, <2>4, <3>2 DEF ClearSteps
      <3>3. QED
        BY <3>1, <3>2
    <2>6. ClearSteps(p, c, q, k + 1)
      BY <2>4, <2>5 DEF ClearSteps
    <2>7. QED
      BY <2>6
  <1>5. N \in S
    <2>1. HIDE DEF S
    <2>2. QED
      BY <1>3, <1>4, FromZero
  <1>6. PICK r : ClearSteps(r, c, q, N)
    BY <1>5
  <1>7. PICK t : t = [n \in 0..N |-> r[n]]
    OBVIOUS
  <1>8. \A n \in 0..N : t[n] = IF n = 0 THEN c ELSE Cache!Cleared(t[n - 1], q[n])
    <2>1. \A n \in 0..N : t[n] = r[n]
      BY <1>7
    <2>2. \A n \in 1..N : n - 1 \in 0..N /\ n \in 0..N
      OBVIOUS
    <2>3. \A n \in 1..N : r[n] = Cache!Cleared(r[n - 1], q[n])
      BY <1>6 DEF ClearSteps
    <2>4. \A n \in 1..N : t[n] = Cache!Cleared(t[n - 1], q[n])
      BY <2>1, <2>2, <2>3
    <2>5. t[0] = c
      BY <1>6, <2>1 DEF ClearSteps
    <2>6. QED
      BY <2>4, <2>5
  <1>9. Eq(t)
    BY <1>7, <1>8
  <1>10. DEFINE a == CHOOSE s : Eq(s)
  <1>11. Cache!After(Cache!Cleared, c, q) = a[N]
    BY <1>1 DEF Cache!After
  <1>12. Eq(a)
    BY <1>9
  <1>13. PICK b : b = a
    OBVIOUS
  <1>14. b = [n \in 0..N |-> IF n = 0 THEN c ELSE Cache!Cleared(b[n - 1], q[n])]
    BY <1>12, <1>13
  <1>15. ClearSteps(b, c, q, N)
    BY <1>14 DEF ClearSteps
  <1>16. QED
    BY <1>1, <1>11, <1>13, <1>15

\* Discards keep orders and counters, and take away what they are told to.
LEMMA DiscardAllKeeps ==
  ASSUME NEW c, Cache!WellFormed(c), NEW q \in Seq(Cache!Keys),
         \A k \in 1..Len(q) : c.identity[q[k][1]] # NoUser
  PROVE  /\ Cache!WellFormed(Cache!DiscardAll(c, q))
         /\ Without(c, Cache!DiscardAll(c, q), Cache!ToSet(q))
  <1>1. PICK N \in Nat : N = Len(q) /\ DOMAIN q = 1..N
    BY LenProperties
  <1>2. PICK t : DiscardSteps(t, c, q, N) /\ Cache!DiscardAll(c, q) = t[N]
    BY <1>1, DiscardLoop
  <1>3. DEFINE Taken(n) == {q[k] : k \in 1..n}
               Right(n) == Cache!WellFormed(t[n]) /\ Without(c, t[n], Taken(n))
               S == {n \in Nat : n <= N => Right(n)}
  <1>4. c \in Cache!Caches
    BY DEF Cache!WellFormed
  <1>5. 0 \in S
    <2>1. t[0] = c /\ Taken(0) = {}
      BY <1>2 DEF DiscardSteps
    <2>2. Without(c, c, {})
      <3>1. \A s \in Subjects : Len(c.values[s]) \in Nat
        BY <1>4, StoreTypes, LenProperties
      <3>2. QED
        BY <3>1 DEF Without
    <2>3. QED
      BY <2>1, <2>2
  <1>6. ASSUME NEW n \in Nat, n \in S PROVE n + 1 \in S
    <2>1. SUFFICES ASSUME n + 1 <= N PROVE Right(n + 1)
      OBVIOUS
    <2>2. Cache!WellFormed(t[n]) /\ Without(c, t[n], Taken(n))
      BY <1>6, <2>1
    <2>3. n + 1 \in 1..N /\ n + 1 \in 1..Len(q) /\ n + 1 - 1 = n
      BY <1>1, <2>1
    <2>4. t[n + 1] = Cache!Discard(t[n], q[n + 1][1], q[n + 1][2])
      BY <1>2, <2>3 DEF DiscardSteps
    <2>5. PICK s \in Subjects, u \in Uuids : q[n + 1] = <<s, u>>
      <3>1. q[n + 1] \in Cache!Keys
        BY <2>3, ElementOfSeq
      <3>2. QED
        BY <3>1 DEF Cache!Keys
    <2>6. t[n].identity[s] # NoUser
      <3>1. c.identity[q[n + 1][1]] # NoUser
        BY <2>3
      <3>2. q[n + 1][1] = s
        BY <2>5
      <3>3. t[n].identity = c.identity
        BY <2>2 DEF Without
      <3>4. QED
        BY <3>1, <3>2, <3>3
    <2>7. t[n + 1] = Cache!Discard(t[n], s, u)
      BY <2>4, <2>5
    <2>8. Cache!WellFormed(t[n + 1]) /\ Without(t[n], t[n + 1], {<<s, u>>})
      BY <2>2, <2>6, <2>7, DiscardKeeps
    <2>9. t[n] \in Cache!Caches /\ t[n + 1] \in Cache!Caches
      BY <2>2, <2>8 DEF Cache!WellFormed
    <2>10. PICK K : K = Taken(n)
      OBVIOUS
    <2>11. Without(c, t[n + 1], K \cup {<<s, u>>})
      BY <1>4, <2>2, <2>8, <2>9, <2>10, WithoutBoth
    <2>12. Taken(n + 1) = K \cup {<<s, u>>}
      <3>1. 1..(n + 1) = (1..n) \cup {n + 1}
        OBVIOUS
      <3>2. QED
        BY <2>5, <2>10, <3>1
    <2>13. QED
      BY <2>8, <2>11, <2>12
  <1>7. N \in S
    <2>1. HIDE DEF S
    <2>2. QED
      BY <1>5, <1>6, FromZero
  <1>8. Right(N)
    BY <1>7
  <1>9. Taken(N) = Cache!ToSet(q)
    BY <1>1 DEF Cache!ToSet
  <1>10. QED
    BY <1>2, <1>8, <1>9

\* The sum of an order is the weight of its members.
LEMMA SumIs ==
  ASSUME NEW c \in Cache!Caches, NEW q \in Seq(Cache!Keys), Cache!IsInjective(q)
  PROVE  Cache!SumOf(c, q) = Weight(Cache!SizeIn(c), Cache!ToSet(q))
  <1>1. PICK N \in Nat : N = Len(q) /\ DOMAIN q = 1..N
    BY LenProperties
  <1>2. PICK w : w = Cache!SizeIn(c)
    OBVIOUS
  <1>3. w \in [Cache!Keys -> Nat]
    BY <1>2, SizesAre
  <1>4. PICK f : f = [k \in 1..N |-> c.sizes[q[k][1]][q[k][2]]]
    OBVIOUS
  <1>5. ASSUME NEW k \in 1..N PROVE f[k] = w[q[k]] /\ f[k] \in Nat
    <2>1. q[k] \in Cache!Keys
      BY <1>1, ElementOfSeq
    <2>2. w[q[k]] = c.sizes[q[k][1]][q[k][2]] /\ w[q[k]] \in Nat
      BY <1>2, <1>3, <2>1, SizesAre
    <2>3. QED
      BY <1>4, <2>2
  <1>6. f \in [1..N -> Nat]
    BY <1>4, <1>5
  <1>7. f \in Seq(Nat) /\ Len(f) = N
    BY <1>6
  <1>8. \A j, k \in 1..Len(q) : q[j] = q[k] => j = k
    BY <1>1 DEF Cache!IsInjective
  <1>9. Weight(w, {q[k] : k \in 1..Len(q)}) = Total(f)
    <2>1. \A k \in 1..Len(q) : f[k] = w[q[k]]
      BY <1>1, <1>5
    <2>2. Len(f) = Len(q)
      BY <1>1, <1>7
    <2>3. QED
      BY <1>3, <1>7, <1>8, <2>1, <2>2, WeightOfSequence, SMTT(30)
  <1>10. Cache!SumOf(c, q) = Total(f)
    BY <1>1, <1>4, CacheTotal DEF Cache!SumOf
  <1>11. Cache!ToSet(q) = {q[k] : k \in 1..Len(q)}
    BY <1>1 DEF Cache!ToSet
  <1>12. QED
    BY <1>2, <1>9, <1>10, <1>11

LEMMA PrefixIs ==
  ASSUME NEW T, NEW q \in Seq(T), Cache!IsInjective(q), NEW n \in 0..Len(q)
  PROVE  /\ SubSeq(q, 1, n) \in Seq(T) /\ Cache!IsInjective(SubSeq(q, 1, n))
         /\ Len(SubSeq(q, 1, n)) = n /\ Cache!ToSet(SubSeq(q, 1, n)) \subseteq Cache!ToSet(q)
  <1>1. PICK N \in Nat : N = Len(q) /\ DOMAIN q = 1..N
    BY LenProperties
  <1>2. PICK p : p = SubSeq(q, 1, n)
    OBVIOUS
  <1>3. \A i \in 1..n : q[i] \in T
    BY <1>1, ElementOfSeq
  <1>4. 1 \in Int /\ n \in Int /\ n \in Nat /\ n - 1 + 1 = n /\ \A i \in Int : 1 + i - 1 = i
    BY <1>1
  <1>5. /\ p \in Seq(T) /\ Len(p) = IF 1 <= n THEN n - 1 + 1 ELSE 0
        /\ \A i \in 1..(n - 1 + 1) : p[i] = q[1 + i - 1]
    BY <1>2, <1>3, <1>4, SubSeqProperties
  <1>6. Len(p) = n /\ \A i \in 1..n : p[i] = q[i]
    BY <1>4, <1>5
  <1>7. DOMAIN p = 1..n
    BY <1>5, <1>6, LenProperties
  <1>8. \A i \in 1..n : i \in 1..N
    BY <1>1
  <1>9. Cache!IsInjective(p)
    BY <1>1, <1>6, <1>7, <1>8 DEF Cache!IsInjective
  <1>10. Cache!ToSet(p) \subseteq Cache!ToSet(q)
    BY <1>1, <1>6, <1>7, <1>8 DEF Cache!ToSet
  <1>11. QED
    BY <1>2, <1>5, <1>6, <1>9, <1>10

\* What is in excess is of the order, and the room is enough without it.
LEMMA ExcessIs ==
  ASSUME NEW c, Cache!WellFormed(c), NEW S, NEW q \in Seq(Cache!Keys), Cache!IsInjective(q),
         Cache!ToSet(q) = Cache!KeysIn(c, S), NEW b, b = Bytes(c, S), NEW room \in Nat
  PROVE  /\ Cache!Excess(c, q, b, room) \in Seq(Cache!Keys)
         /\ Cache!ToSet(Cache!Excess(c, q, b, room)) \subseteq Cache!KeysIn(c, S)
         /\ b - Weight(Cache!SizeIn(c), Cache!ToSet(Cache!Excess(c, q, b, room))) <= room
  <1>1. PICK N \in Nat : N = Len(q)
    BY LenProperties
  <1>2. c \in Cache!Caches
    BY DEF Cache!WellFormed
  <1>3. PICK fits : fits = {n \in 0..N : b - Cache!SumOf(c, SubSeq(q, 1, n)) <= room}
    OBVIOUS
  <1>4. N \in fits /\ b \in Nat
    <2>1. SubSeq(q, 1, N) = q
      BY <1>1, SubSeqFull
    <2>2. Cache!SumOf(c, q) = b
      BY <1>2, SumIs DEF Bytes
    <2>3. b \in Nat
      <3>1. Cache!SizeIn(c) \in [Cache!Keys -> Nat]
        BY <1>2, SizesAre
      <3>2. Cache!KeysIn(c, S) \in SUBSET Cache!Keys /\ IsFiniteSet(Cache!KeysIn(c, S))
        BY <1>2, KeysAreFinite DEF Cache!WellFormed
      <3>3. QED
        BY <3>1, <3>2, UnitsAreFinite DEF Bytes
    <2>4. b - Cache!SumOf(c, SubSeq(q, 1, N)) <= room
      <3>1. PICK x \in Nat : x = b
        BY <2>3
      <3>2. x - x <= room
        OBVIOUS
      <3>3. QED
        BY <2>1, <2>2, <3>1, <3>2
    <2>5. QED
      BY <1>3, <2>3, <2>4
  <1>5. fits \subseteq Nat /\ fits # {}
    BY <1>3, <1>4
  <1>6. \E n \in fits : \A m \in fits : n <= m
    BY <1>5, LeastNatural
  <1>7. PICK n : n = CHOOSE k \in fits : \A m \in fits : k <= m
    OBVIOUS
  <1>8. n \in fits
    BY <1>6, <1>7
  <1>9. Cache!Excess(c, q, b, room) = SubSeq(q, 1, n)
    BY <1>1, <1>3, <1>7 DEF Cache!Excess
  <1>10. PICK p : p = SubSeq(q, 1, n)
    OBVIOUS
  <1>11. n \in 0..Len(q) /\ b - Cache!SumOf(c, p) <= room
    BY <1>1, <1>3, <1>8, <1>10
  <1>12. p \in Seq(Cache!Keys) /\ Cache!IsInjective(p) /\ Cache!ToSet(p) \subseteq Cache!ToSet(q)
    BY <1>10, <1>11, PrefixIs
  <1>13. Cache!SumOf(c, p) = Weight(Cache!SizeIn(c), Cache!ToSet(p))
    BY <1>2, <1>12, SumIs
  <1>14. QED
    BY <1>9, <1>10, <1>11, <1>12, <1>13

\* d is c without some values of the subjects S.
KeysFor(S) == {e \in Cache!Keys : e[1] \in S}

Lighter(c, d, S) ==
  /\ Cache!WellFormed(d)
  /\ \E K \in SUBSET KeysFor(S) : Without(c, d, K)

LEMMA ExcessGoes ==
  ASSUME NEW c, Cache!WellFormed(c), NEW S, NEW q \in Seq(Cache!Keys), Cache!IsInjective(q),
         Cache!ToSet(q) = Cache!KeysIn(c, S), NEW b, b = Bytes(c, S), NEW room \in Nat
  PROVE  /\ Lighter(c, Cache!DiscardAll(c, Cache!Excess(c, q, b, room)), S)
         /\ Bytes(Cache!DiscardAll(c, Cache!Excess(c, q, b, room)), S) <= room
  <1>1. PICK p : p = Cache!Excess(c, q, b, room)
    OBVIOUS
  <1>2. /\ p \in Seq(Cache!Keys) /\ Cache!ToSet(p) \subseteq Cache!KeysIn(c, S)
        /\ b - Weight(Cache!SizeIn(c), Cache!ToSet(p)) <= room
    BY <1>1, ExcessIs
  <1>3. c \in Cache!Caches /\ Cache!Orders(c) /\ Cache!Members(c)
    BY DEF Cache!WellFormed
  <1>4. ASSUME NEW k \in 1..Len(p) PROVE c.identity[p[k][1]] # NoUser
    <2>1. p[k] \in Cache!KeysIn(c, S)
      BY <1>2, LenProperties DEF Cache!ToSet
    <2>2. PICK e : e = p[k]
      OBVIOUS
    <2>3. e[1] \in Subjects /\ e \in Cache!KeysIn(c, {e[1]})
      BY <2>1, <2>2 DEF Cache!KeysIn, Cache!Keys
    <2>4. Cache!KeysIn(c, {e[1]}) # {}
      BY <2>3
    <2>5. QED
      BY <1>3, <2>2, <2>3, <2>4 DEF Cache!Members
  <1>5. PICK d : d = Cache!DiscardAll(c, p)
    OBVIOUS
  <1>6. Cache!WellFormed(d) /\ Without(c, d, Cache!ToSet(p))
    BY <1>2, <1>4, <1>5, DiscardAllKeeps
  <1>7. d \in Cache!Caches
    BY <1>6 DEF Cache!WellFormed
  <1>8. /\ Bytes(c, S) = Bytes(d, S)
                           + Weight(Cache!SizeIn(c), Cache!KeysIn(c, S) \cap Cache!ToSet(p))
        /\ Bytes(d, S) \in Nat
        /\ Weight(Cache!SizeIn(c), Cache!KeysIn(c, S) \cap Cache!ToSet(p)) \in Nat
    <2>1. PICK K : K = Cache!ToSet(p)
      OBVIOUS
    <2>2. Reduced(c, d, K)
      BY <1>3, <1>6, <1>7, <2>1 DEF Reduced
    <2>3. Remains(c, d, K, S)
      BY <2>2, WithoutBytes
    <2>4. QED
      BY <2>1, <2>3 DEF Remains
  <1>9. Cache!KeysIn(c, S) \cap Cache!ToSet(p) = Cache!ToSet(p)
    BY <1>2
  <1>10. Bytes(d, S) <= room
    <2>1. PICK x \in Nat, y \in Nat :
            x = Bytes(d, S) /\ y = Weight(Cache!SizeIn(c), Cache!ToSet(p))
      BY <1>8, <1>9
    <2>2. b = x + y /\ b - y <= room
      BY <1>2, <1>8, <1>9, <2>1
    <2>3. QED
      BY <2>1, <2>2
  <1>11. Lighter(c, d, S)
    BY <1>2, <1>6 DEF Lighter, KeysFor, Cache!KeysIn
  <1>12. QED
    BY <1>1, <1>5, <1>10, <1>11

\* As many values as their order is long
LEMMA LengthIs ==
  ASSUME NEW T, NEW q \in Seq(T), Cache!IsInjective(q)
  PROVE  Cardinality(Cache!ToSet(q)) = Len(q)
  <1>1. PICK n \in Nat : n = Len(q) /\ DOMAIN q = 1..n
    BY LenProperties
  <1>2. PICK S : S = Cache!ToSet(q)
    OBVIOUS
  <1>3. /\ \A k \in 1..n : q[k] \in S
        /\ \A x \in S : \E k \in 1..n : q[k] = x
    BY <1>1, <1>2 DEF Cache!ToSet
  <1>4. PICK f \in [1..n -> S] : f = [k \in 1..n |-> q[k]]
    BY <1>3
  <1>5. \A j, k \in 1..n : f[j] = f[k] => j = k
    BY <1>1, <1>4 DEF Cache!IsInjective
  <1>6. f \in Bijection(1..n, S)
    BY <1>3, <1>4, <1>5 DEF Bijection, Injection, Surjection, IsInjective
  <1>7. ExistsBijection(1..n, S)
    BY <1>6 DEF ExistsBijection
  <1>8. QED
    BY <1>1, <1>2, <1>7, FS_CountingElements

\* A finite set in some order
LEMMA EnumerationIs ==
  ASSUME NEW S, IsFiniteSet(S)
  PROVE  /\ Cache!SetToSeq(S) \in Seq(S) /\ Len(Cache!SetToSeq(S)) = Cardinality(S)
         /\ Cardinality(S) \in Nat
         /\ Cache!IsInjective(Cache!SetToSeq(S)) /\ Cache!ToSet(Cache!SetToSeq(S)) = S
  <1>1. PICK n \in Nat : n = Cardinality(S) /\ ExistsBijection(1..n, S)
    BY FS_CardinalityType
  <1>2. PICK g \in Bijection(1..n, S) : TRUE
    BY <1>1 DEF ExistsBijection
  <1>3. g \in [1..n -> S] /\ \A j, k \in 1..n : g[j] = g[k] => j = k
    BY <1>2 DEF Bijection, Injection, IsInjective
  <1>4. Cache!IsInjective(g)
    BY <1>3 DEF Cache!IsInjective
  <1>5. PICK f : f = CHOOSE h \in [1..n -> S] : Cache!IsInjective(h)
    OBVIOUS
  <1>6. f \in [1..n -> S] /\ Cache!IsInjective(f)
    BY <1>3, <1>4, <1>5
  <1>7. Cache!SetToSeq(S) = f
    BY <1>1, <1>5, CacheCardinality DEF Cache!SetToSeq
  <1>8. f \in Seq(S) /\ Len(f) = n
    BY <1>6
  <1>9. Cache!ToSet(f) \subseteq S
    BY <1>6 DEF Cache!ToSet
  <1>10. Cardinality(Cache!ToSet(f)) = Cardinality(S)
    BY <1>1, <1>6, <1>8, LengthIs
  <1>11. Cache!ToSet(f) = S
    BY <1>9, <1>10, FS_Subset
  <1>12. QED
    BY <1>1, <1>6, <1>7, <1>8, <1>11

-------------------------------------------------------------------------------
\* The share of an identity

LEMMA QuotientIs ==
  ASSUME NEW m \in Nat, NEW n \in Nat \ {0}
  PROVE  m \div n \in Nat /\ n * (m \div n) <= m /\ m < n * (m \div n + 1)
  OBVIOUS

LEMMA Products ==
  ASSUME NEW a \in Nat, NEW b \in Nat, NEW c \in Nat, NEW d \in Nat, a <= b, c <= d
  PROVE  a * c \in Nat /\ b * d \in Nat /\ a * c <= b * d
  <1>1. PICK e \in Nat, f \in Nat : b = a + e /\ d = c + f
    <2>1. b - a \in Nat /\ d - c \in Nat /\ b = a + (b - a) /\ d = c + (d - c)
      OBVIOUS
    <2>2. QED
      BY <2>1
  <1>2. a * c \in Nat /\ a * f \in Nat /\ e * c \in Nat /\ e * f \in Nat
    OBVIOUS
  <1>3. (a + e) * (c + f) = a * c + a * f + e * c + e * f
    OBVIOUS
  <1>4. QED
    BY <1>1, <1>2, <1>3

LEMMA SharesShrink ==
  ASSUME NEW m \in Nat, NEW n \in Nat \ {0}, NEW k \in Nat \ {0}, k <= n
  PROVE  m \div n <= m \div k
  <1>1. PICK a \in Nat, b \in Nat : a = m \div n /\ b = m \div k
    BY QuotientIs
  <1>2. n * a <= m /\ m < k * (b + 1)
    BY <1>1, QuotientIs
  <1>3. SUFFICES ASSUME b + 1 <= a PROVE FALSE
    BY <1>1
  <1>4. k * (b + 1) \in Nat /\ n * a \in Nat /\ k * (b + 1) <= n * a
    BY <1>3, Products
  <1>5. QED
    BY <1>2, <1>4

LEMMA KnownIs ==
  ASSUME NEW c \in Cache!Caches, Cache!Members(c)
  PROVE  /\ IsFiniteSet(Cache!Known(c)) /\ Cardinality(Cache!Known(c)) \in Nat
         /\ Cache!Known(c) = {} <=> Cardinality(Cache!Known(c)) = 0
  <1>1. PICK T : T = {c.identity[s] : s \in Subjects}
    OBVIOUS
  <1>2. PICK f : f = [s \in Subjects |-> c.identity[s]]
    OBVIOUS
  <1>3. f \in Surjection(Subjects, T)
    BY <1>1, <1>2 DEF Surjection
  <1>4. IsFiniteSet(T)
    BY <1>3, FS_Surjection, CacheNumbers
  <1>5. Cache!Known(c) \in SUBSET T
    BY <1>1 DEF Cache!Known, Cache!Members
  <1>6. IsFiniteSet(Cache!Known(c))
    BY <1>4, <1>5, FS_Subset
  <1>7. QED
    BY <1>6, FS_CardinalityType, FS_EmptySet

\* How many share
Sharing(c) == IF Cache!Known(c) = {} THEN 1 ELSE Cardinality(Cache!Known(c))

LEMMA QuotaIs ==
  ASSUME NEW c \in Cache!Caches, Cache!Members(c)
  PROVE  /\ Sharing(c) \in Nat \ {0}
         /\ Cache!Quota(c) = IF MaxTotal \div Sharing(c) < CacheBytes
                             THEN MaxTotal \div Sharing(c) ELSE CacheBytes
         /\ Cache!Quota(c) \in Nat
         /\ Cardinality(Cache!Known(c)) * Cache!Quota(c) <= MaxTotal
  <1>1. /\ Cardinality(Cache!Known(c)) \in Nat
        /\ Cache!Known(c) = {} <=> Cardinality(Cache!Known(c)) = 0
    BY KnownIs
  <1>2. Sharing(c) \in Nat \ {0}
    BY <1>1 DEF Sharing
  <1>3. PICK b \in Nat, m \in Nat : b = CacheBytes /\ m = MaxTotal
    BY CacheNumbers
  <1>4. PICK q \in Nat : q = m \div Sharing(c) /\ Sharing(c) * q <= m
    BY <1>2, <1>3, QuotientIs
  <1>5. Cache!Quota(c) = IF q < b THEN q ELSE b
    BY <1>3, <1>4, CacheCardinality DEF Cache!Quota, Sharing
  <1>6. PICK r \in Nat : r = Cache!Quota(c) /\ r <= q
    BY <1>5
  <1>7. PICK n \in Nat, k \in Nat : n = Cardinality(Cache!Known(c)) /\ k = Sharing(c) /\ n <= k
    BY <1>1, <1>2 DEF Sharing
  <1>8. n * r \in Nat /\ k * q \in Nat /\ n * r <= k * q
    BY <1>6, <1>7, Products
  <1>9. n * r <= m
    BY <1>4, <1>7, <1>8
  <1>10. QED
    BY <1>2, <1>3, <1>4, <1>5, <1>6, <1>7, <1>9

\* A share grows as others leave.
LEMMA QuotaGrows ==
  ASSUME NEW c \in Cache!Caches, Cache!Members(c), NEW d \in Cache!Caches, Cache!Members(d),
         Cache!Known(d) \subseteq Cache!Known(c)
  PROVE  Cache!Quota(c) <= Cache!Quota(d)
  <1>1. IsFiniteSet(Cache!Known(c)) /\ Cardinality(Cache!Known(c)) \in Nat
    BY KnownIs
  <1>2. /\ Cardinality(Cache!Known(d)) <= Cardinality(Cache!Known(c))
        /\ Cardinality(Cache!Known(d)) \in Nat
    BY <1>1, FS_Subset, KnownIs
  <1>3. PICK k \in Nat \ {0}, n \in Nat \ {0} : k = Sharing(d) /\ n = Sharing(c)
    BY QuotaIs
  <1>4. k <= n
    <2>1. CASE Cache!Known(d) = {}
      BY <1>3, <2>1 DEF Sharing
    <2>2. CASE Cache!Known(d) # {}
      BY <1>2, <1>3, <2>2 DEF Sharing
    <2>3. QED
      BY <2>1, <2>2
  <1>5. PICK m \in Nat, b \in Nat : m = MaxTotal /\ b = CacheBytes
    BY CacheNumbers
  <1>6. m \div n <= m \div k /\ m \div n \in Nat /\ m \div k \in Nat
    BY <1>3, <1>4, SharesShrink, QuotientIs
  <1>7. /\ Cache!Quota(c) = IF m \div n < b THEN m \div n ELSE b
        /\ Cache!Quota(d) = IF m \div k < b THEN m \div k ELSE b
    BY <1>3, <1>5, QuotaIs
  <1>8. QED
    BY <1>6, <1>7

LEMMA SameQuota ==
  ASSUME NEW c, NEW d, d.members = c.members
  PROVE  Cache!Known(d) = Cache!Known(c) /\ Cache!Quota(d) = Cache!Quota(c)
  <1>1. Cache!Known(d) = Cache!Known(c)
    BY DEF Cache!Known
  <1>2. QED
    BY <1>1 DEF Cache!Quota

-------------------------------------------------------------------------------
\* What takes values away keeps every limit.
LEMMA LighterMeans ==
  ASSUME NEW c, Cache!WellFormed(c), NEW S, NEW d, Lighter(c, d, S)
  PROVE  /\ Cache!WellFormed(d) /\ d.identity = c.identity /\ d.members = c.members
         /\ Cache!Quota(d) = Cache!Quota(c) /\ Cache!Known(d) = Cache!Known(c)
         /\ \A s \in Subjects : d.subjectBytes[s] <= c.subjectBytes[s]
         /\ \A s \in Subjects : Len(d.values[s]) <= Len(c.values[s])
         /\ \A s \in Subjects, u \in Uuids : d.sizes[s][u] \in {0, c.sizes[s][u]}
         /\ \A s \in Subjects, u \in Uuids : s \notin S => d.sizes[s][u] = c.sizes[s][u]
         /\ \A i \in Cache!Identities : d.identityBytes[i] <= c.identityBytes[i]
         /\ \A i \in Cache!Identities :
              (\A s \in S : c.identity[s] # i) => d.entries[i] = c.entries[i]
  <1>1. PICK K \in SUBSET KeysFor(S) : Without(c, d, K)
    BY DEF Lighter
  <1>2. /\ c \in Cache!Caches /\ Cache!Orders(c) /\ Cache!Counters(c)
        /\ d \in Cache!Caches /\ Cache!Counters(d) /\ Cache!WellFormed(d)
    BY DEF Cache!WellFormed, Lighter
  <1>3. d.identity = c.identity /\ d.members = c.members
    BY <1>1 DEF Without
  <1>4. ASSUME NEW T PROVE Bytes(d, T) <= Bytes(c, T)
    <2>1. Reduced(c, d, K)
      BY <1>1, <1>2 DEF Reduced
    <2>2. Remains(c, d, K, T)
      BY <2>1, WithoutBytes
    <2>3. QED
      BY <2>2 DEF Remains
  <1>5. \A s \in Subjects : d.subjectBytes[s] <= c.subjectBytes[s]
    BY <1>2, <1>4, CountersAre
  <1>6. \A i \in Cache!Identities : d.identityBytes[i] <= c.identityBytes[i]
    BY <1>2, <1>3, <1>4, CountersAre
  <1>7. /\ \A s \in Subjects : Len(d.values[s]) <= Len(c.values[s])
        /\ \A s \in Subjects, u \in Uuids : d.sizes[s][u] \in {0, c.sizes[s][u]}
    BY <1>1 DEF Without
  <1>8. \A s \in Subjects, u \in Uuids : <<s, u>> \in K => s \in S
    BY <1>1 DEF KeysFor
  <1>9. \A s \in Subjects, u \in Uuids : s \notin S => d.sizes[s][u] = c.sizes[s][u]
    BY <1>1, <1>8 DEF Without
  <1>10. ASSUME NEW i \in Cache!Identities, \A s \in S : c.identity[s] # i
         PROVE  d.entries[i] = c.entries[i]
    <2>1. \A e \in K : e[1] \in S
      BY <1>1 DEF KeysFor
    <2>2. QED
      BY <1>1, <1>10, <2>1 DEF Without
  <1>11. QED
    BY <1>2, <1>3, <1>5, <1>6, <1>7, <1>9, <1>10, SameQuota

LEMMA LighterBoth ==
  ASSUME NEW b, Cache!WellFormed(b), NEW S, NEW c, Lighter(b, c, S), NEW d, Lighter(c, d, S)
  PROVE  Lighter(b, d, S)
  <1>1. PICK K \in SUBSET KeysFor(S) : Without(b, c, K)
    BY DEF Lighter
  <1>2. PICK L \in SUBSET KeysFor(S) : Without(c, d, L)
    BY DEF Lighter
  <1>3. /\ b \in Cache!Caches /\ Cache!Orders(b) /\ c \in Cache!Caches /\ d \in Cache!Caches
        /\ Cache!WellFormed(d)
    BY DEF Cache!WellFormed, Lighter
  <1>4. Without(b, d, K \cup L)
    BY <1>1, <1>2, <1>3, WithoutBoth
  <1>5. K \cup L \in SUBSET KeysFor(S)
    BY <1>1, <1>2
  <1>6. QED
    BY <1>3, <1>4, <1>5 DEF Lighter

LEMMA LighterAmongMore ==
  ASSUME NEW c, NEW S, NEW T, S \subseteq T, NEW d, Lighter(c, d, S)
  PROVE  Lighter(c, d, T)
  <1>1. KeysFor(S) \subseteq KeysFor(T)
    BY DEF KeysFor
  <1>2. QED
    BY <1>1 DEF Lighter

LEMMA AlreadyLight ==
  ASSUME NEW c, Cache!WellFormed(c), NEW S
  PROVE  Lighter(c, c, S)
  <1>1. c \in Cache!Caches
    BY DEF Cache!WellFormed
  <1>2. \A s \in Subjects : Len(c.values[s]) \in Nat
    BY <1>1, StoreTypes, LenProperties
  <1>3. Without(c, c, {})
    BY <1>2 DEF Without
  <1>4. QED
    BY <1>3 DEF Lighter

\* An identity is trimmed to its share.
LEMMA TrimKeeps ==
  ASSUME NEW c, Cache!WellFormed(c), NEW i \in Cache!Identities
  PROVE  /\ Lighter(c, Cache!Trim(c, i), c.members[i])
         /\ Cache!Trim(c, i).identityBytes[i] <= Cache!Quota(c)
  <1>1. /\ c \in Cache!Caches /\ Cache!Orders(c) /\ Cache!Members(c) /\ Cache!Counters(c)
    BY DEF Cache!WellFormed
  <1>2. PICK q \in Seq(Cache!Keys) : q = c.entries[i]
    BY <1>1, StoreTypes
  <1>3. Cache!IsInjective(q) /\ Cache!ToSet(q) = Cache!KeysIn(c, c.members[i])
    BY <1>1, <1>2 DEF Cache!Orders
  <1>4. PICK b : b = c.identityBytes[i] /\ b = Bytes(c, c.members[i])
    BY <1>1, CountersAre
  <1>5. PICK room \in Nat : room = Cache!Quota(c)
    BY <1>1, QuotaIs
  <1>6. PICK d : d = Cache!DiscardAll(c, Cache!Excess(c, q, b, room))
    OBVIOUS
  <1>7. Lighter(c, d, c.members[i]) /\ Bytes(d, c.members[i]) <= room
    BY <1>3, <1>4, <1>6, ExcessGoes
  <1>8. Cache!Trim(c, i) = d
    BY <1>2, <1>4, <1>5, <1>6 DEF Cache!Trim
  <1>9. Cache!WellFormed(d) /\ d.members = c.members
    BY <1>7, LighterMeans
  <1>10. d.identityBytes[i] = Bytes(d, c.members[i])
    BY <1>9, CountersAre DEF Cache!WellFormed
  <1>11. QED
    BY <1>5, <1>7, <1>8, <1>10

\* The values of a subject, as the eviction order names them
LEMMA KeysOfIs ==
  ASSUME NEW c, Cache!WellFormed(c), NEW s \in Subjects
  PROVE  /\ Cache!KeysOf(c, s) \in Seq(Cache!Keys)
         /\ Len(Cache!KeysOf(c, s)) = Len(c.values[s]) /\ Len(c.values[s]) \in Nat
         /\ Cache!IsInjective(Cache!KeysOf(c, s))
         /\ Cache!ToSet(Cache!KeysOf(c, s)) = Cache!KeysIn(c, {s})
         /\ \A k \in 1..Len(c.values[s]) : Cache!KeysOf(c, s)[k] = <<s, c.values[s][k]>>
  <1>1. c \in Cache!Caches /\ Cache!Orders(c)
    BY DEF Cache!WellFormed
  <1>2. PICK v \in Seq(Uuids) : v = c.values[s]
    BY <1>1, StoreTypes
  <1>3. PICK n \in Nat : n = Len(v) /\ DOMAIN v = 1..n
    BY LenProperties
  <1>4. PICK q : q = [k \in 1..n |-> <<s, v[k]>>]
    OBVIOUS
  <1>5. Cache!KeysOf(c, s) = q
    BY <1>2, <1>3, <1>4 DEF Cache!KeysOf
  <1>6. ASSUME NEW k \in 1..n PROVE q[k] = <<s, v[k]>> /\ v[k] \in Uuids /\ q[k] \in Cache!Keys
    <2>1. v[k] \in Uuids
      BY <1>3, ElementOfSeq
    <2>2. q[k] = <<s, v[k]>>
      BY <1>4
    <2>3. QED
      BY <2>1, <2>2 DEF Cache!Keys
  <1>7. q \in [1..n -> Cache!Keys]
    BY <1>4, <1>6
  <1>8. q \in Seq(Cache!Keys) /\ Len(q) = n
    BY <1>7
  <1>9. Cache!IsInjective(v) /\ \A u \in Uuids : u \in Cache!ToSet(v) <=> c.sizes[s][u] > 0
    BY <1>1, <1>2 DEF Cache!Orders
  <1>10. \A j, k \in 1..n : v[j] = v[k] => j = k
    BY <1>3, <1>9 DEF Cache!IsInjective
  <1>11. DOMAIN q = 1..n
    BY <1>4
  <1>12. Cache!IsInjective(q)
    BY <1>6, <1>10, <1>11 DEF Cache!IsInjective
  <1>13. \A u \in Uuids : (\E k \in 1..n : v[k] = u) <=> c.sizes[s][u] > 0
    BY <1>3, <1>9 DEF Cache!ToSet
  <1>14. ASSUME NEW e \in Cache!ToSet(q) PROVE e \in Cache!KeysIn(c, {s})
    <2>1. PICK k \in 1..n : e = q[k]
      BY <1>11 DEF Cache!ToSet
    <2>2. e \in Cache!Keys /\ e[1] = s /\ e[2] = v[k] /\ v[k] \in Uuids
      BY <1>6, <2>1
    <2>3. QED
      BY <1>13, <2>2 DEF Cache!KeysIn
  <1>15. ASSUME NEW e \in Cache!KeysIn(c, {s}) PROVE e \in Cache!ToSet(q)
    <2>1. e = <<s, e[2]>> /\ e[2] \in Uuids /\ c.sizes[s][e[2]] > 0
      BY DEF Cache!KeysIn, Cache!Keys
    <2>2. PICK k \in 1..n : v[k] = e[2]
      BY <1>13, <2>1
    <2>3. q[k] = e
      BY <1>6, <2>1, <2>2
    <2>4. QED
      BY <1>11, <2>3 DEF Cache!ToSet
  <1>16. QED
    BY <1>2, <1>3, <1>5, <1>6, <1>8, <1>12, <1>14, <1>15

WithinSubjects(c) ==
  \A s \in Subjects : /\ Cache!Limits(c, s)
                      /\ \A u \in Uuids : c.sizes[s][u] \in Sizes \cup {0}

WithinShares(c) == \A i \in Cache!Identities : c.identityBytes[i] <= Cache!Quota(c)

LEMMA WithinIs == ASSUME NEW c PROVE Cache!Within(c) <=> WithinSubjects(c) /\ WithinShares(c)
  BY DEF Cache!Within, WithinSubjects, WithinShares

LEMMA LighterWithin ==
  ASSUME NEW c, Cache!WellFormed(c), NEW S, NEW d, Lighter(c, d, S)
  PROVE  /\ WithinSubjects(c) => WithinSubjects(d)
         /\ Cache!Within(c) => Cache!Within(d)
  <1>1. c \in Cache!Caches /\ d \in Cache!Caches /\ Cache!Members(c)
    BY LighterMeans DEF Cache!WellFormed
  <1>2. CacheBytes \in Nat /\ MaxStates \in Nat /\ Cache!Quota(c) \in Nat
    BY <1>1, CacheNumbers, QuotaIs
  <1>3. ASSUME WithinSubjects(c), NEW s \in Subjects PROVE Cache!Limits(d, s)
    <2>1. c.subjectBytes[s] \in Nat /\ d.subjectBytes[s] \in Nat
      BY <1>1, StoreTypes
    <2>2. Len(c.values[s]) \in Nat /\ Len(d.values[s]) \in Nat
      BY <1>1, StoreTypes, LenProperties
    <2>3. c.subjectBytes[s] <= CacheBytes /\ Len(c.values[s]) <= MaxStates
      BY <1>3 DEF WithinSubjects, Cache!Limits
    <2>4. d.subjectBytes[s] <= c.subjectBytes[s] /\ Len(d.values[s]) <= Len(c.values[s])
      BY LighterMeans
    <2>5. d.subjectBytes[s] <= CacheBytes /\ Len(d.values[s]) <= MaxStates
      BY <1>2, <2>1, <2>2, <2>3, <2>4
    <2>6. QED
      BY <2>5 DEF Cache!Limits
  <1>4. \A s \in Subjects, u \in Uuids : d.sizes[s][u] \in {0, c.sizes[s][u]}
    BY LighterMeans
  <1>5. WithinSubjects(c) => WithinSubjects(d)
    BY <1>3, <1>4 DEF WithinSubjects
  <1>6. ASSUME WithinShares(c), NEW i \in Cache!Identities
        PROVE  d.identityBytes[i] <= Cache!Quota(d)
    <2>1. c.identityBytes[i] \in Nat /\ d.identityBytes[i] \in Nat
      BY <1>1, StoreTypes
    <2>2. d.identityBytes[i] <= c.identityBytes[i] /\ Cache!Quota(d) = Cache!Quota(c)
      BY LighterMeans
    <2>3. c.identityBytes[i] <= Cache!Quota(c)
      BY <1>6 DEF WithinShares
    <2>4. QED
      BY <1>2, <2>1, <2>2, <2>3
  <1>7. QED
    BY <1>5, <1>6, WithinIs DEF WithinShares

\* A subject that has no values gets or loses its identity.
Moves(c, d, s, k) ==
  /\ d.identity = [c.identity EXCEPT ![s] = k]
  /\ d.members \in [Cache!Identities -> SUBSET Subjects]
  /\ \A i \in Cache!Identities :
       d.members[i] = {t \in Subjects : (IF t = s THEN k ELSE c.identity[t]) = i}
  /\ d.values = c.values /\ d.sizes = c.sizes /\ d.entries = c.entries
  /\ d.identityBytes = c.identityBytes /\ d.subjectBytes = c.subjectBytes /\ d.total = c.total

LEMMA MoveKeeps ==
  ASSUME NEW c, Cache!WellFormed(c), NEW s \in Subjects, Cache!KeysIn(c, {s}) = {},
         NEW k \in Cache!Identities \cup {NoUser}, k \in Subjects => k = s,
         NEW d \in Cache!Caches, Moves(c, d, s, k)
  PROVE  Cache!WellFormed(d)
  <1>1. /\ c \in Cache!Caches /\ Cache!Orders(c) /\ Cache!Members(c) /\ Cache!Counters(c)
    BY DEF Cache!WellFormed
  <1>2. \A t \in Subjects : d.identity[t] = IF t = s THEN k ELSE c.identity[t]
    BY <1>1, StoreTypes DEF Moves
  <1>3. ASSUME NEW S PROVE Cache!KeysIn(d, S) = Cache!KeysIn(c, S)
    BY DEF Cache!KeysIn, Moves
  <1>4. Cache!SizeIn(d) = Cache!SizeIn(c)
    BY DEF Cache!SizeIn, Moves
  <1>5. \A e \in Cache!Keys : e[1] = s => ~(c.sizes[e[1]][e[2]] > 0)
    BY DEF Cache!KeysIn
  <1>6. ASSUME NEW i \in Cache!Identities
        PROVE  Cache!KeysIn(c, d.members[i]) = Cache!KeysIn(c, c.members[i])
    <2>1. /\ d.members[i] = {t \in Subjects : (IF t = s THEN k ELSE c.identity[t]) = i}
          /\ c.members[i] = {t \in Subjects : c.identity[t] = i}
      BY <1>1 DEF Moves, Cache!Members
    <2>2. \A t \in Subjects : t # s => (t \in d.members[i] <=> t \in c.members[i])
      BY <2>1
    <2>3. \A e \in Cache!Keys : e[1] \in Subjects
      BY DEF Cache!Keys
    <2>4. QED
      BY <1>5, <2>2, <2>3 DEF Cache!KeysIn
  <1>7. Cache!Members(d)
    <2>1. \A i \in Cache!Identities : d.members[i] = {t \in Subjects : d.identity[t] = i}
      BY <1>2 DEF Moves
    <2>2. \A t \in Subjects : d.identity[t] \in Subjects => d.identity[t] = t
      BY <1>1, <1>2 DEF Cache!Members
    <2>3. \A t \in Subjects : d.identity[t] = NoUser => Cache!KeysIn(d, {t}) = {}
      BY <1>1, <1>2, <1>3 DEF Cache!Members
    <2>4. QED
      BY <2>1, <2>2, <2>3 DEF Cache!Members
  <1>8. Cache!Orders(d)
    <2>1. \A t \in Subjects :
            /\ Cache!IsInjective(d.values[t])
            /\ \A u \in Uuids : u \in Cache!ToSet(d.values[t]) <=> d.sizes[t][u] > 0
      BY <1>1 DEF Cache!Orders, Moves
    <2>2. \A i \in Cache!Identities :
            /\ Cache!IsInjective(d.entries[i])
            /\ Cache!ToSet(d.entries[i]) = Cache!KeysIn(d, d.members[i])
      BY <1>1, <1>3, <1>6 DEF Cache!Orders, Moves
    <2>3. ASSUME NEW t \in Subjects, d.identity[t] # NoUser, NEW u \in Uuids, NEW v \in Uuids
          PROVE  Cache!Older(d.entries[d.identity[t]], <<t, u>>, <<t, v>>)
                   <=> Cache!Older(d.values[t], u, v)
      <3>1. CASE t # s
        <4>1. d.identity[t] = c.identity[t]
          BY <1>2, <3>1
        <4>2. QED
          BY <1>1, <2>3, <4>1 DEF Cache!Orders, Moves
      <3>2. CASE t = s
        <4>1. <<s, u>> \in Cache!Keys /\ ~(c.sizes[s][u] > 0)
          BY <1>1, <1>5, SizesAre
        <4>2. PICK i \in Cache!Identities : i = d.identity[t]
          BY <1>2, <2>3, <3>2
        <4>3. <<s, u>> \notin Cache!ToSet(d.entries[i])
          BY <2>2, <4>1 DEF Cache!KeysIn, Moves
        <4>4. u \notin Cache!ToSet(d.values[s])
          BY <2>1, <4>1 DEF Moves
        <4>5. /\ ~ Cache!Older(d.entries[i], <<s, u>>, <<s, v>>)
              /\ ~ Cache!Older(d.values[s], u, v)
          BY <4>3, <4>4 DEF Cache!Older, Cache!ToSet
        <4>6. QED
          BY <3>2, <4>2, <4>5
      <3>3. QED
        BY <3>1, <3>2
    <2>4. QED
      BY <2>1, <2>2, <2>3 DEF Cache!Orders
  <1>9. Cache!Counters(d)
    BY <1>1, <1>3, <1>4, <1>6 DEF Cache!Counters, Moves
  <1>10. QED
    BY <1>7, <1>8, <1>9 DEF Cache!WellFormed

LEMMA MoveWithin ==
  ASSUME NEW c, NEW d, NEW s, NEW k, Moves(c, d, s, k), WithinSubjects(c)
  PROVE  WithinSubjects(d)
  BY DEF Moves, WithinSubjects, Cache!Limits

-------------------------------------------------------------------------------
\* Clearing a subject

LEMMA ClearedKeeps ==
  ASSUME NEW c, Cache!WellFormed(c), NEW s \in Subjects, c.identity[s] # NoUser
  PROVE  /\ Cache!WellFormed(Cache!Cleared(c, s))
         /\ Cache!Cleared(c, s).identity = [c.identity EXCEPT ![s] = NoUser]
         /\ Cache!KeysIn(Cache!Cleared(c, s), {s}) = {}
         /\ WithinSubjects(c) => WithinSubjects(Cache!Cleared(c, s))
         /\ Cache!Within(c) => Cache!Within(Cache!Cleared(c, s))
         /\ \A t \in Subjects, u \in Uuids :
              Cache!Cleared(c, s).sizes[t][u] \in {0, c.sizes[t][u]}
  <1>1. c \in Cache!Caches /\ Cache!Members(c)
    BY DEF Cache!WellFormed
  <1>2. PICK q : q = Cache!KeysOf(c, s)
    OBVIOUS
  <1>3. q \in Seq(Cache!Keys) /\ Cache!ToSet(q) = Cache!KeysIn(c, {s})
    BY <1>2, KeysOfIs
  <1>4. ASSUME NEW n \in 1..Len(q) PROVE c.identity[q[n][1]] # NoUser
    <2>1. q[n] \in Cache!KeysIn(c, {s})
      BY <1>3, LenProperties DEF Cache!ToSet
    <2>2. q[n][1] = s
      BY <2>1 DEF Cache!KeysIn
    <2>3. QED
      BY <2>2
  <1>5. PICK d : d = Cache!DiscardAll(c, q)
    OBVIOUS
  <1>6. Cache!WellFormed(d) /\ Without(c, d, Cache!KeysIn(c, {s}))
    BY <1>3, <1>4, <1>5, DiscardAllKeeps
  <1>7. Lighter(c, d, {s})
    BY <1>6 DEF Lighter, KeysFor, Cache!KeysIn
  <1>8. d \in Cache!Caches /\ Cache!Members(d) /\ d.identity = c.identity /\ d.members = c.members
    BY <1>6 DEF Cache!WellFormed, Without
  <1>9. Cache!KeysIn(d, {s}) = {}
    <2>1. Cache!Orders(c)
      BY DEF Cache!WellFormed
    <2>2. Cache!KeysIn(d, {s}) = Cache!KeysIn(c, {s}) \ Cache!KeysIn(c, {s})
      <3>1. PICK K, S : K = Cache!KeysIn(c, {s}) /\ S = {s}
        OBVIOUS
      <3>2. Reduced(c, d, K)
        BY <1>1, <1>6, <1>8, <2>1, <3>1 DEF Reduced
      <3>3. Cache!KeysIn(d, S) = Cache!KeysIn(c, S) \ K
        BY <3>2, ReducedKeys
      <3>4. QED
        BY <3>1, <3>3
    <2>3. QED
      BY <2>2
  <1>10. PICK i \in Cache!Identities : i = c.identity[s]
    BY <1>1, StoreTypes
  <1>11. PICK f, m : /\ f = [d.identity EXCEPT ![s] = NoUser]
                     /\ m = [d.members EXCEPT ![i] = d.members[i] \ {s}]
    OBVIOUS
  <1>12. /\ f \in [Subjects -> Cache!Identities \cup {NoUser}]
         /\ m \in [Cache!Identities -> SUBSET Subjects]
    <2>1. d.identity \in [Subjects -> Cache!Identities \cup {NoUser}]
      BY <1>8, StoreTypes
    <2>2. d.members \in [Cache!Identities -> SUBSET Subjects]
      BY <1>8, StoreTypes
    <2>3. QED
      BY <1>10, <1>11, <2>1, <2>2
  <1>13. PICK e : e = [d EXCEPT !.identity = f, !.members = m]
    OBVIOUS
  <1>14. Cache!Cleared(c, s) = e
    BY <1>2, <1>5, <1>8, <1>10, <1>11, <1>13 DEF Cache!Cleared, Cache!Caches
  <1>15. /\ e \in Cache!Caches /\ e.identity = f /\ e.members = m
         /\ e.values = d.values /\ e.sizes = d.sizes /\ e.entries = d.entries
         /\ e.identityBytes = d.identityBytes /\ e.subjectBytes = d.subjectBytes
         /\ e.total = d.total
    BY <1>8, <1>12, <1>13 DEF Cache!Caches
  <1>16. ASSUME NEW j \in Cache!Identities
         PROVE  m[j] = {t \in Subjects : (IF t = s THEN NoUser ELSE d.identity[t]) = j}
    <2>1. d.members[j] = {t \in Subjects : d.identity[t] = j}
      BY <1>8 DEF Cache!Members
    <2>2. m[j] = IF j = i THEN d.members[j] \ {s} ELSE d.members[j]
      <3>1. d.members \in [Cache!Identities -> SUBSET Subjects]
        BY <1>8, StoreTypes
      <3>2. QED
        BY <1>11, <3>1
    <2>3. NoUser # j
      BY CacheNumbers DEF Cache!Identities
    <2>4. d.identity[s] = i
      BY <1>8, <1>10
    <2>5. QED
      BY <2>1, <2>2, <2>3, <2>4
  <1>17. Moves(d, e, s, NoUser)
    BY <1>11, <1>12, <1>15, <1>16 DEF Moves
  <1>18. Cache!WellFormed(e)
    <2>1. NoUser \notin Subjects
      BY CacheNumbers
    <2>2. QED
      BY <1>6, <1>9, <1>15, <1>17, <2>1, MoveKeeps
  <1>19. Cache!KeysIn(e, {s}) = {}
    BY <1>9, <1>15 DEF Cache!KeysIn
  <1>20. WithinSubjects(c) => WithinSubjects(e)
    BY <1>7, <1>17, LighterWithin, MoveWithin
  <1>21. ASSUME Cache!Within(c) PROVE Cache!Within(e)
    <2>1. WithinSubjects(e)
      BY <1>20, <1>21, WithinIs
    <2>2. WithinShares(d)
      BY <1>7, <1>21, LighterWithin, WithinIs
    <2>3. Cache!Members(e)
      BY <1>18 DEF Cache!WellFormed
    <2>4. Cache!Known(e) \subseteq Cache!Known(d)
      <3>1. \A j \in Cache!Identities : m[j] \subseteq d.members[j]
        <4>1. d.members \in [Cache!Identities -> SUBSET Subjects]
          BY <1>8, StoreTypes
        <4>2. QED
          BY <1>10, <1>11, <4>1
      <3>2. QED
        BY <1>15, <3>1 DEF Cache!Known
    <2>5. Cache!Quota(d) <= Cache!Quota(e)
      BY <1>8, <1>15, <2>3, <2>4, QuotaGrows
    <2>6. ASSUME NEW j \in Cache!Identities PROVE e.identityBytes[j] <= Cache!Quota(e)
      <3>1. d.identityBytes[j] <= Cache!Quota(d) /\ d.identityBytes[j] \in Nat
        BY <1>8, <2>2, StoreTypes DEF WithinShares
      <3>2. Cache!Quota(d) \in Nat /\ Cache!Quota(e) \in Nat
        BY <1>8, <1>15, <2>3, QuotaIs
      <3>3. QED
        BY <1>15, <2>5, <3>1, <3>2
    <2>7. QED
      BY <2>1, <2>6, WithinIs DEF WithinShares
  <1>22. \A t \in Subjects, u \in Uuids : e.sizes[t][u] \in {0, c.sizes[t][u]}
    BY <1>7, <1>15, LighterMeans
  <1>23. QED
    BY <1>8, <1>11, <1>14, <1>15, <1>18, <1>19, <1>20, <1>21, <1>22

-------------------------------------------------------------------------------
\* A subject joins an identity.

Joins(c, d, s, k) ==
  /\ Cache!WellFormed(c) /\ c.identity[s] = NoUser
  /\ k \in Cache!Identities /\ (k \in Subjects => k = s)
  /\ d = [c EXCEPT !.identity[s] = k, !.members[k] = c.members[k] \cup {s}]

Joined(c, d, s, k) ==
  /\ Cache!WellFormed(d) /\ d.identity[s] = k /\ d.sizes = c.sizes
  /\ WithinSubjects(c) => WithinSubjects(d)

LEMMA JoinKeeps ==
  ASSUME NEW c, NEW d, NEW s \in Subjects, NEW k, Joins(c, d, s, k)
  PROVE  Joined(c, d, s, k)
  <1> USE DEF Joins
  <1>1. c \in Cache!Caches /\ Cache!Members(c)
    BY DEF Cache!WellFormed
  <1>2. PICK f, m : /\ f = [c.identity EXCEPT ![s] = k]
                    /\ m = [c.members EXCEPT ![k] = c.members[k] \cup {s}]
    OBVIOUS
  <1>3. /\ c.identity \in [Subjects -> Cache!Identities \cup {NoUser}]
        /\ c.members \in [Cache!Identities -> SUBSET Subjects]
    BY <1>1, StoreTypes
  <1>4. /\ f \in [Subjects -> Cache!Identities \cup {NoUser}] /\ f[s] = k
        /\ m \in [Cache!Identities -> SUBSET Subjects]
    BY <1>2, <1>3
  <1>5. PICK e : e = [c EXCEPT !.identity = f, !.members = m]
    OBVIOUS
  <1>6. d = e
    BY <1>1, <1>2, <1>5 DEF Cache!Caches
  <1>7. /\ e \in Cache!Caches /\ e.identity = f /\ e.members = m
        /\ e.values = c.values /\ e.sizes = c.sizes /\ e.entries = c.entries
        /\ e.identityBytes = c.identityBytes /\ e.subjectBytes = c.subjectBytes
        /\ e.total = c.total
    BY <1>1, <1>4, <1>5 DEF Cache!Caches
  <1>8. ASSUME NEW j \in Cache!Identities
        PROVE  m[j] = {t \in Subjects : (IF t = s THEN k ELSE c.identity[t]) = j}
    <2>1. c.members[j] = {t \in Subjects : c.identity[t] = j}
      BY <1>1 DEF Cache!Members
    <2>2. m[j] = IF j = k THEN c.members[j] \cup {s} ELSE c.members[j]
      BY <1>2, <1>3
    <2>3. NoUser # j
      BY CacheNumbers DEF Cache!Identities
    <2>4. QED
      BY <2>1, <2>2, <2>3
  <1>9. Moves(c, e, s, k)
    BY <1>2, <1>4, <1>7, <1>8 DEF Moves
  <1>10. Cache!KeysIn(c, {s}) = {}
    BY <1>1 DEF Cache!Members
  <1>11. Cache!WellFormed(e)
    BY <1>7, <1>9, <1>10, MoveKeeps
  <1>12. QED
    BY <1>4, <1>6, <1>7, <1>9, <1>11, MoveWithin DEF Joined

\* Everybody is trimmed to the share.
LEMMA TrimAllKeeps ==
  ASSUME NEW c, Cache!WellFormed(c), NEW d,
         d = Cache!After(Cache!Trim, c, Cache!SetToSeq(Cache!Known(c)))
  PROVE  Lighter(c, d, Subjects) /\ WithinShares(d)
  <1>1. c \in Cache!Caches /\ Cache!Members(c)
    BY DEF Cache!WellFormed
  <1>2. PICK q : q = Cache!SetToSeq(Cache!Known(c))
    OBVIOUS
  <1>3. q \in Seq(Cache!Known(c)) /\ Cache!ToSet(q) = Cache!Known(c)
    BY <1>1, <1>2, KnownIs, EnumerationIs
  <1>4. PICK N \in Nat : N = Len(q) /\ DOMAIN q = 1..N
    BY <1>3, LenProperties
  <1>5. PICK t : TrimSteps(t, c, q, N) /\ d = t[N]
    BY <1>2, <1>4, TrimLoop
  <1>6. DEFINE Right(n) == /\ Lighter(c, t[n], Subjects)
                           /\ \A k \in 1..n : t[n].identityBytes[q[k]] <= Cache!Quota(c)
               S == {n \in Nat : n <= N => Right(n)}
  <1>7. 0 \in S
    <2>1. t[0] = c
      BY <1>5 DEF TrimSteps
    <2>2. QED
      BY <2>1, AlreadyLight
  <1>8. ASSUME NEW n \in Nat, n \in S PROVE n + 1 \in S
    <2>1. SUFFICES ASSUME n + 1 <= N PROVE Right(n + 1)
      OBVIOUS
    <2>2. Right(n)
      BY <1>8, <2>1
    <2>3. /\ n + 1 \in 1..N /\ n + 1 - 1 = n
          /\ \A k \in 1..(n + 1) : k \in 1..N /\ (k = n + 1 \/ k \in 1..n)
      BY <2>1
    <2>4. PICK b, e : b = t[n] /\ e = t[n + 1]
      OBVIOUS
    <2>5. e = Cache!Trim(b, q[n + 1])
      BY <1>5, <2>3, <2>4 DEF TrimSteps
    <2>6. \A k \in 1..N : q[k] \in Cache!Identities
      BY <1>3, <1>4, ElementOfSeq DEF Cache!Known
    <2>7. /\ Lighter(c, b, Subjects) /\ Cache!WellFormed(b) /\ Cache!Quota(b) = Cache!Quota(c)
          /\ b \in Cache!Caches
      BY <2>2, <2>4, LighterMeans DEF Cache!WellFormed
    <2>8. /\ Lighter(b, e, b.members[q[n + 1]])
          /\ e.identityBytes[q[n + 1]] <= Cache!Quota(b)
      BY <2>3, <2>5, <2>6, <2>7, TrimKeeps
    <2>9. b.members[q[n + 1]] \subseteq Subjects
      BY <2>3, <2>6, <2>7, StoreTypes
    <2>10. Lighter(b, e, Subjects)
      BY <2>8, <2>9, LighterAmongMore
    <2>11. Lighter(c, e, Subjects)
      BY <2>7, <2>10, LighterBoth
    <2>12. e \in Cache!Caches
      BY <2>10 DEF Lighter, Cache!WellFormed
    <2>13. ASSUME NEW k \in 1..(n + 1) PROVE e.identityBytes[q[k]] <= Cache!Quota(c)
      <3>1. CASE k = n + 1
        BY <2>7, <2>8, <3>1
      <3>2. CASE k \in 1..n
        <4>1. PICK i \in Cache!Identities : i = q[k]
          BY <2>3, <2>6
        <4>2. b.identityBytes[i] <= Cache!Quota(c)
          BY <2>2, <2>4, <3>2, <4>1
        <4>3. e.identityBytes[i] <= b.identityBytes[i]
          BY <2>7, <2>10, LighterMeans
        <4>4. e.identityBytes[i] \in Nat /\ b.identityBytes[i] \in Nat /\ Cache!Quota(c) \in Nat
          BY <1>1, <2>7, <2>12, StoreTypes, QuotaIs
        <4>5. QED
          BY <4>1, <4>2, <4>3, <4>4
      <3>3. QED
        BY <2>3, <3>1, <3>2
    <2>14. QED
      BY <2>4, <2>11, <2>13
  <1>9. N \in S
    <2>1. HIDE DEF S
    <2>2. QED
      BY <1>7, <1>8, FromZero
  <1>10. Right(N)
    BY <1>9
  <1>11. /\ Lighter(c, d, Subjects) /\ Cache!Quota(d) = Cache!Quota(c) /\ Cache!WellFormed(d)
         /\ d.members = c.members
    BY <1>5, <1>10, LighterMeans
  <1>12. ASSUME NEW i \in Cache!Identities PROVE d.identityBytes[i] <= Cache!Quota(d)
    <2>1. CASE i \in Cache!Known(c)
      <3>1. PICK k \in 1..N : q[k] = i
        BY <1>3, <1>4, <2>1 DEF Cache!ToSet
      <3>2. QED
        BY <1>5, <1>10, <1>11, <3>1
    <2>2. CASE i \notin Cache!Known(c)
      <3>1. d.members[i] = {}
        BY <1>11, <2>2 DEF Cache!Known
      <3>2. d.identityBytes[i] = Bytes(d, {})
        BY <1>11, <3>1, CountersAre DEF Cache!WellFormed
      <3>3. Cache!KeysIn(d, {}) = {}
        BY DEF Cache!KeysIn
      <3>4. d.identityBytes[i] = 0
        BY <3>2, <3>3, WeightOfNone DEF Bytes
      <3>5. Cache!Quota(d) \in Nat
        BY <1>1, <1>11, QuotaIs
      <3>6. QED
        BY <3>4, <3>5
    <2>3. QED
      BY <2>1, <2>2
  <1>13. QED
    BY <1>11, <1>12 DEF WithinShares

LEMMA RegisteredKeeps ==
  ASSUME NEW c, Cache!WellFormed(c), Cache!Within(c), NEW s \in Subjects,
         NEW user \in Users \cup {NoUser}
  PROVE  /\ Cache!WellFormed(Cache!Registered(c, s, user))
         /\ Cache!Within(Cache!Registered(c, s, user))
         /\ Cache!Registered(c, s, user).identity[s] # NoUser
         /\ \A t \in Subjects, u \in Uuids :
              Cache!Registered(c, s, user).sizes[t][u] \in {0, c.sizes[t][u]}
         /\ user = NoUser /\ c.identity[s] # NoUser => Cache!Registered(c, s, user) = c
         /\ user = NoUser /\ c.identity[s] = NoUser =>
              Cache!Registered(c, s, user).identity[s] = s
  <1>1. c \in Cache!Caches /\ Cache!Members(c)
    BY DEF Cache!WellFormed
  <1>2. PICK key : key = IF user # NoUser THEN user
                         ELSE IF c.identity[s] # NoUser THEN c.identity[s] ELSE s
    OBVIOUS
  <1>3. key \in Cache!Identities /\ key # NoUser /\ (key \in Subjects => key = s)
    <2>1. c.identity[s] \in Cache!Identities \cup {NoUser}
      BY <1>1, StoreTypes
    <2>2. c.identity[s] \in Subjects => c.identity[s] = s
      BY <1>1 DEF Cache!Members
    <2>3. QED
      BY <1>2, <2>1, <2>2, CacheNumbers DEF Cache!Identities
  <1>4. CASE key = c.identity[s]
    <2>1. Cache!Registered(c, s, user) = c
      BY <1>2, <1>4 DEF Cache!Registered
    <2>2. QED
      BY <1>3, <1>4, <2>1
  <1>5. CASE key # c.identity[s]
    <2>1. PICK b : b = IF c.identity[s] = NoUser THEN c ELSE Cache!Cleared(c, s)
      OBVIOUS
    <2>2. /\ Cache!WellFormed(b) /\ b.identity[s] = NoUser /\ WithinSubjects(b)
          /\ \A t \in Subjects, u \in Uuids : b.sizes[t][u] \in {0, c.sizes[t][u]}
      <3>1. WithinSubjects(c)
        BY WithinIs
      <3>2. CASE c.identity[s] = NoUser
        BY <2>1, <3>1, <3>2
      <3>3. CASE c.identity[s] # NoUser
        <4>1. b = Cache!Cleared(c, s)
          BY <2>1, <3>3
        <4>2. /\ Cache!WellFormed(b) /\ b.identity = [c.identity EXCEPT ![s] = NoUser]
              /\ WithinSubjects(b)
              /\ \A t \in Subjects, u \in Uuids : b.sizes[t][u] \in {0, c.sizes[t][u]}
          BY <3>1, <3>3, <4>1, ClearedKeeps
        <4>3. b.identity[s] = NoUser
          BY <1>1, <4>2, StoreTypes
        <4>4. QED
          BY <4>2, <4>3
      <3>4. QED
        BY <3>2, <3>3
    <2>3. PICK d : d = [b EXCEPT !.identity[s] = key, !.members[key] = b.members[key] \cup {s}]
      OBVIOUS
    <2>4. Cache!WellFormed(d) /\ d.identity[s] = key /\ d.sizes = b.sizes /\ WithinSubjects(d)
      <3>1. Joins(b, d, s, key)
        BY <1>3, <2>2, <2>3 DEF Joins
      <3>2. Joined(b, d, s, key)
        BY <3>1, JoinKeeps
      <3>3. QED
        BY <2>2, <3>2 DEF Joined
    <2>5. PICK e : e = Cache!After(Cache!Trim, d, Cache!SetToSeq(Cache!Known(d)))
      OBVIOUS
    <2>6. Cache!Registered(c, s, user) = e
      BY <1>2, <1>5, <2>1, <2>3, <2>5 DEF Cache!Registered
    <2>7. Lighter(d, e, Subjects) /\ WithinShares(e)
      BY <2>4, <2>5, TrimAllKeeps
    <2>8. /\ Cache!WellFormed(e) /\ e.identity = d.identity
          /\ \A t \in Subjects, u \in Uuids : e.sizes[t][u] \in {0, d.sizes[t][u]}
      BY <2>4, <2>7, LighterMeans
    <2>9. Cache!Within(e)
      BY <2>4, <2>7, LighterWithin, WithinIs
    <2>10. \A t \in Subjects, u \in Uuids : e.sizes[t][u] \in {0, c.sizes[t][u]}
      BY <2>2, <2>4, <2>8
    <2>11. e.identity[s] = key
      BY <2>4, <2>8
    <2>12. ~(user = NoUser /\ c.identity[s] # NoUser)
      BY <1>2, <1>5
    <2>13. user = NoUser /\ c.identity[s] = NoUser => key = s
      BY <1>2
    <2>14. QED
      BY <1>3, <2>6, <2>8, <2>9, <2>10, <2>11, <2>12, <2>13
  <1>6. QED
    BY <1>4, <1>5

-------------------------------------------------------------------------------
\* A value is stored: c without it, and d with it as the youngest.

Added(c, s, u, z) ==
  LET i == c.identity[s]
  IN  [c EXCEPT !.values[s] = Append(c.values[s], u),
                !.sizes[s][u] = z,
                !.entries[i] = Append(c.entries[i], <<s, u>>),
                !.identityBytes[i] = c.identityBytes[i] + z,
                !.subjectBytes[s] = c.subjectBytes[s] + z,
                !.total = c.total + z]

Adds(c, s, u, i, z, d) ==
  /\ d \in Cache!Caches
  /\ d.values = [c.values EXCEPT ![s] = Append(c.values[s], u)]
  /\ d.sizes = [c.sizes EXCEPT ![s] = [c.sizes[s] EXCEPT ![u] = z]]
  /\ d.identity = c.identity /\ d.members = c.members
  /\ d.entries = [c.entries EXCEPT ![i] = Append(c.entries[i], <<s, u>>)]
  /\ d.identityBytes = [c.identityBytes EXCEPT ![i] = c.identityBytes[i] + z]
  /\ d.subjectBytes = [c.subjectBytes EXCEPT ![s] = c.subjectBytes[s] + z]
  /\ d.total = c.total + z

LEMMA AddedFields ==
  ASSUME NEW c \in Cache!Caches, NEW s \in Subjects, NEW u \in Uuids, NEW z \in Nat,
         NEW i \in Cache!Identities, i = c.identity[s]
  PROVE  Adds(c, s, u, i, z, Added(c, s, u, z))
  <1>1. PICK v, q, zs : /\ v = Append(c.values[s], u) /\ q = Append(c.entries[i], <<s, u>>)
                        /\ zs = [c.sizes[s] EXCEPT ![u] = z]
    OBVIOUS
  <1>2. v \in Seq(Uuids) /\ q \in Seq(Cache!Keys) /\ zs \in [Uuids -> Nat]
    <2>1. <<s, u>> \in Cache!Keys
      BY DEF Cache!Keys
    <2>2. c.values[s] \in Seq(Uuids) /\ c.sizes[s] \in [Uuids -> Nat]
          /\ c.entries[i] \in Seq(Cache!Keys)
      BY StoreTypes
    <2>3. v \in Seq(Uuids) /\ q \in Seq(Cache!Keys)
      BY <1>1, <2>1, <2>2, AppendProperties
    <2>4. zs \in [Uuids -> Nat]
      BY <1>1, <2>2
    <2>5. QED
      BY <2>3, <2>4
  <1>3. /\ c.identityBytes \in [Cache!Identities -> Nat] /\ c.subjectBytes \in [Subjects -> Nat]
        /\ c.total \in Nat
    BY StoreTypes
  <1>4. PICK y \in Nat, x \in Nat, t \in Nat :
          y = c.identityBytes[i] + z /\ x = c.subjectBytes[s] + z /\ t = c.total + z
    BY <1>3
  <1>5. PICK d : d = [c EXCEPT !.values = [c.values EXCEPT ![s] = v],
                               !.sizes = [c.sizes EXCEPT ![s] = zs],
                               !.entries = [c.entries EXCEPT ![i] = q],
                               !.identityBytes = [c.identityBytes EXCEPT ![i] = y],
                               !.subjectBytes = [c.subjectBytes EXCEPT ![s] = x],
                               !.total = t]
    OBVIOUS
  <1>6. Added(c, s, u, z) = d
    BY <1>1, <1>4, <1>5 DEF Added, Cache!Caches
  <1>7. d \in Cache!Caches
    BY <1>2, <1>5 DEF Cache!Caches
  <1>8. /\ d.values = [c.values EXCEPT ![s] = v] /\ d.sizes = [c.sizes EXCEPT ![s] = zs]
        /\ d.identity = c.identity /\ d.members = c.members
        /\ d.entries = [c.entries EXCEPT ![i] = q]
        /\ d.identityBytes = [c.identityBytes EXCEPT ![i] = y]
        /\ d.subjectBytes = [c.subjectBytes EXCEPT ![s] = x] /\ d.total = t
    BY <1>5 DEF Cache!Caches
  <1>9. QED
    BY <1>1, <1>4, <1>6, <1>7, <1>8 DEF Adds

LEMMA AddedKeeps ==
  ASSUME NEW c, Cache!WellFormed(c), NEW s \in Subjects, c.identity[s] # NoUser,
         NEW u \in Uuids, c.sizes[s][u] = 0, NEW z \in Nat \ {0}
  PROVE  Cache!WellFormed(Added(c, s, u, z))
  <1>1. /\ c \in Cache!Caches /\ Cache!Orders(c) /\ Cache!Members(c) /\ Cache!Counters(c)
    BY DEF Cache!WellFormed
  <1>2. PICK i \in Cache!Identities : i = c.identity[s]
    BY <1>1, StoreTypes
  <1>3. PICK d : d = Added(c, s, u, z)
    OBVIOUS
  <1>4. PICK v, q : v = Append(c.values[s], u) /\ q = Append(c.entries[i], <<s, u>>)
    OBVIOUS
  <1>5. /\ d \in Cache!Caches
        /\ d.values = [c.values EXCEPT ![s] = v]
        /\ d.sizes = [c.sizes EXCEPT ![s] = [c.sizes[s] EXCEPT ![u] = z]]
        /\ d.identity = c.identity /\ d.members = c.members
        /\ d.entries = [c.entries EXCEPT ![i] = q]
        /\ d.identityBytes = [c.identityBytes EXCEPT ![i] = c.identityBytes[i] + z]
        /\ d.subjectBytes = [c.subjectBytes EXCEPT ![s] = c.subjectBytes[s] + z]
        /\ d.total = c.total + z
    <2>1. PICK n \in Nat : n = z
      OBVIOUS
    <2>2. Adds(c, s, u, i, n, Added(c, s, u, n))
      BY <1>1, <1>2, AddedFields
    <2>3. QED
      BY <1>3, <1>4, <2>1, <2>2 DEF Adds
  <1>6. /\ \A t \in Subjects : d.values[t] = IF t = s THEN v ELSE c.values[t]
        /\ \A t \in Subjects, w \in Uuids :
             d.sizes[t][w] = IF t = s /\ w = u THEN z ELSE c.sizes[t][w]
        /\ \A j \in Cache!Identities : d.entries[j] = IF j = i THEN q ELSE c.entries[j]
    <2>1. /\ DOMAIN c.values = Subjects /\ DOMAIN c.entries = Cache!Identities
          /\ c.sizes \in [Subjects -> [Uuids -> Nat]]
      BY <1>1, StoreTypes
    <2>2. /\ d.values = [c.values EXCEPT ![s] = v] /\ d.entries = [c.entries EXCEPT ![i] = q]
          /\ d.sizes = [c.sizes EXCEPT ![s] = [c.sizes[s] EXCEPT ![u] = z]]
      BY <1>5
    <2>3. QED
      BY <2>1, <2>2
  <1>7. PICK e \in Cache!Keys : e = <<s, u>>
    BY <1>1, SizesAre
  <1>8. ASSUME NEW S
        PROVE  /\ Cache!KeysIn(d, S) = IF s \in S THEN Cache!KeysIn(c, S) \cup {e}
                                       ELSE Cache!KeysIn(c, S)
               /\ e \notin Cache!KeysIn(c, S)
    <2>1. e[1] = s /\ e[2] = u
      BY <1>7
    <2>2. \A k \in Cache!Keys : k[1] \in Subjects /\ k[2] \in Uuids /\ k = <<k[1], k[2]>>
      BY DEF Cache!Keys
    <2>3. \A k \in Cache!Keys : d.sizes[k[1]][k[2]] = IF k = e THEN z ELSE c.sizes[k[1]][k[2]]
      BY <1>6, <1>7, <2>2
    <2>4. c.sizes[e[1]][e[2]] = 0 /\ z > 0
      BY <2>1
    <2>5. ASSUME NEW k \in Cache!Keys
          PROVE  k \in Cache!KeysIn(d, S)
                   <=> k \in (IF s \in S THEN Cache!KeysIn(c, S) \cup {e} ELSE Cache!KeysIn(c, S))
      BY <2>1, <2>3, <2>4 DEF Cache!KeysIn
    <2>6. QED
      BY <2>4, <2>5 DEF Cache!KeysIn
  <1>9. ASSUME NEW S
        PROVE  /\ Bytes(d, S) = IF s \in S THEN Bytes(c, S) + z ELSE Bytes(c, S)
               /\ Bytes(c, S) \in Nat
    <2>1. PICK w, x, K, L : /\ w = Cache!SizeIn(c) /\ x = Cache!SizeIn(d)
                            /\ K = Cache!KeysIn(c, S) /\ L = Cache!KeysIn(d, S)
      OBVIOUS
    <2>2. /\ w \in [Cache!Keys -> Nat] /\ x \in [Cache!Keys -> Nat] /\ K \in SUBSET Cache!Keys
          /\ IsFiniteSet(K) /\ Weight(w, K) \in Nat
      BY <1>1, <1>5, <2>1, SizesAre, KeysAreFinite, UnitsAreFinite
    <2>3. e \notin K /\ L = IF s \in S THEN K \cup {e} ELSE K
      BY <1>8, <2>1
    <2>4. x[e] = z
      BY <1>5, <1>6, <1>7, <2>1, SizesAre
    <2>5. ASSUME NEW k \in K PROVE x[k] = w[k]
      <3>1. k[1] \in Subjects /\ k[2] \in Uuids /\ k = <<k[1], k[2]>> /\ k # e
        BY <2>2, <2>3 DEF Cache!Keys
      <3>2. d.sizes[k[1]][k[2]] = c.sizes[k[1]][k[2]]
        BY <1>6, <1>7, <3>1
      <3>3. QED
        <4>1. k \in Cache!Keys
          BY <2>2
        <4>2. w[k] = c.sizes[k[1]][k[2]]
          BY <1>1, <2>1, <4>1, SizesAre
        <4>3. x[k] = d.sizes[k[1]][k[2]]
          <5>1. d \in Cache!Caches
            BY <1>5
          <5>2. QED
            BY <2>1, <4>1, <5>1, SizesAre
        <4>4. QED
          BY <3>2, <4>2, <4>3
    <2>6. Weight(x, K) = Weight(w, K)
      BY <2>5, WeightAgrees
    <2>7. Weight(x, K \cup {e}) = Weight(x, K) + x[e]
      BY <2>2, <2>3, WeightWithOne
    <2>8. Weight(x, L) = IF s \in S THEN Weight(w, K) + z ELSE Weight(w, K)
      BY <2>3, <2>4, <2>6, <2>7
    <2>9. QED
      BY <2>1, <2>2, <2>8 DEF Bytes
  <1>10. Cache!Members(d)
    <2>1. ASSUME NEW t \in Subjects, d.identity[t] = NoUser PROVE Cache!KeysIn(d, {t}) = {}
      <3>1. t # s /\ Cache!KeysIn(c, {t}) = {}
        BY <1>1, <1>5, <2>1 DEF Cache!Members
      <3>2. QED
        BY <1>8, <3>1
    <2>2. QED
      BY <1>1, <1>5, <2>1 DEF Cache!Members
  <1>11. /\ c.values[s] \in Seq(Uuids) /\ Cache!IsInjective(c.values[s])
         /\ u \notin Cache!ToSet(c.values[s])
    <2>1. ~(c.sizes[s][u] > 0)
      OBVIOUS
    <2>2. QED
      BY <1>1, <2>1, StoreTypes DEF Cache!Orders
  <1>12. /\ Cache!IsInjective(v) /\ Cache!ToSet(v) = Cache!ToSet(c.values[s]) \cup {u}
         /\ \A a, b : Cache!Older(v, a, b) <=> \/ Cache!Older(c.values[s], a, b)
                                               \/ b = u /\ a \in Cache!ToSet(c.values[s])
    BY <1>4, <1>11, AppendedIs
  <1>13. /\ c.entries[i] \in Seq(Cache!Keys) /\ Cache!IsInjective(c.entries[i])
         /\ Cache!ToSet(c.entries[i]) = Cache!KeysIn(c, c.members[i])
    BY <1>1, StoreTypes DEF Cache!Orders
  <1>14. /\ Cache!IsInjective(q) /\ Cache!ToSet(q) = Cache!ToSet(c.entries[i]) \cup {e}
         /\ \A a, b : Cache!Older(q, a, b) <=> \/ Cache!Older(c.entries[i], a, b)
                                               \/ b = e /\ a \in Cache!ToSet(c.entries[i])
    <2>1. e \notin Cache!ToSet(c.entries[i])
      BY <1>8, <1>13
    <2>2. q = Append(c.entries[i], e)
      BY <1>4, <1>7
    <2>3. QED
      BY <1>13, <2>1, <2>2, AppendedIs
  <1>15. ASSUME NEW t \in Subjects
         PROVE  /\ Cache!IsInjective(d.values[t])
                /\ \A w \in Uuids : w \in Cache!ToSet(d.values[t]) <=> d.sizes[t][w] > 0
    <2>1. \A w \in Uuids : w \in Cache!ToSet(c.values[t]) <=> c.sizes[t][w] > 0
      BY <1>1 DEF Cache!Orders
    <2>2. CASE t = s
      <3>1. d.values[t] = v
        BY <1>6, <2>2
      <3>2. z > 0
        OBVIOUS
      <3>3. ASSUME NEW w \in Uuids PROVE w \in Cache!ToSet(v) <=> d.sizes[t][w] > 0
        <4>1. d.sizes[t][w] = IF w = u THEN z ELSE c.sizes[t][w]
          BY <1>6, <2>2
        <4>2. w \in Cache!ToSet(v) <=> (w \in Cache!ToSet(c.values[t]) \/ w = u)
          BY <1>12, <2>2
        <4>3. QED
          BY <2>1, <3>2, <4>1, <4>2
      <3>4. QED
        BY <1>12, <3>1, <3>3
    <2>3. CASE t # s
      BY <1>1, <1>6, <2>3 DEF Cache!Orders
    <2>4. QED
      BY <2>2, <2>3
  <1>16. ASSUME NEW j \in Cache!Identities
         PROVE  /\ Cache!IsInjective(d.entries[j])
                /\ Cache!ToSet(d.entries[j]) = Cache!KeysIn(d, d.members[j])
    <2>1. s \in c.members[j] <=> j = i
      BY <1>1, <1>2 DEF Cache!Members
    <2>2. Cache!KeysIn(d, d.members[j]) = IF j = i THEN Cache!KeysIn(c, c.members[j]) \cup {e}
                                          ELSE Cache!KeysIn(c, c.members[j])
      BY <1>5, <1>8, <2>1
    <2>3. CASE j = i
      <3>1. d.entries[j] = q
        BY <1>6, <2>3
      <3>2. QED
        BY <1>13, <1>14, <2>2, <2>3, <3>1
    <2>4. CASE j # i
      <3>1. d.entries[j] = c.entries[j]
        BY <1>6, <2>4
      <3>2. QED
        BY <1>1, <2>2, <2>4, <3>1 DEF Cache!Orders
    <2>5. QED
      BY <2>3, <2>4
  <1>17. ASSUME NEW t \in Subjects, d.identity[t] # NoUser, NEW a \in Uuids, NEW b \in Uuids
         PROVE  Cache!Older(d.entries[d.identity[t]], <<t, a>>, <<t, b>>)
                  <=> Cache!Older(d.values[t], a, b)
    <2>1. PICK j \in Cache!Identities : j = d.identity[t] /\ j = c.identity[t]
      <3>1. d.identity = c.identity /\ c.identity[t] # NoUser
        BY <1>5, <1>17
      <3>2. c.identity \in [Subjects -> Cache!Identities \cup {NoUser}]
        BY <1>1, StoreTypes
      <3>3. c.identity[t] \in Cache!Identities
        BY <3>1, <3>2
      <3>4. QED
        BY <3>1, <3>3
    <2>2. Cache!Older(c.entries[j], <<t, a>>, <<t, b>>) <=> Cache!Older(c.values[t], a, b)
      BY <1>1, <1>5, <1>17, <2>1 DEF Cache!Orders
    <2>3. CASE j # i
      <3>1. t # s /\ d.entries[j] = c.entries[j]
        BY <1>2, <1>6, <2>1, <2>3
      <3>2. QED
        BY <1>6, <2>1, <2>2, <3>1
    <2>4. CASE j = i
      <3>1. Cache!Older(d.entries[j], <<t, a>>, <<t, b>>)
              <=> \/ Cache!Older(c.entries[j], <<t, a>>, <<t, b>>)
                  \/ <<t, b>> = e /\ <<t, a>> \in Cache!ToSet(c.entries[j])
        BY <1>6, <1>14, <2>4
      <3>2. CASE t # s
        <4>1. <<t, b>> # e
          BY <1>7, <3>2
        <4>2. d.values[t] = c.values[t]
          BY <1>6, <3>2
        <4>3. QED
          BY <2>1, <2>2, <3>1, <4>1, <4>2
      <3>3. CASE t = s
        <4>1. <<t, b>> = e <=> b = u
          BY <1>7, <3>3
        <4>2. s \in c.members[i]
          BY <1>1, <1>2 DEF Cache!Members
        <4>3. <<s, a>> \in Cache!KeysIn(c, c.members[i]) <=> c.sizes[s][a] > 0
          <5>1. <<s, a>> \in Cache!Keys /\ <<s, a>>[1] = s /\ <<s, a>>[2] = a
            BY DEF Cache!Keys
          <5>2. QED
            BY <4>2, <5>1 DEF Cache!KeysIn
        <4>4. a \in Cache!ToSet(c.values[s]) <=> c.sizes[s][a] > 0
          BY <1>1 DEF Cache!Orders
        <4>5. Cache!Older(d.values[t], a, b)
                <=> Cache!Older(c.values[t], a, b) \/ (b = u /\ a \in Cache!ToSet(c.values[s]))
          BY <1>6, <1>12, <3>3
        <4>6. QED
          BY <1>13, <2>1, <2>2, <2>4, <3>1, <3>3, <4>1, <4>3, <4>4, <4>5
      <3>4. QED
        BY <3>2, <3>3
    <2>5. QED
      BY <2>3, <2>4
  <1>18. Cache!Orders(d)
    BY <1>15, <1>16, <1>17 DEF Cache!Orders
  <1>19. Cache!Counters(d)
    <2>1. ASSUME NEW t \in Subjects PROVE d.subjectBytes[t] = Bytes(d, {t})
      <3>1. c.subjectBytes[t] = Bytes(c, {t})
        BY <1>1, CountersAre
      <3>2. d.subjectBytes[t] = IF t = s THEN c.subjectBytes[t] + z ELSE c.subjectBytes[t]
        <4>1. c.subjectBytes \in [Subjects -> Nat]
          BY <1>1, StoreTypes
        <4>2. d.subjectBytes = [c.subjectBytes EXCEPT ![s] = c.subjectBytes[s] + z]
          BY <1>5
        <4>3. QED
          BY <4>1, <4>2
      <3>3. QED
        BY <1>9, <3>1, <3>2
    <2>2. ASSUME NEW j \in Cache!Identities PROVE d.identityBytes[j] = Bytes(d, d.members[j])
      <3>1. c.identityBytes[j] = Bytes(c, c.members[j])
        BY <1>1, CountersAre
      <3>2. d.identityBytes[j] = IF j = i THEN c.identityBytes[j] + z ELSE c.identityBytes[j]
        <4>1. c.identityBytes \in [Cache!Identities -> Nat]
          BY <1>1, StoreTypes
        <4>2. d.identityBytes = [c.identityBytes EXCEPT ![i] = c.identityBytes[i] + z]
          BY <1>5
        <4>3. QED
          BY <4>1, <4>2
      <3>3. s \in c.members[j] <=> j = i
        BY <1>1, <1>2 DEF Cache!Members
      <3>4. QED
        BY <1>5, <1>9, <3>1, <3>2, <3>3
    <2>3. d.total = Bytes(d, Subjects)
      BY <1>1, <1>5, <1>9, CountersAre
    <2>4. QED
      BY <2>1, <2>2, <2>3, CountersAre
  <1>20. QED
    BY <1>3, <1>5, <1>10, <1>18, <1>19 DEF Cache!WellFormed

-------------------------------------------------------------------------------
\* The events of a batch

\* Beyond subject s, d differs from c only by values that its identity lost.
Replaces(c, d, s) ==
  /\ d.identity = c.identity /\ d.members = c.members
  /\ \A t \in Subjects : t # s => \A u \in Uuids : d.sizes[t][u] \in {0, c.sizes[t][u]}
  /\ \A i \in Cache!Identities : i # c.identity[s] => d.entries[i] = c.entries[i]

LEMMA ReplacesBoth ==
  ASSUME NEW b, NEW c, NEW d, NEW s, Replaces(b, c, s), Replaces(c, d, s)
  PROVE  Replaces(b, d, s)
  BY DEF Replaces

LEMMA LighterReplaces ==
  ASSUME NEW c, Cache!WellFormed(c), NEW s \in Subjects, NEW S, NEW d, Lighter(c, d, S),
         \A t \in S : c.identity[t] = c.identity[s]
  PROVE  Replaces(c, d, s)
  <1>1. /\ d.identity = c.identity /\ d.members = c.members
        /\ \A t \in Subjects, u \in Uuids : d.sizes[t][u] \in {0, c.sizes[t][u]}
        /\ \A i \in Cache!Identities :
             (\A t \in S : c.identity[t] # i) => d.entries[i] = c.entries[i]
    BY LighterMeans
  <1>2. QED
    BY <1>1 DEF Replaces

LEMMA CountedKeeps ==
  ASSUME NEW c, Cache!WellFormed(c), NEW s \in Subjects, c.identity[s] # NoUser, NEW d,
         d = Cache!DiscardAll(c, SubSeq(Cache!KeysOf(c, s), 1, Len(c.values[s]) - MaxStates))
  PROVE  Lighter(c, d, {s}) /\ Len(d.values[s]) <= MaxStates
  <1>1. c \in Cache!Caches /\ Cache!Orders(c)
    BY DEF Cache!WellFormed
  <1>2. PICK q \in Seq(Cache!Keys) : q = Cache!KeysOf(c, s)
    BY KeysOfIs
  <1>3. PICK N \in Nat : N = Len(c.values[s]) /\ Len(q) = N
    BY <1>2, KeysOfIs
  <1>4. Cache!IsInjective(q) /\ Cache!ToSet(q) = Cache!KeysIn(c, {s})
    BY <1>2, KeysOfIs
  <1>5. PICK m \in Nat \ {0} : m = MaxStates
    BY CacheNumbers
  <1>6. PICK n \in 0..N : n = IF N > m THEN N - m ELSE 0
    <2>1. N > m => N - m \in 0..N
      BY <1>5
    <2>2. 0 \in 0..N
      OBVIOUS
    <2>3. QED
      BY <2>1, <2>2
  <1>7. PICK p : p = SubSeq(q, 1, n)
    OBVIOUS
  <1>8. SubSeq(Cache!KeysOf(c, s), 1, Len(c.values[s]) - MaxStates) = p
    <2>1. CASE N > m
      BY <1>2, <1>3, <1>5, <1>6, <1>7, <2>1
    <2>2. CASE ~(N > m)
      <3>1. N - m <= 0 /\ N - m \in Int /\ n = 0
        BY <1>6, <2>2
      <3>2. SubSeq(q, 1, N - m) = <<>> /\ SubSeq(q, 1, 0) = <<>>
        BY <3>1, SubSeqEmpty
      <3>3. QED
        BY <1>2, <1>3, <1>5, <1>7, <3>1, <3>2
    <2>3. QED
      BY <2>1, <2>2
  <1>9. /\ p \in Seq(Cache!Keys) /\ Cache!IsInjective(p) /\ Len(p) = n
        /\ Cache!ToSet(p) \subseteq Cache!KeysIn(c, {s})
    BY <1>3, <1>4, <1>7, PrefixIs
  <1>10. ASSUME NEW k \in 1..Len(p) PROVE c.identity[p[k][1]] # NoUser
    <2>1. p[k] \in Cache!KeysIn(c, {s})
      BY <1>9, LenProperties DEF Cache!ToSet
    <2>2. p[k][1] = s
      BY <2>1 DEF Cache!KeysIn
    <2>3. QED
      BY <2>2
  <1>11. d = Cache!DiscardAll(c, p)
    BY <1>8
  <1>12. Cache!WellFormed(d) /\ Without(c, d, Cache!ToSet(p))
    BY <1>9, <1>10, <1>11, DiscardAllKeeps
  <1>13. Lighter(c, d, {s})
    BY <1>9, <1>12 DEF Lighter, KeysFor, Cache!KeysIn
  <1>14. d \in Cache!Caches
    BY <1>12 DEF Cache!WellFormed
  <1>15. PICK K : K = Cache!KeysIn(c, {s})
    OBVIOUS
  <1>16. Cache!KeysIn(d, {s}) = K \ Cache!ToSet(p)
    <2>1. PICK P, S : P = Cache!ToSet(p) /\ S = {s}
      OBVIOUS
    <2>2. Reduced(c, d, P)
      BY <1>1, <1>12, <1>14, <2>1 DEF Reduced
    <2>3. Cache!KeysIn(d, S) = Cache!KeysIn(c, S) \ P
      BY <2>2, ReducedKeys
    <2>4. QED
      BY <1>15, <2>1, <2>3
  <1>17. IsFiniteSet(K) /\ Cardinality(K) = N
    BY <1>1, <1>2, <1>3, <1>4, <1>15, KeysAreFinite, LengthIs
  <1>18. K \cap Cache!ToSet(p) = Cache!ToSet(p) /\ Cardinality(Cache!ToSet(p)) = n
    BY <1>9, <1>15, LengthIs
  <1>19. Cardinality(Cache!KeysIn(d, {s})) = N - n
    BY <1>16, <1>17, <1>18, FS_Difference
  <1>20. Len(d.values[s]) = Cardinality(Cache!KeysIn(d, {s}))
    <2>1. PICK r \in Seq(Cache!Keys) : r = Cache!KeysOf(d, s)
      BY <1>12, KeysOfIs
    <2>2. /\ Len(r) = Len(d.values[s]) /\ Cache!IsInjective(r)
          /\ Cache!ToSet(r) = Cache!KeysIn(d, {s})
      BY <1>12, <2>1, KeysOfIs
    <2>3. QED
      BY <2>2, LengthIs
  <1>21. QED
    BY <1>5, <1>6, <1>13, <1>19, <1>20

LEMMA FittingKeeps ==
  ASSUME NEW c, Cache!WellFormed(c), NEW s \in Subjects, NEW d,
         d = Cache!DiscardAll(c, Cache!Excess(c, Cache!KeysOf(c, s), c.subjectBytes[s], CacheBytes))
  PROVE  Lighter(c, d, {s}) /\ d.subjectBytes[s] <= CacheBytes
  <1>1. PICK q \in Seq(Cache!Keys) : q = Cache!KeysOf(c, s)
    BY KeysOfIs
  <1>2. Cache!IsInjective(q) /\ Cache!ToSet(q) = Cache!KeysIn(c, {s})
    BY <1>1, KeysOfIs
  <1>3. PICK b : b = c.subjectBytes[s] /\ b = Bytes(c, {s})
    BY CountersAre DEF Cache!WellFormed
  <1>4. PICK room \in Nat : room = CacheBytes
    BY CacheNumbers
  <1>5. d = Cache!DiscardAll(c, Cache!Excess(c, q, b, room))
    BY <1>1, <1>3, <1>4
  <1>6. Lighter(c, d, {s}) /\ Bytes(d, {s}) <= room
    BY <1>2, <1>3, <1>5, ExcessGoes
  <1>7. d.subjectBytes[s] = Bytes(d, {s})
    BY <1>6, CountersAre DEF Lighter, Cache!WellFormed
  <1>8. QED
    BY <1>4, <1>6, <1>7

LEMMA StoredKeeps ==
  ASSUME NEW c, Cache!WellFormed(c), Cache!Within(c), NEW s \in Subjects,
         c.identity[s] # NoUser, NEW u \in Uuids, NEW size \in Sizes, NEW r,
         r = Cache!Stored(c, s, u, size)
  PROVE  Cache!WellFormed(r) /\ Cache!Within(r) /\ Replaces(c, r, s)
  <1>1. c \in Cache!Caches /\ Cache!Members(c)
    BY DEF Cache!WellFormed
  <1>2. PICK i \in Cache!Identities : i = c.identity[s]
    BY <1>1, StoreTypes
  <1>3. PICK z \in Nat \ {0} : z = size
    BY CacheNumbers
  <1>4. PICK old : old = Cache!Discard(c, s, u)
    OBVIOUS
  <1>5. Cache!WellFormed(old) /\ Without(c, old, {<<s, u>>})
    BY <1>4, DiscardKeeps
  <1>6. Lighter(c, old, {s})
    <2>1. {<<s, u>>} \in SUBSET KeysFor({s})
      BY DEF KeysFor, Cache!Keys
    <2>2. QED
      BY <1>5, <2>1 DEF Lighter
  <1>7. /\ old \in Cache!Caches /\ old.identity = c.identity /\ old.members = c.members
        /\ Cache!Within(old) /\ Cache!Quota(old) = Cache!Quota(c)
        /\ old.sizes[s][u] = 0
    BY <1>5, <1>6, LighterMeans, LighterWithin DEF Cache!WellFormed, Without
  <1>8. Replaces(c, old, s)
    BY <1>6, LighterReplaces
  <1>9. CASE size > Cache!Quota(c)
    <2>1. r = old
      BY <1>4, <1>9 DEF Cache!Stored
    <2>2. QED
      BY <1>5, <1>7, <1>8, <2>1
  <1>10. CASE ~(size > Cache!Quota(c))
    <2>1. PICK new : new = Added(old, s, u, z)
      OBVIOUS
    <2>2. Cache!WellFormed(new)
      BY <1>2, <1>5, <1>7, <2>1, AddedKeeps
    <2>3. /\ new \in Cache!Caches
          /\ new.values = [old.values EXCEPT ![s] = Append(old.values[s], u)]
          /\ new.sizes = [old.sizes EXCEPT ![s] = [old.sizes[s] EXCEPT ![u] = z]]
          /\ new.identity = c.identity /\ new.members = c.members
          /\ new.entries = [old.entries EXCEPT ![i] = Append(old.entries[i], <<s, u>>)]
          /\ new.identityBytes = [old.identityBytes EXCEPT ![i] = old.identityBytes[i] + z]
          /\ new.subjectBytes = [old.subjectBytes EXCEPT ![s] = old.subjectBytes[s] + z]
      <3>1. PICK n \in Nat : n = z
        OBVIOUS
      <3>2. Adds(old, s, u, i, n, Added(old, s, u, n))
        BY <1>2, <1>7, AddedFields
      <3>3. Adds(old, s, u, i, z, new)
        BY <2>1, <3>1, <3>2
      <3>4. QED
        BY <1>7, <3>3 DEF Adds
    <2>4. /\ \A t \in Subjects : t # s => /\ new.values[t] = old.values[t]
                                         /\ new.subjectBytes[t] = old.subjectBytes[t]
          /\ \A t \in Subjects, w \in Uuids :
               new.sizes[t][w] = IF t = s /\ w = u THEN z ELSE old.sizes[t][w]
          /\ \A j \in Cache!Identities : j # i => /\ new.entries[j] = old.entries[j]
                                                 /\ new.identityBytes[j] = old.identityBytes[j]
      <3>1. /\ DOMAIN old.values = Subjects /\ DOMAIN old.entries = Cache!Identities
            /\ DOMAIN old.identityBytes = Cache!Identities /\ DOMAIN old.subjectBytes = Subjects
            /\ old.sizes \in [Subjects -> [Uuids -> Nat]]
        BY <1>7, StoreTypes
      <3>2. \A t \in Subjects : t # s => /\ new.values[t] = old.values[t]
                                        /\ new.subjectBytes[t] = old.subjectBytes[t]
        BY <2>3, <3>1
      <3>3. \A j \in Cache!Identities : j # i => /\ new.entries[j] = old.entries[j]
                                                /\ new.identityBytes[j] = old.identityBytes[j]
        BY <2>3, <3>1
      <3>4. new.sizes = [old.sizes EXCEPT ![s] = [old.sizes[s] EXCEPT ![u] = z]]
        BY <2>3
      <3>5. \A t \in Subjects, w \in Uuids :
               new.sizes[t][w] = IF t = s /\ w = u THEN z ELSE old.sizes[t][w]
        BY <3>1, <3>4
      <3>6. QED
        BY <3>2, <3>3, <3>5
    <2>5. PICK counted : counted = Cache!DiscardAll(new,
                           SubSeq(Cache!KeysOf(new, s), 1, Len(new.values[s]) - MaxStates))
      OBVIOUS
    <2>6. PICK fitting : fitting = Cache!DiscardAll(counted,
                           Cache!Excess(counted, Cache!KeysOf(counted, s),
                                        counted.subjectBytes[s], CacheBytes))
      OBVIOUS
    <2>7. r = Cache!Trim(fitting, i)
      BY <1>2, <1>3, <1>4, <1>7, <1>10, <2>1, <2>5, <2>6 DEF Cache!Stored, Added
    <2>8. Lighter(new, counted, {s}) /\ Len(counted.values[s]) <= MaxStates
      BY <1>2, <2>2, <2>3, <2>5, CountedKeeps
    <2>9. Cache!WellFormed(counted) /\ counted.members = c.members
      BY <2>2, <2>3, <2>8, LighterMeans
    <2>10. Lighter(counted, fitting, {s}) /\ fitting.subjectBytes[s] <= CacheBytes
      BY <2>6, <2>9, FittingKeeps
    <2>11. Cache!WellFormed(fitting) /\ fitting.members = c.members
      BY <2>9, <2>10, LighterMeans
    <2>12. Lighter(fitting, r, c.members[i]) /\ r.identityBytes[i] <= Cache!Quota(fitting)
      BY <2>7, <2>11, TrimKeeps
    <2>13. s \in c.members[i] /\ \A t \in c.members[i] : c.identity[t] = i
      BY <1>1, <1>2 DEF Cache!Members
    <2>14. Lighter(new, r, c.members[i])
      <3>1. Lighter(new, counted, c.members[i]) /\ Lighter(counted, fitting, c.members[i])
        BY <2>8, <2>10, <2>13, LighterAmongMore
      <3>2. Lighter(new, fitting, c.members[i])
        BY <2>2, <3>1, LighterBoth
      <3>3. QED
        BY <2>2, <2>12, <3>2, LighterBoth
    <2>15. /\ Cache!WellFormed(r) /\ Cache!Quota(r) = Cache!Quota(c)
           /\ Cache!Quota(fitting) = Cache!Quota(c)
           /\ r.identity = c.identity /\ r.members = c.members
      BY <2>2, <2>3, <2>11, <2>14, LighterMeans, SameQuota
    <2>16. r \in Cache!Caches /\ counted \in Cache!Caches /\ fitting \in Cache!Caches
      BY <2>9, <2>11, <2>15 DEF Cache!WellFormed
    <2>17. Len(r.values[s]) <= MaxStates /\ r.subjectBytes[s] <= CacheBytes
      <3>1. /\ Len(r.values[s]) <= Len(fitting.values[s])
            /\ r.subjectBytes[s] <= fitting.subjectBytes[s]
        BY <2>11, <2>12, LighterMeans
      <3>2. Len(fitting.values[s]) <= Len(counted.values[s])
        BY <2>9, <2>10, LighterMeans
      <3>3. /\ Len(r.values[s]) \in Nat /\ Len(fitting.values[s]) \in Nat
            /\ Len(counted.values[s]) \in Nat
            /\ r.subjectBytes[s] \in Nat /\ fitting.subjectBytes[s] \in Nat
        BY <2>16, StoreTypes, LenProperties
      <3>4. PICK a \in Nat, b \in Nat : a = MaxStates /\ b = CacheBytes
        BY CacheNumbers
      <3>5. PICK x \in Nat, y \in Nat, v \in Nat :
              x = Len(r.values[s]) /\ y = Len(fitting.values[s]) /\ v = Len(counted.values[s])
        BY <3>3
      <3>6. x <= y /\ y <= v /\ v <= a
        BY <2>8, <3>1, <3>2, <3>4, <3>5
      <3>7. x <= a
        BY <3>6
      <3>8. r.subjectBytes[s] <= b
        BY <2>10, <3>1, <3>3, <3>4
      <3>9. QED
        BY <3>4, <3>5, <3>7, <3>8
    <2>18. ASSUME NEW t \in Subjects, t # s PROVE Cache!Limits(r, t)
      <3>1. /\ Len(r.values[t]) <= Len(new.values[t])
            /\ r.subjectBytes[t] <= new.subjectBytes[t]
        BY <2>2, <2>14, LighterMeans
      <3>2. new.values[t] = old.values[t] /\ new.subjectBytes[t] = old.subjectBytes[t]
        BY <2>4, <2>18
      <3>3. Len(old.values[t]) <= MaxStates /\ old.subjectBytes[t] <= CacheBytes
        BY <1>7, WithinIs DEF WithinSubjects, Cache!Limits
      <3>4. /\ Len(r.values[t]) \in Nat /\ Len(old.values[t]) \in Nat
            /\ r.subjectBytes[t] \in Nat /\ old.subjectBytes[t] \in Nat
        BY <1>7, <2>16, StoreTypes, LenProperties
      <3>5. MaxStates \in Nat /\ CacheBytes \in Nat
        BY CacheNumbers
      <3>6. Len(r.values[t]) <= MaxStates /\ r.subjectBytes[t] <= CacheBytes
        BY <3>1, <3>2, <3>3, <3>4, <3>5
      <3>7. QED
        BY <3>6 DEF Cache!Limits
    <2>19. ASSUME NEW t \in Subjects, NEW w \in Uuids
           PROVE  /\ r.sizes[t][w] \in Sizes \cup {0}
                  /\ t # s => r.sizes[t][w] \in {0, c.sizes[t][w]}
      <3>1. r.sizes[t][w] \in {0, new.sizes[t][w]}
        BY <2>2, <2>14, LighterMeans
      <3>2. new.sizes[t][w] = IF t = s /\ w = u THEN z ELSE old.sizes[t][w]
        BY <2>4
      <3>3. old.sizes[t][w] \in Sizes \cup {0}
        BY <1>7, WithinIs DEF WithinSubjects
      <3>4. old.sizes[t][w] \in {0, c.sizes[t][w]}
        BY <1>6, LighterMeans
      <3>5. QED
        BY <1>3, <3>1, <3>2, <3>3, <3>4
    <2>20. WithinSubjects(r)
      <3>1. \A t \in Subjects : Cache!Limits(r, t)
        BY <2>17, <2>18 DEF Cache!Limits
      <3>2. QED
        BY <2>19, <3>1 DEF WithinSubjects
    <2>21. ASSUME NEW j \in Cache!Identities PROVE r.identityBytes[j] <= Cache!Quota(r)
      <3>1. CASE j = i
        BY <2>12, <2>15, <3>1
      <3>2. CASE j # i
        <4>1. r.identityBytes[j] <= new.identityBytes[j]
          BY <2>2, <2>14, LighterMeans
        <4>2. new.identityBytes[j] = old.identityBytes[j]
          BY <2>4, <3>2
        <4>3. old.identityBytes[j] <= Cache!Quota(old)
          BY <1>7, WithinIs DEF WithinShares
        <4>4. r.identityBytes[j] \in Nat /\ old.identityBytes[j] \in Nat /\ Cache!Quota(c) \in Nat
          BY <1>1, <1>7, <2>16, StoreTypes, QuotaIs
        <4>5. QED
          BY <1>7, <2>15, <4>1, <4>2, <4>3, <4>4
      <3>3. QED
        BY <3>1, <3>2
    <2>22. Cache!Within(r)
      BY <2>20, <2>21, WithinIs DEF WithinShares
    <2>23. ASSUME NEW j \in Cache!Identities, j # c.identity[s]
           PROVE  r.entries[j] = c.entries[j]
      <3>1. r.entries[j] = new.entries[j]
        <4>1. PICK S : S = c.members[i]
          OBVIOUS
        <4>2. \A t \in S : new.identity[t] # j
          BY <1>2, <2>3, <2>13, <2>23, <4>1
        <4>3. Lighter(new, r, S)
          BY <2>14, <4>1
        <4>4. QED
          BY <2>2, <4>2, <4>3, LighterMeans
      <3>2. new.entries[j] = old.entries[j]
        BY <1>2, <2>4, <2>23
      <3>3. old.entries[j] = c.entries[j]
        BY <1>8, <2>23 DEF Replaces
      <3>4. QED
        BY <3>1, <3>2, <3>3
    <2>24. Replaces(c, r, s)
      BY <2>15, <2>19, <2>23 DEF Replaces
    <2>25. QED
      BY <2>15, <2>22, <2>24
  <1>11. QED
    BY <1>9, <1>10

-------------------------------------------------------------------------------
\* The operations

LEMMA DiscardLightens ==
  ASSUME NEW c, Cache!WellFormed(c), NEW s \in Subjects, c.identity[s] # NoUser, NEW u \in Uuids
  PROVE  Lighter(c, Cache!Discard(c, s, u), {s})
  <1>1. /\ Cache!WellFormed(Cache!Discard(c, s, u))
        /\ Without(c, Cache!Discard(c, s, u), {<<s, u>>})
    BY DiscardKeeps
  <1>2. {<<s, u>>} \in SUBSET KeysFor({s})
    BY DEF KeysFor, Cache!Keys
  <1>3. QED
    BY <1>1, <1>2 DEF Lighter

LEMMA PrunedKeeps ==
  ASSUME NEW c, Cache!WellFormed(c), Cache!Within(c), NEW s \in Subjects,
         c.identity[s] # NoUser, NEW allowed, NEW d, d = Cache!Pruned(c, s, allowed)
  PROVE  Cache!WellFormed(d) /\ Cache!Within(d) /\ Replaces(c, d, s)
  <1>1. c \in Cache!Caches
    BY DEF Cache!WellFormed
  <1>2. PICK q \in Seq(Uuids) : q = c.values[s]
    BY <1>1, StoreTypes
  <1>3. PICK N \in Nat : N = Len(q)
    BY LenProperties
  <1>4. PICK t : PruneSteps(t, c, s, q, allowed, N) /\ d = t[N]
    BY <1>2, <1>3, PruneLoop
  <1>5. DEFINE S == {n \in Nat : n <= N => Lighter(c, t[n], {s})}
  <1>6. 0 \in S
    <2>1. t[0] = c
      BY <1>4 DEF PruneSteps
    <2>2. QED
      BY <2>1, AlreadyLight
  <1>7. ASSUME NEW n \in Nat, n \in S PROVE n + 1 \in S
    <2>1. SUFFICES ASSUME n + 1 <= N PROVE Lighter(c, t[n + 1], {s})
      OBVIOUS
    <2>2. PICK b, e, u : b = t[n] /\ e = t[n + 1] /\ u = q[n + 1]
      OBVIOUS
    <2>3. n + 1 \in 1..N /\ n + 1 - 1 = n /\ n + 1 \in 1..Len(q)
      BY <1>3, <2>1
    <2>4. e = PruneStep(b, s, u, allowed)
      BY <1>4, <2>2, <2>3 DEF PruneSteps
    <2>5. Lighter(c, b, {s})
      BY <1>7, <2>1, <2>2
    <2>6. u \in Uuids
      BY <2>2, <2>3, ElementOfSeq
    <2>7. Cache!WellFormed(b) /\ b.identity[s] # NoUser
      BY <2>5, LighterMeans
    <2>8. Lighter(b, e, {s})
      <3>1. CASE u \in allowed
        BY <2>4, <2>7, <3>1, AlreadyLight DEF PruneStep
      <3>2. CASE u \notin allowed
        BY <2>4, <2>6, <2>7, <3>2, DiscardLightens DEF PruneStep
      <3>3. QED
        BY <3>1, <3>2
    <2>9. QED
      BY <2>2, <2>5, <2>8, LighterBoth
  <1>8. N \in S
    <2>1. HIDE DEF S
    <2>2. QED
      BY <1>6, <1>7, FromZero
  <1>9. Lighter(c, d, {s})
    BY <1>4, <1>8
  <1>10. QED
    BY <1>9, LighterMeans, LighterWithin, LighterReplaces

LEMMA StoredAllKeeps ==
  ASSUME NEW c, Cache!WellFormed(c), Cache!Within(c), NEW s \in Subjects,
         c.identity[s] # NoUser, NEW q \in Seq(Uuids \X Sizes), NEW allowed, NEW d,
         d = Cache!StoredAll(c, s, q, allowed)
  PROVE  Cache!WellFormed(d) /\ Cache!Within(d) /\ Replaces(c, d, s)
  <1>1. c \in Cache!Caches
    BY DEF Cache!WellFormed
  <1>2. PICK N \in Nat : N = Len(q)
    BY LenProperties
  <1>3. PICK t : StoreSteps(t, c, s, q, allowed, N) /\ d = t[N]
    BY <1>2, StoreLoop
  <1>4. DEFINE Right(b) == Cache!WellFormed(b) /\ Cache!Within(b) /\ Replaces(c, b, s)
               S == {n \in Nat : n <= N => Right(t[n])}
  <1>5. 0 \in S
    <2>1. t[0] = c
      BY <1>3 DEF StoreSteps
    <2>2. Replaces(c, c, s)
      BY DEF Replaces
    <2>3. QED
      BY <2>1, <2>2
  <1>6. ASSUME NEW n \in Nat, n \in S PROVE n + 1 \in S
    <2>1. SUFFICES ASSUME n + 1 <= N PROVE Right(t[n + 1])
      OBVIOUS
    <2>2. PICK b, e, x : b = t[n] /\ e = t[n + 1] /\ x = q[n + 1]
      OBVIOUS
    <2>3. n + 1 \in 1..N /\ n + 1 - 1 = n /\ n + 1 \in 1..Len(q)
      BY <1>2, <2>1
    <2>4. e = StoreStep(b, s, x, allowed)
      BY <1>3, <2>2, <2>3 DEF StoreSteps
    <2>5. Right(b)
      BY <1>6, <2>1, <2>2
    <2>6. x \in Uuids \X Sizes
      BY <2>2, <2>3, ElementOfSeq
    <2>7. b.identity[s] # NoUser
      BY <2>5 DEF Replaces
    <2>8. Right(e)
      <3>1. CASE x[1] \in allowed
        <4>1. PICK u \in Uuids, z \in Sizes : x[1] = u /\ x[2] = z
          BY <2>6
        <4>2. e = Cache!Stored(b, s, u, z)
          BY <2>4, <3>1, <4>1 DEF StoreStep
        <4>3. Cache!WellFormed(e) /\ Cache!Within(e) /\ Replaces(b, e, s)
          BY <2>5, <2>7, <4>2, StoredKeeps
        <4>4. QED
          BY <2>5, <4>3, ReplacesBoth
      <3>2. CASE x[1] \notin allowed
        BY <2>4, <2>5, <3>2 DEF StoreStep
      <3>3. QED
        BY <3>1, <3>2
    <2>9. QED
      BY <2>2, <2>8
  <1>7. N \in S
    <2>1. HIDE DEF S
    <2>2. QED
      BY <1>5, <1>6, FromZero
  <1>8. QED
    BY <1>3, <1>7

\* A batch: the values of s, and those that its identity loses for them.
LEMMA ApplyKeeps ==
  ASSUME NEW c, Cache!WellFormed(c), Cache!Within(c), NEW s \in Subjects,
         NEW events \in Cache!Batches, NEW allowed,
         NEW b, b = Cache!Registered(c, s, NoUser), NEW d,
         d = Cache!StoredAll(Cache!Pruned(b, s, allowed), s, events, allowed)
  PROVE  Cache!WellFormed(d) /\ Cache!Within(d) /\ Replaces(b, d, s)
  <1>1. Cache!WellFormed(b) /\ Cache!Within(b) /\ b.identity[s] # NoUser
    BY RegisteredKeeps
  <1>2. PICK p : p = Cache!Pruned(b, s, allowed)
    OBVIOUS
  <1>3. Cache!WellFormed(p) /\ Cache!Within(p) /\ Replaces(b, p, s)
    BY <1>1, <1>2, PrunedKeeps
  <1>4. p.identity[s] # NoUser
    BY <1>1, <1>3 DEF Replaces
  <1>5. events \in Seq(Uuids \X Sizes)
    BY DEF Cache!Batches
  <1>6. Cache!WellFormed(d) /\ Cache!Within(d) /\ Replaces(p, d, s)
    BY <1>2, <1>3, <1>4, <1>5, StoredAllKeeps
  <1>7. QED
    BY <1>3, <1>6, ReplacesBoth

\* d has lost some values of c.
Loses(c, d) == \A s \in Subjects, u \in Uuids : d.sizes[s][u] \in {0, c.sizes[s][u]}

LEMMA ClearKeeps ==
  ASSUME NEW c, Cache!WellFormed(c), Cache!Within(c), NEW s \in Subjects
  PROVE  /\ Cache!WellFormed(Cache!Cleared(c, s)) /\ Cache!Within(Cache!Cleared(c, s))
         /\ Loses(c, Cache!Cleared(c, s))
  <1>1. CASE c.identity[s] = NoUser
    <2>1. Cache!Cleared(c, s) = c
      BY <1>1 DEF Cache!Cleared
    <2>2. QED
      BY <2>1 DEF Loses
  <1>2. CASE c.identity[s] # NoUser
    BY <1>2, ClearedKeeps DEF Loses
  <1>3. QED
    BY <1>1, <1>2

LEMMA ClearAllKeeps ==
  ASSUME NEW c, Cache!WellFormed(c), Cache!Within(c), NEW q \in Seq(Subjects), NEW d,
         d = Cache!After(Cache!Cleared, c, q)
  PROVE  Cache!WellFormed(d) /\ Cache!Within(d) /\ Loses(c, d)
  <1>1. PICK N \in Nat : N = Len(q)
    BY LenProperties
  <1>2. PICK t : ClearSteps(t, c, q, N) /\ d = t[N]
    BY <1>1, ClearLoop
  <1>3. DEFINE Right(b) == Cache!WellFormed(b) /\ Cache!Within(b) /\ Loses(c, b)
               S == {n \in Nat : n <= N => Right(t[n])}
  <1>4. 0 \in S
    <2>1. t[0] = c
      BY <1>2 DEF ClearSteps
    <2>2. QED
      BY <2>1 DEF Loses
  <1>5. ASSUME NEW n \in Nat, n \in S PROVE n + 1 \in S
    <2>1. SUFFICES ASSUME n + 1 <= N PROVE Right(t[n + 1])
      OBVIOUS
    <2>2. PICK b, e, s : b = t[n] /\ e = t[n + 1] /\ s = q[n + 1]
      OBVIOUS
    <2>3. n + 1 \in 1..N /\ n + 1 - 1 = n /\ n + 1 \in 1..Len(q)
      BY <1>1, <2>1
    <2>4. e = Cache!Cleared(b, s)
      BY <1>2, <2>2, <2>3 DEF ClearSteps
    <2>5. Right(b)
      BY <1>5, <2>1, <2>2
    <2>6. s \in Subjects
      BY <2>2, <2>3, ElementOfSeq
    <2>7. Cache!WellFormed(e) /\ Cache!Within(e) /\ Loses(b, e)
      BY <2>4, <2>5, <2>6, ClearKeeps
    <2>8. Loses(c, e)
      BY <2>5, <2>7 DEF Loses
    <2>9. QED
      BY <2>2, <2>7, <2>8
  <1>6. N \in S
    <2>1. HIDE DEF S
    <2>2. QED
      BY <1>4, <1>5, FromZero
  <1>7. QED
    BY <1>2, <1>6

-------------------------------------------------------------------------------
\* The empty cache

LEMMA EmptyIs ==
  ASSUME NEW c, c = Cache!Empty
  PROVE  Cache!WellFormed(c) /\ Cache!Within(c)
  <1>1. /\ c.values = [s \in Subjects |-> <<>>]
        /\ c.sizes = [s \in Subjects |-> [u \in Uuids |-> 0]]
        /\ c.identity = [s \in Subjects |-> NoUser]
        /\ c.members = [i \in Cache!Identities |-> {}]
        /\ c.entries = [i \in Cache!Identities |-> <<>>]
        /\ c.identityBytes = [i \in Cache!Identities |-> 0]
        /\ c.subjectBytes = [s \in Subjects |-> 0]
        /\ c.total = 0
    BY DEF Cache!Empty
  <1>2. c \in Cache!Caches
    <2>1. /\ [s \in Subjects |-> <<>>] \in [Subjects -> Seq(Uuids)]
          /\ [s \in Subjects |-> [u \in Uuids |-> 0]] \in [Subjects -> [Uuids -> Nat]]
          /\ [s \in Subjects |-> NoUser] \in [Subjects -> Cache!Identities \cup {NoUser}]
          /\ [i \in Cache!Identities |-> {}] \in [Cache!Identities -> SUBSET Subjects]
          /\ [i \in Cache!Identities |-> <<>>] \in [Cache!Identities -> Seq(Cache!Keys)]
          /\ [i \in Cache!Identities |-> 0] \in [Cache!Identities -> Nat]
          /\ [s \in Subjects |-> 0] \in [Subjects -> Nat] /\ 0 \in Nat
      OBVIOUS
    <2>2. QED
      BY <2>1 DEF Cache!Empty, Cache!Caches
  <1>3. \A S : Cache!KeysIn(c, S) = {}
    BY <1>1 DEF Cache!KeysIn, Cache!Keys
  <1>4. NoUser \notin Cache!Identities
    BY CacheNumbers DEF Cache!Identities
  <1>5. Cache!Members(c)
    BY <1>1, <1>3, <1>4, CacheNumbers DEF Cache!Members
  <1>6. /\ Cache!IsInjective(<<>>) /\ Cache!ToSet(<<>>) = {}
        /\ \A a, b : ~ Cache!Older(<<>>, a, b)
    BY DEF Cache!IsInjective, Cache!ToSet, Cache!Older
  <1>7. Cache!Orders(c)
    <2>1. \A s \in Subjects : c.values[s] = <<>> /\ c.identity[s] = NoUser
      BY <1>1
    <2>2. \A s \in Subjects, u \in Uuids : ~(c.sizes[s][u] > 0)
      BY <1>1
    <2>3. \A i \in Cache!Identities : c.entries[i] = <<>>
      BY <1>1
    <2>4. QED
      BY <1>3, <1>6, <2>1, <2>2, <2>3 DEF Cache!Orders
  <1>8. Cache!Counters(c)
    <2>1. \A S : Bytes(c, S) = 0
      BY <1>3, WeightOfNone DEF Bytes
    <2>2. QED
      BY <1>1, <2>1, CountersAre
  <1>9. Cache!Within(c)
    <2>1. Cache!Quota(c) \in Nat
      BY <1>2, <1>5, QuotaIs
    <2>2. \A i \in Cache!Identities : c.identityBytes[i] = 0
      BY <1>1
    <2>3. Len(<<>>) = 0 /\ CacheBytes \in Nat /\ MaxStates \in Nat
      BY CacheNumbers
    <2>4. \A s \in Subjects : c.subjectBytes[s] = 0 /\ Len(c.values[s]) = 0
      BY <1>1, <2>3
    <2>5. \A s \in Subjects, u \in Uuids : c.sizes[s][u] = 0
      BY <1>1
    <2>6. QED
      BY <2>1, <2>2, <2>3, <2>4, <2>5 DEF Cache!Within, Cache!Limits
  <1>10. QED
    BY <1>2, <1>5, <1>7, <1>8, <1>9 DEF Cache!WellFormed

LEMMA CacheBegins ==
  ASSUME Cache!Init
  PROVE  Cache!CacheInv
  BY EmptyIs DEF Cache!Init, Cache!CacheInv

LEMMA CacheSteps ==
  ASSUME Cache!CacheInv, Cache!Next
  PROVE  Cache!CacheInv'
  <1>1. Cache!WellFormed(x1) /\ Cache!Within(x1)
    BY DEF Cache!CacheInv
  <1>2. SUFFICES Cache!WellFormed(x1') /\ Cache!Within(x1')
    BY DEF Cache!CacheInv
  <1>3. ASSUME NEW s \in Subjects, NEW user \in Users \cup {NoUser}, Cache!BeginConnection(s, user)
        PROVE  Cache!WellFormed(x1') /\ Cache!Within(x1')
    BY <1>1, <1>3, RegisteredKeeps DEF Cache!BeginConnection
  <1>4. ASSUME NEW s \in Subjects, NEW events \in Cache!Batches, NEW allowed \in Structures,
               Cache!Apply(s, events, allowed)
        PROVE  Cache!WellFormed(x1') /\ Cache!Within(x1')
    BY <1>1, <1>4, ApplyKeeps DEF Cache!Apply
  <1>5. ASSUME NEW s \in Subjects, Cache!Clear(s)
        PROVE  Cache!WellFormed(x1') /\ Cache!Within(x1')
    BY <1>1, <1>5, ClearKeeps DEF Cache!Clear
  <1>6. ASSUME Cache!ClearAll PROVE Cache!WellFormed(x1') /\ Cache!Within(x1')
    <2>1. Cache!SetToSeq(Subjects) \in Seq(Subjects)
      BY EnumerationIs, CacheNumbers
    <2>2. QED
      BY <1>1, <1>6, <2>1, ClearAllKeeps DEF Cache!ClearAll
  <1>7. QED
    BY <1>3, <1>4, <1>5, <1>6 DEF Cache!Next

-------------------------------------------------------------------------------
\* What the invariant says of the budget

\* So many numbers of at most b
LEMMA TotalAtMost ==
  ASSUME NEW f \in Seq(Nat), NEW b \in Nat, \A k \in 1..Len(f) : f[k] <= b
  PROVE  Total(f) <= Len(f) * b
  <1>1. PICK N \in Nat : N = Len(f)
    OBVIOUS
  <1>2. DEFINE S == {n \in Nat : n <= N => Totals(f)[n] <= n * b}
  <1>3. 0 \in S
    <2>1. Totals(f)[0] = 0 /\ 0 * b = 0
      BY TotalsDef
    <2>2. QED
      BY <2>1
  <1>4. ASSUME NEW n \in Nat, n \in S PROVE n + 1 \in S
    <2>1. SUFFICES ASSUME n + 1 <= N PROVE Totals(f)[n + 1] <= (n + 1) * b
      OBVIOUS
    <2>2. n + 1 \in 1..Len(f) /\ n + 1 - 1 = n /\ n \in 0..Len(f)
      BY <1>1, <2>1
    <2>3. Totals(f)[n + 1] = Totals(f)[n + 1 - 1] + f[n + 1]
      BY <2>2, TotalsDef
    <2>4. Totals(f) \in [0..Len(f) -> Nat]
      BY TotalsDef
    <2>5. Totals(f)[n] \in Nat /\ f[n + 1] \in Nat /\ n * b \in Nat
      <3>1. Totals(f)[n] \in Nat
        BY <2>2, <2>4
      <3>2. f[n + 1] \in Nat
        BY <2>2, ElementOfSeq
      <3>3. QED
        BY <3>1, <3>2
    <2>6. PICK p \in Nat, t \in Nat, g \in Nat : p = n * b /\ t = Totals(f)[n] /\ g = f[n + 1]
      BY <2>5
    <2>7. t <= p /\ g <= b
      BY <1>4, <2>1, <2>2, <2>6
    <2>8. (n + 1) * b = p + b
      BY <2>6
    <2>9. Totals(f)[n + 1] = t + g
      BY <2>2, <2>3, <2>6
    <2>10. QED
      BY <2>7, <2>8, <2>9
  <1>5. HIDE DEF S
  <1>6. N \in S
    BY <1>3, <1>4, FromZero
  <1>7. USE DEF S
  <1>8. QED
    BY <1>1, <1>6 DEF Total

\* f counts what is stored of the subjects M[x], for each x in q: together, of all.
Divides(c, T, q, M, f) ==
  /\ Cache!WellFormed(c) /\ q \in Seq(T) /\ Cache!IsInjective(q)
  /\ f \in Seq(Nat) /\ Len(f) = Len(q)
  /\ \A k \in 1..Len(q) : f[k] = Bytes(c, M[q[k]])
  /\ \A x, y \in T : x # y => M[x] \cap M[y] = {}
  /\ \A k \in 1..Len(q) : M[q[k]] \in SUBSET Subjects
  /\ \A s \in Subjects : Cache!KeysIn(c, {s}) # {} => \E k \in 1..Len(q) : s \in M[q[k]]

LEMMA TotalOfParts ==
  ASSUME NEW c, NEW T, NEW q, NEW M, NEW f, Divides(c, T, q, M, f)
  PROVE  Bytes(c, Subjects) = Total(f)
  <1>1. c \in Cache!Caches /\ Cache!Orders(c)
    BY DEF Divides, Cache!WellFormed
  <1>2. PICK N \in Nat : N = Len(q) /\ DOMAIN q = 1..N /\ N = Len(f)
    BY LenProperties DEF Divides
  <1>3. PICK w, D : w = Cache!SizeIn(c) /\ D = Cache!Keys
    OBVIOUS
  <1>4. PICK S : S = [k \in 1..N |-> Cache!KeysIn(c, M[q[k]])]
    OBVIOUS
  <1>5. w \in [D -> Nat]
    BY <1>1, <1>3, SizesAre
  <1>6. ASSUME NEW k \in 1..N
        PROVE  S[k] \in SUBSET D /\ IsFiniteSet(S[k]) /\ Weight(w, S[k]) = f[k]
    <2>1. S[k] = Cache!KeysIn(c, M[q[k]])
      BY <1>4
    <2>2. f[k] = Bytes(c, M[q[k]])
      BY <1>2 DEF Divides
    <2>3. Cache!KeysIn(c, M[q[k]]) \in SUBSET Cache!Keys /\ IsFiniteSet(Cache!KeysIn(c, M[q[k]]))
      BY <1>1, KeysAreFinite
    <2>4. QED
      BY <1>3, <2>1, <2>2, <2>3 DEF Bytes
  <1>7. ASSUME NEW j \in 1..N, NEW k \in 1..N, j # k PROVE S[j] \cap S[k] = {}
    <2>1. PICK x, y : x = q[j] /\ y = q[k]
      OBVIOUS
    <2>2. x \in T /\ y \in T
      BY <1>2, <2>1, ElementOfSeq DEF Divides
    <2>3. x # y
      BY <1>2, <1>7, <2>1 DEF Divides, Cache!IsInjective
    <2>4. M[x] \cap M[y] = {}
      BY <2>2, <2>3 DEF Divides
    <2>5. \A e \in S[j] : e[1] \in M[x]
      BY <1>4, <2>1 DEF Cache!KeysIn
    <2>6. \A e \in S[k] : e[1] \in M[y]
      BY <1>4, <2>1 DEF Cache!KeysIn
    <2>7. QED
      BY <2>4, <2>5, <2>6
  <1>8. UNION {S[k] : k \in 1..N} = Cache!KeysIn(c, Subjects)
    <2>1. PICK A, K : A = UNION {S[k] : k \in 1..N} /\ K = Cache!KeysIn(c, Subjects)
      OBVIOUS
    <2>2. ASSUME NEW e \in A PROVE e \in K
      <3>1. PICK k \in 1..N : e \in S[k]
        BY <2>1, <2>2, Zenon
      <3>2. e \in Cache!KeysIn(c, M[q[k]])
        BY <1>4, <3>1
      <3>3. e \in Cache!Keys /\ e[1] \in Subjects /\ c.sizes[e[1]][e[2]] > 0
        BY <3>2 DEF Cache!KeysIn, Cache!Keys
      <3>4. QED
        BY <2>1, <3>3 DEF Cache!KeysIn
    <2>3. ASSUME NEW e \in K PROVE e \in A
      <3>1. e \in Cache!Keys /\ e[1] \in Subjects /\ c.sizes[e[1]][e[2]] > 0
        BY <2>1 DEF Cache!KeysIn
      <3>2. e \in Cache!KeysIn(c, {e[1]})
        BY <3>1 DEF Cache!KeysIn
      <3>3. PICK k \in 1..N : e[1] \in M[q[k]]
        BY <1>2, <3>1, <3>2 DEF Divides
      <3>4. e \in Cache!KeysIn(c, M[q[k]])
        BY <3>1, <3>3 DEF Cache!KeysIn
      <3>5. e \in S[k]
        BY <1>4, <3>4
      <3>6. e \in UNION {S[n] : n \in 1..N}
        BY <3>5, Zenon
      <3>7. QED
        BY <2>1, <3>6
    <2>4. A = K
      BY <2>2, <2>3
    <2>5. QED
      BY <2>1, <2>4
  <1>9. Weighs(D, w, f, S)
    <2>1. f \in Seq(Nat)
      BY DEF Divides
    <2>2. QED
      BY <1>2, <1>5, <1>6, <1>7, <2>1 DEF Weighs
  <1>10. Weight(w, UNION {S[k] : k \in 1..N}) = Total(f)
    BY <1>2, <1>9, WeightOfAll
  <1>11. QED
    BY <1>3, <1>8, <1>10 DEF Bytes

LEMMA SubjectTotals ==
  ASSUME NEW c, Cache!WellFormed(c)
  PROVE  LET order == Cache!SetToSeq(Subjects)
         IN  c.total = Cache!Total([k \in DOMAIN order |-> c.subjectBytes[order[k]]])
  <1>1. c \in Cache!Caches /\ Cache!Counters(c)
    BY DEF Cache!WellFormed
  <1>2. PICK q : q = Cache!SetToSeq(Subjects)
    OBVIOUS
  <1>3. q \in Seq(Subjects) /\ Cache!IsInjective(q) /\ Cache!ToSet(q) = Subjects
    BY <1>2, EnumerationIs, CacheNumbers
  <1>4. PICK N \in Nat : N = Len(q) /\ DOMAIN q = 1..N
    BY <1>3, LenProperties
  <1>5. PICK f : f = [k \in 1..N |-> c.subjectBytes[q[k]]]
    OBVIOUS
  <1>6. ASSUME NEW k \in 1..N
        PROVE  q[k] \in Subjects /\ f[k] = c.subjectBytes[q[k]] /\ f[k] \in Nat
    <2>1. q[k] \in Subjects
      BY <1>3, <1>4, ElementOfSeq
    <2>2. c.subjectBytes \in [Subjects -> Nat]
      BY <1>1, StoreTypes
    <2>3. f[k] = c.subjectBytes[q[k]]
      BY <1>5
    <2>4. QED
      BY <2>1, <2>2, <2>3
  <1>7. f \in [1..N -> Nat]
    BY <1>5, <1>6
  <1>8. f \in Seq(Nat) /\ Len(f) = N
    BY <1>7
  <1>9. PICK M : M = [s \in Subjects |-> {s}]
    OBVIOUS
  <1>10. Divides(c, Subjects, q, M, f)
    <2>1. ASSUME NEW k \in 1..N PROVE f[k] = Bytes(c, M[q[k]]) /\ M[q[k]] \in SUBSET Subjects
      <3>1. PICK s \in Subjects : s = q[k]
        BY <1>6
      <3>2. f[k] = c.subjectBytes[s] /\ M[s] = {s}
        BY <1>6, <1>9, <3>1
      <3>3. c.subjectBytes[s] = Bytes(c, {s})
        BY <1>1, CountersAre
      <3>4. QED
        BY <3>1, <3>2, <3>3
    <2>2. \A x, y \in Subjects : x # y => M[x] \cap M[y] = {}
      BY <1>9
    <2>3. ASSUME NEW s \in Subjects PROVE \E k \in 1..N : s \in M[q[k]]
      <3>1. PICK k \in 1..N : q[k] = s
        BY <1>3, <1>4 DEF Cache!ToSet
      <3>2. s \in M[q[k]]
        BY <1>9, <3>1
      <3>3. QED
        BY <3>2
    <2>4. QED
      BY <1>3, <1>4, <1>8, <2>1, <2>2, <2>3 DEF Divides
  <1>11. Bytes(c, Subjects) = Total(f)
    BY <1>10, TotalOfParts
  <1>12. c.total = Bytes(c, Subjects)
    BY <1>1, CountersAre
  <1>13. c.total = Cache!Total(f)
    BY <1>11, <1>12, CacheTotal
  <1>14. QED
    BY <1>2, <1>4, <1>5, <1>13

\* Every identity has its share, and the shares fit.
LEMMA TotalIsShared ==
  ASSUME NEW c, Cache!WellFormed(c), Cache!Within(c)
  PROVE  c.total <= MaxTotal
  <1>1. c \in Cache!Caches /\ Cache!Counters(c) /\ Cache!Members(c)
    BY DEF Cache!WellFormed
  <1>2. PICK K : K = Cache!Known(c)
    OBVIOUS
  <1>3. IsFiniteSet(K) /\ K \in SUBSET Cache!Identities
    BY <1>1, <1>2, KnownIs DEF Cache!Known
  <1>4. PICK q : q = Cache!SetToSeq(K)
    OBVIOUS
  <1>5. /\ q \in Seq(K) /\ Len(q) = Cardinality(K) /\ Cache!IsInjective(q)
        /\ Cache!ToSet(q) = K
    BY <1>3, <1>4, EnumerationIs
  <1>6. PICK N \in Nat : N = Len(q) /\ DOMAIN q = 1..N
    BY <1>5, LenProperties
  <1>7. PICK f : f = [k \in 1..N |-> c.identityBytes[q[k]]]
    OBVIOUS
  <1>8. ASSUME NEW k \in 1..N
        PROVE  q[k] \in K /\ f[k] = c.identityBytes[q[k]] /\ f[k] \in Nat
    <2>1. q[k] \in K
      BY <1>5, <1>6, ElementOfSeq
    <2>2. c.identityBytes \in [Cache!Identities -> Nat]
      BY <1>1, StoreTypes
    <2>3. f[k] = c.identityBytes[q[k]]
      BY <1>7
    <2>4. QED
      BY <1>3, <2>1, <2>2, <2>3
  <1>9. f \in [1..N -> Nat]
    BY <1>7, <1>8
  <1>10. f \in Seq(Nat) /\ Len(f) = N
    BY <1>9
  <1>11. PICK M : M = c.members
    OBVIOUS
  <1>12. \A i \in Cache!Identities : M[i] = {s \in Subjects : c.identity[s] = i}
    BY <1>1, <1>11 DEF Cache!Members
  <1>13. Divides(c, K, q, M, f)
    <2>1. ASSUME NEW k \in 1..N PROVE f[k] = Bytes(c, M[q[k]]) /\ M[q[k]] \in SUBSET Subjects
      <3>1. PICK i \in Cache!Identities : i = q[k]
        BY <1>3, <1>8
      <3>2. f[k] = c.identityBytes[i]
        BY <1>8, <3>1
      <3>3. c.identityBytes[i] = Bytes(c, M[i])
        BY <1>1, <1>11, CountersAre
      <3>4. M[i] \in SUBSET Subjects
        BY <1>12
      <3>5. QED
        BY <3>1, <3>2, <3>3, <3>4
    <2>2. \A x, y \in K : x # y => M[x] \cap M[y] = {}
      BY <1>3, <1>12
    <2>3. ASSUME NEW s \in Subjects, Cache!KeysIn(c, {s}) # {}
          PROVE  \E k \in 1..N : s \in M[q[k]]
      <3>1. PICK i : i = c.identity[s]
        OBVIOUS
      <3>2. i \in Cache!Identities
        <4>1. c.identity \in [Subjects -> Cache!Identities \cup {NoUser}]
          BY <1>1, StoreTypes
        <4>2. c.identity[s] # NoUser
          BY <1>1, <2>3 DEF Cache!Members
        <4>3. QED
          BY <3>1, <4>1, <4>2
      <3>3. s \in M[i]
        BY <1>12, <3>1, <3>2
      <3>4. i \in K
        BY <1>2, <1>11, <3>2, <3>3 DEF Cache!Known
      <3>5. PICK k \in 1..N : q[k] = i
        BY <1>5, <1>6, <3>4 DEF Cache!ToSet
      <3>6. QED
        BY <3>3, <3>5
    <2>4. QED
      BY <1>5, <1>6, <1>10, <2>1, <2>2, <2>3 DEF Divides
  <1>14. c.total = Total(f)
    <2>1. Bytes(c, Subjects) = Total(f)
      BY <1>13, TotalOfParts
    <2>2. c.total = Bytes(c, Subjects)
      BY <1>1, CountersAre
    <2>3. QED
      BY <2>1, <2>2
  <1>15. PICK b \in Nat : b = Cache!Quota(c) /\ Cardinality(K) * b <= MaxTotal
    BY <1>1, <1>2, QuotaIs
  <1>16. ASSUME NEW k \in 1..Len(f) PROVE f[k] <= b
    <2>1. PICK i \in Cache!Identities : i = q[k] /\ f[k] = c.identityBytes[i]
      BY <1>3, <1>8, <1>10
    <2>2. c.identityBytes[i] <= b
      BY <1>15 DEF Cache!Within
    <2>3. QED
      BY <2>1, <2>2
  <1>17. Total(f) <= Len(f) * b
    BY <1>10, <1>16, TotalAtMost
  <1>18. PICK n \in Nat, p \in Nat, t \in Nat, m \in Nat :
           n = Len(f) /\ p = n * b /\ t = Total(f) /\ m = MaxTotal
    <2>1. Total(f) \in Nat
      BY <1>10, TotalType
    <2>2. Len(f) \in Nat /\ MaxTotal \in Nat
      BY <1>10, CacheNumbers
    <2>3. Len(f) * b \in Nat
      BY <2>2
    <2>4. QED
      BY <2>1, <2>2, <2>3
  <1>19. n = Cardinality(K)
    BY <1>5, <1>6, <1>10, <1>18
  <1>20. t <= p /\ p <= m
    BY <1>15, <1>17, <1>18, <1>19
  <1>21. QED
    BY <1>14, <1>18, <1>20

\* What BudgetKept says of one subject ...
SubjectsBudget(c, s) ==
  /\ c.subjectBytes[s] = Cache!SumOf(c, Cache!KeysOf(c, s))
  /\ c.subjectBytes[s] <= CacheBytes
  /\ Len(c.values[s]) <= MaxStates
  /\ c.values[s] # <<>> => c.identity[s] # NoUser
  /\ c.identity[s] # NoUser =>
       \A u, v \in Uuids :
         LET keys == c.entries[c.identity[s]]
         IN  /\ <<s, u>> \in Cache!ToSet(keys) <=> u \in Cache!ToSet(c.values[s])
             /\ Cache!Older(keys, <<s, u>>, <<s, v>>) <=> Cache!Older(c.values[s], u, v)
  /\ \A u \in Uuids : c.sizes[s][u] > 0 <=> u \in Cache!ToSet(c.values[s])

LEMMA SubjectIsWithin ==
  ASSUME NEW c, Cache!WellFormed(c), Cache!Within(c), NEW s \in Subjects
  PROVE  SubjectsBudget(c, s)
  <1>1. c \in Cache!Caches /\ Cache!Counters(c) /\ Cache!Members(c) /\ Cache!Orders(c)
    BY DEF Cache!WellFormed
  <1>2. c.subjectBytes[s] = Cache!SumOf(c, Cache!KeysOf(c, s))
    <2>1. PICK q \in Seq(Cache!Keys) : q = Cache!KeysOf(c, s)
      BY KeysOfIs
    <2>2. Cache!IsInjective(q) /\ Cache!ToSet(q) = Cache!KeysIn(c, {s})
      BY <2>1, KeysOfIs
    <2>3. Cache!SumOf(c, q) = Weight(Cache!SizeIn(c), Cache!ToSet(q))
      BY <1>1, <2>2, SumIs
    <2>4. c.subjectBytes[s] = Bytes(c, {s})
      BY <1>1, CountersAre
    <2>5. QED
      BY <2>1, <2>2, <2>3, <2>4 DEF Bytes
  <1>3. c.subjectBytes[s] <= CacheBytes /\ Len(c.values[s]) <= MaxStates
    BY DEF Cache!Within, Cache!Limits
  <1>4. \A u \in Uuids : c.sizes[s][u] > 0 <=> u \in Cache!ToSet(c.values[s])
    BY <1>1 DEF Cache!Orders
  <1>5. ASSUME c.values[s] # <<>> PROVE c.identity[s] # NoUser
    <2>1. PICK v \in Seq(Uuids) : v = c.values[s]
      BY <1>1, StoreTypes
    <2>2. 1 \in DOMAIN v /\ v[1] \in Uuids
      BY <1>5, <2>1, EmptySeq, LenProperties, ElementOfSeq
    <2>3. PICK u \in Uuids : u = v[1]
      BY <2>2
    <2>4. u \in Cache!ToSet(c.values[s])
      BY <2>1, <2>2, <2>3 DEF Cache!ToSet
    <2>5. c.sizes[s][u] > 0
      BY <1>4, <2>4
    <2>6. <<s, u>> \in Cache!KeysIn(c, {s})
      BY <2>5 DEF Cache!KeysIn, Cache!Keys
    <2>7. QED
      BY <1>1, <2>6 DEF Cache!Members
  <1>6. ASSUME c.identity[s] # NoUser, NEW u \in Uuids, NEW v \in Uuids
        PROVE  /\ <<s, u>> \in Cache!ToSet(c.entries[c.identity[s]])
                    <=> u \in Cache!ToSet(c.values[s])
               /\ Cache!Older(c.entries[c.identity[s]], <<s, u>>, <<s, v>>)
                    <=> Cache!Older(c.values[s], u, v)
    <2>1. PICK i : i = c.identity[s]
      OBVIOUS
    <2>2. i \in Cache!Identities
      <3>1. c.identity \in [Subjects -> Cache!Identities \cup {NoUser}]
        BY <1>1, StoreTypes
      <3>2. QED
        BY <1>6, <2>1, <3>1
    <2>3. s \in c.members[i]
      BY <1>1, <2>1, <2>2 DEF Cache!Members
    <2>4. Cache!ToSet(c.entries[i]) = Cache!KeysIn(c, c.members[i])
      BY <1>1, <2>2 DEF Cache!Orders
    <2>5. <<s, u>> \in Cache!KeysIn(c, c.members[i]) <=> c.sizes[s][u] > 0
      BY <2>3 DEF Cache!KeysIn, Cache!Keys
    <2>6. Cache!Older(c.entries[i], <<s, u>>, <<s, v>>) <=> Cache!Older(c.values[s], u, v)
      BY <1>1, <1>6, <2>1 DEF Cache!Orders
    <2>7. QED
      BY <1>4, <2>1, <2>4, <2>5, <2>6
  <1>7. QED
    BY <1>2, <1>3, <1>4, <1>5, <1>6 DEF SubjectsBudget

\* ... and of one identity
LEMMA IdentityIsWithin ==
  ASSUME NEW c, Cache!WellFormed(c), Cache!Within(c), NEW i \in Cache!Identities
  PROVE  /\ c.identityBytes[i] = Cache!SumOf(c, c.entries[i])
         /\ c.identityBytes[i] <= Cache!Quota(c)
  <1>1. c \in Cache!Caches /\ Cache!Counters(c) /\ Cache!Orders(c)
    BY DEF Cache!WellFormed
  <1>2. PICK q \in Seq(Cache!Keys) : q = c.entries[i]
    BY <1>1, StoreTypes
  <1>3. Cache!IsInjective(q) /\ Cache!ToSet(q) = Cache!KeysIn(c, c.members[i])
    BY <1>1, <1>2 DEF Cache!Orders
  <1>4. Cache!SumOf(c, q) = Weight(Cache!SizeIn(c), Cache!ToSet(q))
    BY <1>1, <1>3, SumIs
  <1>5. c.identityBytes[i] = Bytes(c, c.members[i])
    BY <1>1, CountersAre
  <1>6. c.identityBytes[i] <= Cache!Quota(c)
    BY DEF Cache!Within
  <1>7. QED
    BY <1>2, <1>3, <1>4, <1>5, <1>6 DEF Bytes

LEMMA BudgetFollows ==
  ASSUME Cache!CacheInv
  PROVE  Cache!BudgetKept
  <1>1. Cache!WellFormed(x1) /\ Cache!Within(x1)
    BY DEF Cache!CacheInv
  <1>2. \A s \in Subjects : SubjectsBudget(x1, s)
    BY <1>1, SubjectIsWithin
  <1>3. \A i \in Cache!Identities : /\ x1.identityBytes[i] = Cache!SumOf(x1, x1.entries[i])
                                    /\ x1.identityBytes[i] <= Cache!Quota(x1)
    BY <1>1, IdentityIsWithin
  <1>4. LET order == Cache!SetToSeq(Subjects)
        IN  x1.total = Cache!Total([k \in DOMAIN order |-> x1.subjectBytes[order[k]]])
    BY <1>1, SubjectTotals
  <1>5. x1.total <= MaxTotal
    BY <1>1, TotalIsShared
  <1>6. QED
    BY <1>2, <1>3, <1>4, <1>5 DEF Cache!BudgetKept, SubjectsBudget

-------------------------------------------------------------------------------
\* What a step may do to others

\* A family that becomes an identity of its own is a new one.
LEMMA NewIdentityIsNew ==
  ASSUME NEW c, Cache!WellFormed(c), NEW d, Cache!WellFormed(d), NEW s \in Subjects,
         c.identity[s] = NoUser, d.identity[s] = s
  PROVE  ~(Cache!Known(d) \subseteq Cache!Known(c))
  <1>1. Cache!Members(c) /\ Cache!Members(d)
    BY DEF Cache!WellFormed
  <1>2. s \in Cache!Identities
    BY DEF Cache!Identities
  <1>3. s \in Cache!Known(d)
    BY <1>1, <1>2 DEF Cache!Members, Cache!Known
  <1>4. ASSUME s \in Cache!Known(c) PROVE FALSE
    <2>1. PICK t \in Subjects : c.identity[t] = s
      BY <1>1, <1>2, <1>4 DEF Cache!Members, Cache!Known
    <2>2. t = s
      BY <1>1, <2>1 DEF Cache!Members
    <2>3. QED
      BY <2>1, <2>2, CacheNumbers
  <1>5. QED
    BY <1>3, <1>4

LEMMA ApplyProtects ==
  ASSUME NEW c, Cache!WellFormed(c), Cache!Within(c), NEW s \in Subjects,
         NEW events \in Cache!Batches, NEW allowed, NEW d,
         d = Cache!StoredAll(Cache!Pruned(Cache!Registered(c, s, NoUser), s, allowed),
                             s, events, allowed),
         Cache!Known(d) \subseteq Cache!Known(c),
         NEW i \in Cache!Identities, NEW t \in Subjects, NEW u \in Uuids,
         d.identity[t] = i, d.sizes[t][u] \notin {0, c.sizes[t][u]},
         NEW j \in Cache!Identities \ {i}
  PROVE  d.entries[j] = c.entries[j]
  <1>1. PICK b : b = Cache!Registered(c, s, NoUser)
    OBVIOUS
  <1>2. Cache!WellFormed(d) /\ Replaces(b, d, s)
    BY <1>1, ApplyKeeps
  <1>3. c.identity[s] # NoUser
    <2>1. SUFFICES ASSUME c.identity[s] = NoUser PROVE FALSE
      OBVIOUS
    <2>2. b.identity[s] = s
      BY <1>1, <2>1, RegisteredKeeps
    <2>3. d.identity[s] = s
      BY <1>2, <2>2 DEF Replaces
    <2>4. QED
      BY <1>2, <2>1, <2>3, NewIdentityIsNew
  <1>4. b = c
    BY <1>1, <1>3, RegisteredKeeps
  <1>5. t = s
    BY <1>2, <1>4 DEF Replaces
  <1>6. c.identity[s] = i
    BY <1>2, <1>4, <1>5 DEF Replaces
  <1>7. QED
    BY <1>2, <1>4, <1>6 DEF Replaces

LEMMA StepProtects ==
  ASSUME Cache!CacheInv, Cache!Next
  PROVE  Cache!OthersStay
  <1>1. Cache!WellFormed(x1) /\ Cache!Within(x1)
    BY DEF Cache!CacheInv
  <1>2. SUFFICES ASSUME Cache!Known(x1') \subseteq Cache!Known(x1),
                        NEW i \in Cache!Identities, NEW t \in Subjects, NEW u \in Uuids,
                        x1'.identity[t] = i, x1'.sizes[t][u] \notin {0, x1.sizes[t][u]},
                        NEW j \in Cache!Identities \ {i}
                 PROVE  x1'.entries[j] = x1.entries[j]
    BY DEF Cache!OthersStay, Cache!Stores
  <1>3. ~ Loses(x1, x1')
    BY <1>2 DEF Loses
  <1>4. ASSUME NEW s \in Subjects, NEW user \in Users \cup {NoUser}, Cache!BeginConnection(s, user)
        PROVE  FALSE
    <2>1. Loses(x1, x1')
      BY <1>1, <1>4, RegisteredKeeps DEF Cache!BeginConnection, Loses
    <2>2. QED
      BY <1>3, <2>1
  <1>5. ASSUME NEW s \in Subjects, NEW events \in Cache!Batches, NEW allowed \in Structures,
               Cache!Apply(s, events, allowed)
        PROVE  x1'.entries[j] = x1.entries[j]
    <2>1. x1' = Cache!StoredAll(Cache!Pruned(Cache!Registered(x1, s, NoUser), s, allowed),
                                s, events, allowed)
      BY <1>5 DEF Cache!Apply
    <2>2. PICK d : d = x1'
      OBVIOUS
    <2>3. QED
      BY <1>1, <1>2, <2>1, <2>2, ApplyProtects
  <1>6. ASSUME NEW s \in Subjects, Cache!Clear(s) PROVE FALSE
    <2>1. Loses(x1, x1')
      BY <1>1, <1>6, ClearKeeps DEF Cache!Clear
    <2>2. QED
      BY <1>3, <2>1
  <1>7. ASSUME Cache!ClearAll PROVE FALSE
    <2>1. Cache!SetToSeq(Subjects) \in Seq(Subjects)
      BY EnumerationIs, CacheNumbers
    <2>2. Loses(x1, x1')
      BY <1>1, <1>7, <2>1, ClearAllKeeps DEF Cache!ClearAll
    <2>3. QED
      BY <1>3, <2>2
  <1>8. QED
    BY <1>4, <1>5, <1>6, <1>7 DEF Cache!Next
===============================================================================
