-------------------------- MODULE PartsFamilyProofs ---------------------------
(***************************************************************************)
(* Theorems about what the components of MCParts keep for a family: its    *)
(* local approval and its project files. What the run of MCParts shows of  *)
(* each on a small instance holds for all values of its constants. The     *)
(* variables of MCParts are those of the component, in its order.          *)
(***************************************************************************)
EXTENDS MCParts, Sequences, WellFoundedInduction, FiniteSetTheorems, TLAPS

-------------------------------------------------------------------------------
(***************************************************************************)
(* ExplorerBindings: x1 is clock, x2 family, x3 binding, x4 service, x5    *)
(* admin, x6 allowed, x7 crossed and x8 recorded.                          *)
(***************************************************************************)

GivenInv == part = "approvals" => Approvals!GivenInv
UseInv == part = "approvals" => Approvals!UseInv

\* What both rest on.
ApprovalsBase == Approvals!ApprovalTypes /\ Approvals!AtWork /\ Approvals!LivesOverlap

LEMMA ApprovalsNothing ==
  /\ Approvals!Some \in Bindings
  /\ Approvals!NewFamily \in Approvals!FamilyRecords
  /\ [Approvals!NewFamily EXCEPT !.st = "gone"] \in Approvals!FamilyRecords
  /\ [Approvals!NewFamily EXCEPT !.st = "gone"].st = "gone" /\ Approvals!NewFamily.st = "none"
  /\ ~ Approvals!NewFamily.revoked
  /\ Approvals!Idle \in Approvals!ServiceRecords /\ Approvals!Idle.at = "idle"
  /\ Approvals!Idle.ends = {} /\ Approvals!Idle.f = NoFamily
  /\ Approvals!NoRequest \in Approvals!AdminRecords /\ Approvals!NoRequest.at = "idle"
  /\ NoRecord \notin Approvals!ApprovalRecords
  /\ FamilyTTL \in Nat \ {0} /\ Keep \in Nat \ {0} /\ NoFamily \notin Families
  <1>1. Bindings # {} /\ NoRecord \notin Approvals!ApprovalRecords /\ FamilyTTL \in Nat \ {0}
        /\ Keep \in Nat \ {0} /\ NoFamily \notin Families
    BY ApprovalsParameters DEF Approvals!Parameters, Approvals!ApprovalRecords
  <1>2. Approvals!Some \in Bindings
    BY <1>1 DEF Approvals!Some
  <1>3. Approvals!NewFamily \in Approvals!FamilyRecords /\ Approvals!NewFamily.st = "none"
            /\ ~ Approvals!NewFamily.revoked
    BY <1>2 DEF Approvals!NewFamily, Approvals!FamilyRecords
  <1>4. /\ [Approvals!NewFamily EXCEPT !.st = "gone"] \in Approvals!FamilyRecords
        /\ [Approvals!NewFamily EXCEPT !.st = "gone"].st = "gone"
    BY <1>3 DEF Approvals!FamilyRecords
  <1>5. Approvals!Idle \in Approvals!ServiceRecords /\ Approvals!Idle.at = "idle"
            /\ Approvals!Idle.ends = {} /\ Approvals!Idle.f = NoFamily
    BY DEF Approvals!Idle, Approvals!ServiceRecords
  <1>6. Approvals!NoRequest \in Approvals!AdminRecords /\ Approvals!NoRequest.at = "idle"
    BY <1>2 DEF Approvals!NoRequest, Approvals!AdminRecords
  <1>7. QED
    BY <1>1, <1>2, <1>3, <1>4, <1>5, <1>6

LEMMA ApprovalsFields ==
  ASSUME Approvals!ApprovalTypes
  PROVE  /\ x1 \in Nat
         /\ \A f \in Families :
              /\ x2[f] \in Approvals!FamilyRecords
              /\ x2[f].st \in {"none", "consent", "stored", "gone"}
              /\ x2[f].id \in Bindings /\ x2[f].expires \in Nat
              /\ x2[f].revoked \in BOOLEAN /\ x2[f].revokedAt \in Nat
         /\ \A b \in Bindings :
              x3[b] # NoRecord => /\ x3[b] \in Approvals!ApprovalRecords
                                        /\ x3[b].until \in Nat
                                        /\ x3[b].inactive \in Nat
         /\ x4.at \in {"idle", "issue", "ends", "record", "maintain"}
         /\ x4.f \in Families \cup {NoFamily}
         /\ \A e \in x4.ends : e \in Approvals!EndRecords /\ e.id \in Bindings /\ e.end \in Nat
         /\ x4.active \subseteq Bindings /\ x4.time \in Nat
         /\ x4.ends \subseteq Approvals!EndRecords
         /\ x5.at \in {"idle", "allow", "match", "mark"}
         /\ x5.f \in Families \cup {NoFamily} /\ x5.id \in Bindings
         /\ x5.expires \in Nat /\ x5.targets \subseteq Families
  <1>1. /\ x1 \in Nat /\ x4 \in Approvals!ServiceRecords /\ x5 \in Approvals!AdminRecords
        /\ \A f \in Families : x2[f] \in Approvals!FamilyRecords
        /\ \A b \in Bindings : x3[b] # NoRecord => x3[b] \in Approvals!ApprovalRecords
    BY DEF Approvals!ApprovalTypes
  <1>2. \A f \in Families :
          /\ x2[f].st \in {"none", "consent", "stored", "gone"}
          /\ x2[f].id \in Bindings /\ x2[f].expires \in Nat
          /\ x2[f].revoked \in BOOLEAN /\ x2[f].revokedAt \in Nat
    BY <1>1 DEF Approvals!FamilyRecords
  <1>3. \A b \in Bindings :
          x3[b] # NoRecord => x3[b].until \in Nat /\ x3[b].inactive \in Nat
    BY <1>1 DEF Approvals!ApprovalRecords
  <1>4. /\ x4.at \in {"idle", "issue", "ends", "record", "maintain"}
        /\ x4.f \in Families \cup {NoFamily} /\ x4.ends \subseteq Approvals!EndRecords
        /\ x4.active \subseteq Bindings /\ x4.time \in Nat
    BY <1>1 DEF Approvals!ServiceRecords
  <1>5. \A e \in x4.ends : e \in Approvals!EndRecords /\ e.id \in Bindings /\ e.end \in Nat
    BY <1>4 DEF Approvals!EndRecords
  <1>6. /\ x5.at \in {"idle", "allow", "match", "mark"}
        /\ x5.f \in Families \cup {NoFamily} /\ x5.id \in Bindings
        /\ x5.expires \in Nat /\ x5.targets \subseteq Families
    BY <1>1 DEF Approvals!AdminRecords
  <1>7. QED
    BY <1>1, <1>2, <1>3, <1>4, <1>5, <1>6

\* What a document has become of another: stored families have kept their lives, been
\* revoked now, or gone.
Aged(f, old, new) ==
  /\ old[f].st \in {"stored", "gone"} => new[f].st \in {"stored", "gone"}
  /\ new[f].st = "consent" /\ new[f].revoked => old[f].st = "consent" /\ old[f].revoked
  /\ new[f].st = "stored" =>
       /\ old[f].st = "stored" /\ new[f].id = old[f].id /\ new[f].expires = old[f].expires
       /\ old[f].revoked => new[f].revoked /\ new[f].revokedAt = old[f].revokedAt
       /\ new[f].revoked => old[f].revoked \/ new[f].revokedAt = x1

LEMMA CollectedIsAged ==
  ASSUME Approvals!ApprovalTypes
  PROVE  /\ Approvals!Collected \in [Families -> Approvals!FamilyRecords]
         /\ \A f \in Families :
              /\ Aged(f, x2, Approvals!Collected)
              /\ f \in Approvals!Expired => Approvals!Collected[f].st = "gone"
              /\ f \notin Approvals!Expired => Approvals!Collected[f] = x2[f]
              /\ Approvals!Collected[f].st = "stored" => x2[f].expires > x1
  <1>1. \A f \in Families : /\ x2[f] \in Approvals!FamilyRecords
                            /\ x2[f].st \in {"none", "consent", "stored", "gone"}
                            /\ x2[f].expires \in Nat /\ x1 \in Nat
    BY ApprovalsFields
  <1>2. \A f \in Families :
          Approvals!Collected[f] = IF f \in Approvals!Expired THEN [Approvals!NewFamily EXCEPT !.st = "gone"] ELSE x2[f]
    BY DEF Approvals!Collected
  <1>3. Approvals!Collected \in [Families -> Approvals!FamilyRecords]
    BY <1>1, <1>2, ApprovalsNothing DEF Approvals!Collected
  <1>4. \A f \in Families : f \in Approvals!Expired <=> x2[f].st = "stored" /\ x2[f].expires <= x1
    BY DEF Approvals!Expired, Approvals!Stored
  <1>5. ASSUME NEW f \in Families, f \in Approvals!Expired
        PROVE  Approvals!Collected[f].st = "gone" /\ x2[f].st = "stored"
    BY <1>2, <1>4, <1>5, ApprovalsNothing
  <1>6. ASSUME NEW f \in Families, f \notin Approvals!Expired
        PROVE  /\ Approvals!Collected[f] = x2[f]
               /\ x2[f].st = "stored" => x2[f].expires > x1
    BY <1>1, <1>2, <1>4, <1>6
  <1>7. ASSUME NEW f \in Families PROVE Aged(f, x2, Approvals!Collected)
    BY <1>5, <1>6 DEF Aged
  <1>8. QED
    BY <1>3, <1>5, <1>6, <1>7

LEMMA RevokedIsAged ==
  ASSUME NEW doc \in [Families -> Approvals!FamilyRecords],
        NEW fs \in SUBSET Families, x1 \in Nat,
         \A f \in fs : doc[f].st = "stored"
  PROVE  /\ Approvals!Revoked(fs, doc) \in [Families -> Approvals!FamilyRecords]
         /\ \A f \in Families :
              /\ Aged(f, doc, Approvals!Revoked(fs, doc))
              /\ Approvals!Revoked(fs, doc)[f].st = doc[f].st
              /\ f \in fs => Approvals!Revoked(fs, doc)[f].revoked
  <1> SUFFICES ASSUME NEW f \in Families
               PROVE  /\ Approvals!Revoked(fs, doc)[f] \in Approvals!FamilyRecords
                      /\ Aged(f, doc, Approvals!Revoked(fs, doc))
                      /\ Approvals!Revoked(fs, doc)[f].st = doc[f].st
                      /\ f \in fs => Approvals!Revoked(fs, doc)[f].revoked
    BY DEF Approvals!Revoked
  <1>1. doc[f] \in Approvals!FamilyRecords
    OBVIOUS
  <1>2. CASE f \in fs /\ ~ doc[f].revoked
    <2>1. PICK r \in Approvals!FamilyRecords : r = doc[f]
      BY <1>1
    <2>2. Approvals!Revoked(fs, doc)[f] = [r EXCEPT !.revoked = TRUE, !.revokedAt = x1]
      BY <1>2, <2>1 DEF Approvals!Revoked
    <2>3. /\ [r EXCEPT !.revoked = TRUE, !.revokedAt = x1] \in Approvals!FamilyRecords
          /\ [r EXCEPT !.revoked = TRUE, !.revokedAt = x1].st = r.st
          /\ [r EXCEPT !.revoked = TRUE, !.revokedAt = x1].id = r.id
          /\ [r EXCEPT !.revoked = TRUE, !.revokedAt = x1].expires = r.expires
          /\ [r EXCEPT !.revoked = TRUE, !.revokedAt = x1].revoked
          /\ [r EXCEPT !.revoked = TRUE, !.revokedAt = x1].revokedAt = x1
      BY DEF Approvals!FamilyRecords
    <2>4. QED
      BY <1>2, <2>1, <2>2, <2>3 DEF Aged
  <1>3. CASE ~(f \in fs /\ ~ doc[f].revoked)
    <2>1. Approvals!Revoked(fs, doc)[f] = doc[f] /\ doc[f].revoked \in BOOLEAN
      BY <1>1, <1>3 DEF Approvals!Revoked, Approvals!FamilyRecords
    <2>2. QED
      BY <1>1, <1>3, <2>1 DEF Aged
  <1>4. QED
    BY <1>2, <1>3

LEMMA AgedTwice ==
  ASSUME NEW f, NEW a, NEW b, NEW c, Aged(f, a, b), Aged(f, b, c)
  PROVE  Aged(f, a, c)
  BY DEF Aged

\* Families that age overlap as before.
LEMMA OverlapStays ==
  ASSUME Approvals!ApprovalTypes, Approvals!LivesOverlap, x1' \in Nat, x1' >= x1,
         \A f \in Families : Aged(f, x2, x2')
  PROVE  Approvals!LivesOverlap'
  <1>1. \A f \in Families : /\ x2[f].expires \in Nat /\ x2[f].revokedAt \in Nat
                            /\ x2[f].revoked \in BOOLEAN
    BY ApprovalsFields
  <1>2. x1 \in Nat /\ FamilyTTL \in Nat
    BY ApprovalsFields, ApprovalsNothing
  <1>3. QED
    BY <1>1, <1>2 DEF Approvals!LivesOverlap, Approvals!Stored, Aged

\* Every set of natural numbers has a least one.
LessOnNat == OpToRel(<, Nat)

LEMMA LessOnNatIsWellFounded == IsWellFoundedOn(LessOnNat, Nat)
  BY NatLessThanWellFounded DEF LessOnNat

LEMMA LessOnNatIsLess ==
  \A a, b : <<a, b>> \in LessOnNat <=> a \in Nat /\ b \in Nat /\ a < b
  BY DEF LessOnNat, OpToRel

LEMMA LeastNatural ==
  ASSUME NEW T \in SUBSET Nat, T # {}
  PROVE  \E x \in T : \A y \in T : x <= y
  <1>1. \E x \in T : \A y \in T : ~ (<<y, x>> \in LessOnNat)
    BY LessOnNatIsWellFounded, WFMin
  <1>2. PICK x \in T : \A y \in T : ~ (<<y, x>> \in LessOnNat)
    BY <1>1
  <1>3. ASSUME NEW y \in T PROVE x <= y
    <2>1. ~ (y \in Nat /\ x \in Nat /\ y < x)
      BY <1>2, LessOnNatIsLess
    <2>2. QED
      BY <2>1
  <1>4. QED
    BY <1>3

\* The largest of bounded numbers exists.
LEMMA LargestNatural ==
  ASSUME NEW S \in SUBSET Nat, S # {}, NEW n \in Nat, \A e \in S : e <= n
  PROVE  (CHOOSE e \in S : \A x \in S : x <= e) \in Nat
  <1> DEFINE T == {k \in Nat : \E e \in S : k = n - e}
  <1>1. PICK e0 \in S : TRUE
    OBVIOUS
  <1>2. n - e0 \in T
    BY <1>1
  <1>3. T \in SUBSET Nat /\ T # {}
    BY <1>2
  <1>k. \A k \in T : k \in Nat /\ \E e \in S : k = n - e
    OBVIOUS
  <1>l. \A x \in S : n - x \in T /\ x \in Nat
    OBVIOUS
  <1> HIDE DEF T
  <1>4. PICK k \in T : \A m \in T : k <= m
    BY <1>3, LeastNatural
  <1>5. PICK e \in S : k = n - e
    BY <1>k
  <1>6. ASSUME NEW x \in S PROVE x <= e
    <2>1. n - x \in T /\ x \in Nat /\ e \in Nat
      BY <1>l, <1>6
    <2>2. n - e <= n - x
      BY <1>4, <1>5, <2>1
    <2>3. QED
      BY <2>1, <2>2
  <1>7. \E y \in S : \A x \in S : x <= y
    BY <1>6
  <1>8. QED
    BY <1>7

LEMMA EndedIsTime ==
  ASSUME ApprovalsBase, NEW b \in Bindings
  PROVE  Approvals!Ended(b) \in Nat
  <1> DEFINE ends == {Approvals!End(f) : f \in Approvals!OfBinding(b)}
  <1>t. Approvals!ApprovalTypes /\ Approvals!LivesOverlap
    BY DEF ApprovalsBase
  <1>1. \A f \in Approvals!OfBinding(b) : Approvals!End(f) \in Nat
            /\ Approvals!End(f) <= x1 + FamilyTTL
    <2> TAKE f \in Approvals!OfBinding(b)
    <2>1. f \in Families /\ Approvals!Stored(f)
      BY DEF Approvals!OfBinding
    <2>2. /\ x2[f].expires \in Nat /\ x2[f].revokedAt \in Nat /\ x1 \in Nat
          /\ FamilyTTL \in Nat
      BY <1>t, <2>1, ApprovalsFields, ApprovalsNothing
    <2>3. x2[f].expires <= x1 + FamilyTTL
      BY <1>t, <2>1 DEF Approvals!LivesOverlap
    <2>4. QED
      BY <2>2, <2>3 DEF Approvals!End, Approvals!Smaller
  <1>2. ends \in SUBSET Nat /\ x1 + FamilyTTL \in Nat /\ \A e \in ends : e <= x1 + FamilyTTL
    BY <1>t, <1>1, ApprovalsFields, ApprovalsNothing
  <1>3. Approvals!Ended(b) = IF ends = {} THEN 0 ELSE CHOOSE e \in ends : \A x \in ends : x <= e
    BY DEF Approvals!Ended
  <1> HIDE DEF ends
  <1>4. CASE ends = {}
    BY <1>3, <1>4
  <1>5. CASE ends # {}
    <2>1. (CHOOSE e \in ends : \A x \in ends : x <= e) \in Nat
      BY <1>2, <1>5, LargestNatural
    <2>2. QED
      BY <1>3, <1>5, <2>1
  <1>6. QED
    BY <1>4, <1>5

LEMMA EndIsLate ==
  ASSUME ApprovalsBase, NEW f \in Families, Approvals!Stored(f)
  PROVE  Approvals!End(f) \in Nat /\ x2[f].expires <= Approvals!End(f) + FamilyTTL
  <1>1. /\ x2[f].expires \in Nat /\ x2[f].revokedAt \in Nat /\ FamilyTTL \in Nat
        /\ x2[f].revoked \in BOOLEAN
    BY ApprovalsFields, ApprovalsNothing DEF ApprovalsBase
  <1>2. x2[f].revoked => x2[f].expires <= x2[f].revokedAt + FamilyTTL
    BY DEF ApprovalsBase, Approvals!LivesOverlap
  <1>3. QED
    BY <1>1, <1>2 DEF Approvals!End, Approvals!Smaller

LEMMA ToReportIsLate ==
  ASSUME ApprovalsBase
  PROVE  /\ Approvals!ToReport \subseteq Approvals!EndRecords
         /\ \A e \in Approvals!ToReport, f \in Families :
              Approvals!Stored(f) => x2[f].expires < e.end + 2 * FamilyTTL
  <1>1. ASSUME NEW e \in Approvals!ToReport
        PROVE  /\ e \in Approvals!EndRecords
               /\ \A f \in Families : Approvals!Stored(f) => x2[f].expires < e.end + 2 * FamilyTTL
    <2>1. PICK g \in Approvals!Expired : e = [id |-> x2[g].id, end |-> Approvals!End(g)]
      BY <1>1 DEF Approvals!ToReport
    <2>2. g \in Families /\ Approvals!Stored(g)
      BY <2>1 DEF Approvals!Expired
    <2>3. e.end = Approvals!End(g) /\ Approvals!End(g) \in Nat
              /\ x2[g].expires <= Approvals!End(g) + FamilyTTL
      BY <2>1, <2>2, EndIsLate
    <2>4. FamilyTTL \in Nat /\ x2[g].id \in Bindings /\ \A f \in Families : x2[f].expires \in Nat
      BY <2>2, ApprovalsFields, ApprovalsNothing DEF ApprovalsBase
    <2>5. \A f \in Families : Approvals!Stored(f) => x2[f].expires < x2[g].expires + FamilyTTL
      BY <2>2 DEF ApprovalsBase, Approvals!LivesOverlap
    <2>6. ASSUME NEW f \in Families, Approvals!Stored(f)
          PROVE  x2[f].expires < e.end + 2 * FamilyTTL
      <3>1. x2[f].expires < x2[g].expires + FamilyTTL
        BY <2>5, <2>6
      <3>2. QED
        BY <2>2, <2>3, <2>4, <3>1
    <2>7. e \in Approvals!EndRecords
      BY <2>1, <2>3, <2>4 DEF Approvals!EndRecords
    <2>8. QED
      BY <2>6, <2>7
  <1>2. QED
    BY <1>1

LEMMA ApprovedFacts ==
  ASSUME NEW r \in Approvals!ApprovalRecords \cup {NoRecord}, NEW x \in Nat
  PROVE  /\ Approvals!Approved(r, x) \in Approvals!ApprovalRecords
         /\ Approvals!Approved(r, x) # NoRecord
         /\ Approvals!Approved(r, x).inactive = 0 /\ x <= Approvals!Approved(r, x).until
         /\ r # NoRecord => r.until <= Approvals!Approved(r, x).until
  <1>1. CASE r = NoRecord
    BY <1>1, ApprovalsNothing DEF Approvals!Approved, Approvals!ApprovalRecords
  <1>2. CASE r # NoRecord
    <2>1. r \in Approvals!ApprovalRecords /\ r.until \in Nat
      BY <1>2 DEF Approvals!ApprovalRecords
    <2>2. Approvals!Approved(r, x) = [until |-> Approvals!Bigger(r.until, x), inactive |-> 0]
      BY <1>2 DEF Approvals!Approved
    <2>3. Approvals!Bigger(r.until, x) \in Nat /\ r.until <= Approvals!Bigger(r.until, x)
              /\ x <= Approvals!Bigger(r.until, x)
      BY <2>1 DEF Approvals!Bigger
    <2>4. Approvals!Approved(r, x) \in Approvals!ApprovalRecords
      BY <2>2, <2>3 DEF Approvals!ApprovalRecords
    <2>5. QED
      BY <2>2, <2>3, <2>4, ApprovalsNothing
  <1>3. QED
    BY <1>1, <1>2

LEMMA EndRecordedFacts ==
  ASSUME NEW r \in Approvals!ApprovalRecords, NEW x \in Nat
  PROVE  /\ Approvals!EndRecorded(r, x) \in Approvals!ApprovalRecords
         /\ Approvals!EndRecorded(r, x) # NoRecord
         /\ Approvals!EndRecorded(r, x).until = r.until
         /\ r.inactive = 0 => Approvals!EndRecorded(r, x).inactive = x
         /\ r.inactive # 0 => r.inactive <= Approvals!EndRecorded(r, x).inactive
  <1>1. r # NoRecord /\ r.inactive \in Nat
    BY ApprovalsNothing DEF Approvals!ApprovalRecords
  <1> DEFINE y == IF r.inactive = 0 THEN x ELSE Approvals!Bigger(r.inactive, x)
  <1>2. y \in Nat /\ (r.inactive # 0 => r.inactive <= y) /\ (r.inactive = 0 => y = x)
    BY <1>1 DEF Approvals!Bigger
  <1>3. Approvals!EndRecorded(r, x) = [r EXCEPT !.inactive = y]
    BY <1>1 DEF Approvals!EndRecorded
  <1> HIDE DEF y
  <1>4. Approvals!EndRecorded(r, x) \in Approvals!ApprovalRecords
            /\ Approvals!EndRecorded(r, x).until = r.until
        /\ Approvals!EndRecorded(r, x).inactive = y
    BY <1>2, <1>3 DEF Approvals!ApprovalRecords
  <1>5. QED
    BY <1>2, <1>4, ApprovalsNothing

LEMMA ReconciledFacts ==
  ASSUME Approvals!ApprovalTypes, x4.ended \in [Bindings -> Nat], NEW b \in Bindings
  PROVE  /\ Approvals!Reconciled(b) \in Approvals!ApprovalRecords \cup {NoRecord}
         /\ x3[b] = NoRecord => Approvals!Reconciled(b) = NoRecord
         /\ x3[b] # NoRecord /\ b \in x4.active /\ Approvals!InForce(x3[b], x4.time)
              => /\ Approvals!Reconciled(b) # NoRecord
                        /\ Approvals!Reconciled(b).until = x3[b].until
                 /\ Approvals!Reconciled(b).inactive = 0
  <1>1. CASE x3[b] = NoRecord
    BY <1>1 DEF Approvals!Reconciled
  <1>2. CASE x3[b] # NoRecord
    <2>1. PICK r \in Approvals!ApprovalRecords : r = x3[b]
      BY <1>2, ApprovalsFields
    <2>2. r # NoRecord /\ r.until \in Nat /\ r.inactive \in Nat /\ x4.ended[b] \in Nat
      BY <1>2, <2>1 DEF Approvals!ApprovalRecords
    <2> DEFINE since == IF b \in x4.active THEN Approvals!InactiveSince(r, x4.time)
                        ELSE IF x4.ended[b] # 0 THEN x4.ended[b]
                        ELSE IF r.inactive # 0 THEN r.inactive ELSE r.until
    <2>3. since \in Nat
      BY <2>2 DEF Approvals!InactiveSince
    <2>4. Approvals!Reconciled(b) = IF b \in x4.active /\ Approvals!InForce(r, x4.time)
                           THEN [r EXCEPT !.inactive = 0]
                           ELSE IF since + Keep <= x4.time THEN NoRecord
                           ELSE [r EXCEPT !.inactive = since]
      BY <2>1, <2>2 DEF Approvals!Reconciled
    <2> HIDE DEF since
    <2>5. \A n \in Nat : /\ [r EXCEPT !.inactive = n] \in Approvals!ApprovalRecords
                         /\ [r EXCEPT !.inactive = n].until = r.until
                         /\ [r EXCEPT !.inactive = n].inactive = n
      BY DEF Approvals!ApprovalRecords
    <2>6. QED
      BY <1>2, <2>1, <2>3, <2>4, <2>5, ApprovalsNothing
  <1>3. QED
    BY <1>1, <1>2

LEMMA ApprovalsInit == Init => (part = "approvals" => ApprovalsBase)
  <1> SUFFICES ASSUME part = "approvals", Approvals!Init PROVE ApprovalsBase
    BY DEF Init
  <1>1. Approvals!ApprovalTypes
    BY ApprovalsNothing DEF Approvals!Init, Approvals!ApprovalTypes
  <1>2. Approvals!AtWork
    BY ApprovalsNothing DEF Approvals!Init, Approvals!AtWork
  <1>3. Approvals!LivesOverlap
    BY ApprovalsNothing DEF Approvals!Init, Approvals!LivesOverlap, Approvals!Stored
  <1>4. QED
    BY <1>1, <1>2, <1>3 DEF ApprovalsBase

\* A step of the service or the administrator that leaves the approvals alone: what
\* becomes of the families.
LEMMA FamilySteps ==
  ASSUME ApprovalsBase
  PROVE  /\ \A f \in Families :
              (Approvals!SignIn(f) \/ Approvals!Check(f) \/ Approvals!EndSession(f)
                \/ Approvals!Disconnect(f)) =>
                /\ x2' \in [Families -> Approvals!FamilyRecords]
                /\ \A g \in Families : Aged(g, x2, x2')
         /\ Approvals!Request \/ Approvals!Restart \/ Approvals!Mark =>
              /\ x2' \in [Families -> Approvals!FamilyRecords]
              /\ \A g \in Families : Aged(g, x2, x2')
  <1>t. Approvals!ApprovalTypes /\ x2 \in [Families -> Approvals!FamilyRecords] /\ x1 \in Nat
        /\ x5.targets \subseteq Families
    BY ApprovalsFields DEF ApprovalsBase, Approvals!ApprovalTypes
  <1>s. \A g \in Families : Aged(g, x2, x2)
    BY <1>t, ApprovalsFields DEF Aged
  <1>1. ASSUME NEW f \in Families, Approvals!SignIn(f)
        PROVE  /\ x2' \in [Families -> Approvals!FamilyRecords]
               /\ \A g \in Families : Aged(g, x2, x2')
    <2>1. PICK b \in Bindings : x2' = [x2 EXCEPT
            ![f] = [Approvals!NewFamily EXCEPT !.st = "consent", !.id = b,
                                               !.pending = ~ Approvals!Active(b)]]
      BY <1>1 DEF Approvals!SignIn
    <2> DEFINE r == [Approvals!NewFamily EXCEPT !.st = "consent", !.id = b,
                                                !.pending = ~ Approvals!Active(b)]
    <2>2. Approvals!Active(b) \in BOOLEAN
      BY DEF Approvals!Active
    <2>3. r \in Approvals!FamilyRecords /\ r.st = "consent" /\ ~ r.revoked
      BY <2>2, ApprovalsNothing DEF Approvals!FamilyRecords
    <2>4. x2[f].st = "none"
      BY <1>1 DEF Approvals!SignIn
    <2> HIDE DEF r
    <2>5. /\ x2' \in [Families -> Approvals!FamilyRecords]
          /\ x2'[f] = r /\ \A g \in Families \ {f} : x2'[g] = x2[g]
      BY <1>t, <2>1, <2>3 DEF r
    <2>6. QED
      BY <1>s, <2>3, <2>4, <2>5 DEF Aged
  <1>2. ASSUME NEW f \in Families, Approvals!Check(f)
        PROVE  /\ x2' \in [Families -> Approvals!FamilyRecords]
               /\ \A g \in Families : Aged(g, x2, x2')
    <2>1. CASE UNCHANGED x2
      BY <1>t, <1>s, <2>1
    <2>2. CASE x2' = [x2 EXCEPT ![f] = [Approvals!NewFamily EXCEPT !.st = "gone"]]
      BY <1>t, <1>s, <2>2, ApprovalsNothing DEF Aged
    <2>3. QED
      BY <1>2, <2>1, <2>2 DEF Approvals!Check
  <1>3. ASSUME NEW f \in Families, Approvals!EndSession(f)
        PROVE  /\ x2' \in [Families -> Approvals!FamilyRecords]
               /\ \A g \in Families : Aged(g, x2, x2')
    <2>1. x2' = Approvals!Revoked({f}, x2) /\ {f} \in SUBSET Families /\ x2[f].st = "stored"
      BY <1>3 DEF Approvals!EndSession, Approvals!Stored
    <2>2. QED
      BY <1>t, <2>1, RevokedIsAged
  <1>4. ASSUME NEW f \in Families, Approvals!Disconnect(f)
        PROVE  /\ x2' \in [Families -> Approvals!FamilyRecords]
               /\ \A g \in Families : Aged(g, x2, x2')
    <2>1. x2' = Approvals!Revoked({f} \ Approvals!Expired, Approvals!Collected)
              /\ {f} \ Approvals!Expired \in SUBSET Families
      BY <1>4 DEF Approvals!Disconnect
    <2>2. /\ Approvals!Collected \in [Families -> Approvals!FamilyRecords]
          /\ \A g \in Families : Aged(g, x2, Approvals!Collected)
      BY <1>t, CollectedIsAged
    <2>s. \A g \in {f} \ Approvals!Expired : Approvals!Collected[g].st = "stored"
      BY <1>t, <1>4, CollectedIsAged DEF Approvals!Disconnect, Approvals!Stored
    <2>3. /\ x2' \in [Families -> Approvals!FamilyRecords]
          /\ \A g \in Families : Aged(g, Approvals!Collected, x2')
      BY <1>t, <2>1, <2>2, <2>s, RevokedIsAged
    <2>4. ASSUME NEW g \in Families PROVE Aged(g, x2, x2')
      BY <2>2, <2>3, AgedTwice
    <2>5. QED
      BY <2>3, <2>4
  <1>5. ASSUME Approvals!Request
        PROVE  /\ x2' \in [Families -> Approvals!FamilyRecords]
               /\ \A g \in Families : Aged(g, x2, x2')
    BY <1>t, <1>5, CollectedIsAged DEF Approvals!Request
  <1>6. ASSUME Approvals!Restart
        PROVE  /\ x2' \in [Families -> Approvals!FamilyRecords]
               /\ \A g \in Families : Aged(g, x2, x2')
    BY <1>t, <1>s, <1>6, ApprovalsNothing DEF Approvals!Restart, Aged
  <1>7. ASSUME Approvals!Mark
        PROVE  /\ x2' \in [Families -> Approvals!FamilyRecords]
               /\ \A g \in Families : Aged(g, x2, x2')
    <2> DEFINE fs == {f \in x5.targets : Approvals!Stored(f)}
    <2>1. /\ x2' = Approvals!Revoked(fs, x2) /\ fs \in SUBSET Families
          /\ \A f \in fs : x2[f].st = "stored"
      BY <1>t, <1>7 DEF Approvals!Mark, Approvals!Stored
    <2> HIDE DEF fs
    <2>2. QED
      BY <1>t, <2>1, RevokedIsAged
  <1>8. QED
    BY <1>1, <1>2, <1>3, <1>4, <1>5, <1>6, <1>7

\* The family that is issued a code joins those that live.
LEMMA IssueStep ==
  ASSUME ApprovalsBase, Approvals!Issue
  PROVE  /\ x2' \in [Families -> Approvals!FamilyRecords] /\ Approvals!LivesOverlap'
         /\ \A g \in Families : g # x4.f => Aged(g, x2, x2')
         /\ x4.f \in Families /\ x2[x4.f].st = "consent"
  <1>t. /\ Approvals!ApprovalTypes /\ x1 \in Nat /\ FamilyTTL \in Nat \ {0}
        /\ \A g \in Families : /\ x2[g].expires \in Nat /\ x2[g].revokedAt \in Nat
                               /\ x2[g].revoked \in BOOLEAN
    BY ApprovalsFields, ApprovalsNothing DEF ApprovalsBase
  <1>1. x4.f \in Families /\ x2[x4.f].st = "consent"
    BY DEF ApprovalsBase, Approvals!AtWork, Approvals!Issue
  <1>2. PICK f \in Families : f = x4.f
    BY <1>1
  <1>3. /\ Approvals!Collected \in [Families -> Approvals!FamilyRecords]
            /\ Approvals!Collected[f] \in Approvals!FamilyRecords
        /\ \A g \in Families : /\ Aged(g, x2, Approvals!Collected)
                               /\ Approvals!Collected[g].st = "stored" => x2[g].expires > x1
    BY <1>t, CollectedIsAged
  <1> DEFINE r == [[Approvals!Collected[f] EXCEPT !.st = "stored"] EXCEPT !.expires = x1 + FamilyTTL]
  <1>4. PICK c \in Approvals!FamilyRecords : c = Approvals!Collected[f]
    BY <1>3
  <1>5. r \in Approvals!FamilyRecords /\ r.st = "stored" /\ r.expires = x1 + FamilyTTL
            /\ r.revoked = c.revoked
    <2>1. x1 + FamilyTTL \in Nat
      BY <1>t
    <2>2. [c EXCEPT !.st = "stored"] \in Approvals!FamilyRecords
              /\ [c EXCEPT !.st = "stored"].st = "stored"
          /\ [c EXCEPT !.st = "stored"].revoked = c.revoked
      BY DEF Approvals!FamilyRecords
    <2>3. PICK s \in Approvals!FamilyRecords : s = [c EXCEPT !.st = "stored"]
      BY <2>2
    <2>4. \A n \in Nat : /\ [s EXCEPT !.expires = n] \in Approvals!FamilyRecords
                         /\ [s EXCEPT !.expires = n].st = s.st
                         /\ [s EXCEPT !.expires = n].expires = n
                         /\ [s EXCEPT !.expires = n].revoked = s.revoked
      BY DEF Approvals!FamilyRecords
    <2>5. QED
      BY <1>4, <2>1, <2>2, <2>3, <2>4
  <1>6. x2' = [Approvals!Collected EXCEPT ![f] = r]
    BY <1>2, <1>3 DEF Approvals!Issue
  <1> HIDE DEF r
  <1>7. /\ x2' \in [Families -> Approvals!FamilyRecords] /\ x2'[f] = r
        /\ \A g \in Families : g # f => x2'[g] = Approvals!Collected[g]
    BY <1>3, <1>5, <1>6
  <1>8. ASSUME NEW g \in Families, g # f
        PROVE  /\ Aged(g, x2, x2')
               /\ x2'[g].st = "stored" => x2[g].expires > x1
    BY <1>3, <1>7, <1>8 DEF Aged
  <1>9. ~ r.revoked
    <2>1. x2[f].st = "consent" /\ ~ x2[f].revoked /\ x2[f] = Approvals!Collected[f]
      BY <1>1, <1>2, CollectedIsAged
      DEF ApprovalsBase, Approvals!LivesOverlap, Approvals!Expired, Approvals!Stored
    <2>2. QED
      BY <1>4, <1>5, <2>1
  <1>10. Approvals!LivesOverlap'
    <2>1. UNCHANGED x1
      BY DEF Approvals!Issue
    <2> SUFFICES ASSUME NEW g \in Families
                 PROVE  /\ x2'[g].st = "consent" => ~ x2'[g].revoked
                        /\ x2'[g].st = "stored" =>
                             /\ x2'[g].expires <= x1 + FamilyTTL
                             /\ x2'[g].revoked =>
                                  x2'[g].expires <= x2'[g].revokedAt + FamilyTTL
                             /\ \A h \in Families : x2'[h].st = "stored" =>
                                  x2'[h].expires < x2'[g].expires + FamilyTTL
      BY <2>1 DEF Approvals!LivesOverlap, Approvals!Stored
    <2>o. \A h \in Families :
            /\ x2[h].st = "consent" => ~ x2[h].revoked
            /\ x2[h].st = "stored" =>
                 /\ x2[h].expires <= x1 + FamilyTTL
                 /\ x2[h].revoked => x2[h].expires <= x2[h].revokedAt + FamilyTTL
                 /\ \A k \in Families : x2[k].st = "stored" =>
                      x2[k].expires < x2[h].expires + FamilyTTL
      BY DEF ApprovalsBase, Approvals!LivesOverlap, Approvals!Stored
    <2>f. \A h \in Families : x2'[h].st = "stored" /\ h # f =>
            /\ x2[h].st = "stored" /\ x2'[h].expires = x2[h].expires
            /\ x2[h].expires > x1
      BY <1>8 DEF Aged
    <2>2. CASE g = f
      <3>1. x2'[g].expires = x1 + FamilyTTL /\ x2'[g].st = "stored"
            /\ ~ x2'[g].revoked
        BY <1>5, <1>7, <1>9, <2>2
      <3>2. ASSUME NEW h \in Families, x2'[h].st = "stored"
            PROVE  x2'[h].expires <= x1 + FamilyTTL
        BY <1>t, <2>2, <2>f, <2>o, <3>1, <3>2
      <3>3. \A h \in Families : x2'[h].st = "stored" =>
              x2'[h].expires < x2'[g].expires + FamilyTTL
        <4> TAKE h \in Families
        <4> HAVE x2'[h].st = "stored"
        <4>1. x2'[h].expires <= x1 + FamilyTTL /\ x2'[h].expires \in Nat
          BY <1>t, <2>2, <2>f, <3>1, <3>2
        <4>2. QED
          BY <1>t, <3>1, <4>1
      <3>4. QED
        BY <1>t, <3>1, <3>3
    <2>3. CASE g # f
      <3>1. /\ x2'[g].st = "consent" => ~ x2'[g].revoked
            /\ x2'[g].st = "stored" =>
                 /\ x2'[g].expires <= x1 + FamilyTTL
                 /\ x2'[g].revoked =>
                      x2'[g].expires <= x2'[g].revokedAt + FamilyTTL
        BY <1>t, <1>8, <2>3, <2>o DEF Aged
      <3>2. ASSUME x2'[g].st = "stored", NEW h \in Families, x2'[h].st = "stored"
            PROVE  x2'[h].expires < x2'[g].expires + FamilyTTL
        <4>1. x2'[g].expires = x2[g].expires /\ x2[g].st = "stored"
              /\ x2[g].expires > x1 /\ x2[g].expires \in Nat
          BY <1>t, <2>3, <2>f, <3>2
        <4>2. CASE h = f
          <5>1. x2'[h].expires = x1 + FamilyTTL
            BY <1>5, <1>7, <4>2
          <5>2. QED
            BY <1>t, <4>1, <5>1
        <4>3. CASE h # f
          <5>1. x2'[h].expires = x2[h].expires /\ x2[h].st = "stored"
            BY <2>f, <3>2, <4>3
          <5>2. QED
            BY <2>o, <4>1, <5>1
        <4>4. QED
          BY <4>2, <4>3
      <3>3. QED
        BY <3>1, <3>2
    <2>4. QED
      BY <2>2, <2>3
  <1>11. QED
    BY <1>1, <1>2, <1>7, <1>8, <1>10

LEMMA BaseStays ==
  ASSUME ApprovalsBase, x1' \in Nat, x1' >= x1,
         x2' \in [Families -> Approvals!FamilyRecords],
         \A f \in Families : Aged(f, x2, x2'),
         x3' \in [Bindings -> Approvals!ApprovalRecords \cup {NoRecord}],
         x4' \in Approvals!ServiceRecords, x5' \in Approvals!AdminRecords,
         x5'.at = "allow" => x5'.f \in Families, x8' \subseteq Families, Approvals!AtWork'
  PROVE  ApprovalsBase'
  <1>1. Approvals!ApprovalTypes'
    BY DEF Approvals!ApprovalTypes
  <1>2. Approvals!LivesOverlap'
    BY OverlapStays DEF ApprovalsBase
  <1>3. QED
    BY <1>1, <1>2 DEF ApprovalsBase

LEMMA WorkGoesOn ==
  ASSUME ApprovalsBase, UNCHANGED x4, x1' \in Nat, x1' >= x1,
         \A f \in Families : x2'[f].st = x2[f].st
  PROVE  Approvals!AtWork'
  <1>1. x4.time \in Nat /\ x1 \in Nat /\ Approvals!AtWork
    BY ApprovalsFields DEF ApprovalsBase
  <1>2. QED
    BY <1>1 DEF Approvals!AtWork, Approvals!Stored

LEMMA ServiceSteps ==
  ASSUME ApprovalsBase, Approvals!Next
  PROVE  /\ x4' \in Approvals!ServiceRecords /\ Approvals!AtWork'
  <1>t. /\ Approvals!ApprovalTypes /\ Approvals!AtWork /\ x4 \in Approvals!ServiceRecords
        /\ x2 \in [Families -> Approvals!FamilyRecords]
    BY DEF ApprovalsBase, Approvals!ApprovalTypes
  <1>e. Approvals!ToReport \in SUBSET Approvals!EndRecords
    BY ToReportIsLate
  <1>s. \A f \in Families : x2[f].st \in {"none", "consent", "stored", "gone"}
    BY <1>t, ApprovalsFields
  <1>i. /\ Approvals!Idle \in Approvals!ServiceRecords /\ Approvals!Idle.at = "idle"
            /\ Approvals!Idle.ends = {}
        /\ Approvals!Idle.f = NoFamily
    BY ApprovalsNothing
  <1>n. x4' = Approvals!Idle => x4' \in Approvals!ServiceRecords /\ Approvals!AtWork'
    BY <1>i DEF Approvals!AtWork
  <1>w. ASSUME UNCHANGED <<x4, x2>>, x1' \in Nat, x1' >= x1
        PROVE  x4' \in Approvals!ServiceRecords /\ Approvals!AtWork'
    BY <1>t, <1>w, WorkGoesOn
  <1>c. x1 \in Nat
    BY <1>t, ApprovalsFields
  <1>1. CASE Approvals!Tick
    BY <1>1, <1>w, <1>c DEF Approvals!Tick
  <1>2. CASE Approvals!Issue
    <2> DEFINE s == [x4 EXCEPT !.at = "ends", !.ends = Approvals!ToReport]
    <2>1. x4' = s
      BY <1>2 DEF Approvals!Issue
    <2>2. s \in Approvals!ServiceRecords /\ s.at = "ends"
      BY <1>t, <1>e DEF Approvals!ServiceRecords
    <2> HIDE DEF s
    <2>3. QED
      BY <2>1, <2>2 DEF Approvals!AtWork
  <1>3. ASSUME Approvals!Request \/ \E f \in Families : Approvals!Disconnect(f)
        PROVE  x4' \in Approvals!ServiceRecords /\ Approvals!AtWork'
    <2> DEFINE s == [Approvals!Idle EXCEPT !.at = "ends", !.ends = Approvals!ToReport]
    <2>1. x4' = s
      BY <1>3 DEF Approvals!Request, Approvals!Disconnect
    <2>2. s \in Approvals!ServiceRecords /\ s.at = "ends"
      BY <1>i, <1>e DEF Approvals!ServiceRecords
    <2> HIDE DEF s
    <2>3. QED
      BY <2>1, <2>2 DEF Approvals!AtWork
  <1>4. CASE Approvals!ReportEnd
    <2>1. PICK e \in x4.ends : x4' = [x4 EXCEPT !.ends = @ \ {e}]
      BY <1>4 DEF Approvals!ReportEnd
    <2>2. x4.at = "ends"
      BY <1>4 DEF Approvals!ReportEnd
    <2>3. x4' \in Approvals!ServiceRecords /\ x4'.at = "ends"
      BY <1>t, <2>1, <2>2 DEF Approvals!ServiceRecords
    <2>4. QED
      BY <2>3 DEF Approvals!AtWork
  <1>5. CASE Approvals!Started
    <2>1. CASE x4' = Approvals!Idle
      BY <1>n, <2>1
    <2>2. CASE x4' = [x4 EXCEPT !.at = "record"] /\ x4.f # NoFamily
               /\ Approvals!Stored(x4.f)
      <3>1. x4.ends = {} /\ UNCHANGED x2 /\ x4.f \in Families
        BY <1>t, <1>5, <2>2, ApprovalsFields DEF Approvals!Started
      <3>2. /\ x4' \in Approvals!ServiceRecords /\ x4'.at = "record" /\ x4'.ends = {}
            /\ x4'.f = x4.f
        BY <1>t, <2>2, <3>1 DEF Approvals!ServiceRecords
      <3>3. QED
        BY <2>2, <3>1, <3>2 DEF Approvals!AtWork, Approvals!Stored
    <2>3. QED
      BY <1>5, <2>1, <2>2 DEF Approvals!Started
  <1>6. CASE Approvals!Record \/ Approvals!Maintain \/ Approvals!Restart
    BY <1>6, <1>n DEF Approvals!Record, Approvals!Maintain, Approvals!Restart
  <1>7. CASE Approvals!Look
    <2> DEFINE ended == [b \in Bindings |-> Approvals!Ended(b)]
               active == {b \in Bindings : \E f \in Approvals!OfBinding(b) : Approvals!Live(f)}
               s == [Approvals!Idle EXCEPT !.at = "maintain", !.time = x1, !.active = active,
                                  !.ended = ended]
    <2>1. x4' = s /\ UNCHANGED <<x1, x2>>
      BY <1>7 DEF Approvals!Look
    <2>2. ended \in [Bindings -> Nat] /\ active \in SUBSET Bindings
      BY EndedIsTime
    <2> HIDE DEF ended, active
    <2>3. /\ s \in Approvals!ServiceRecords /\ s.at = "maintain" /\ s.ends = {} /\ s.time = x1
          /\ s.ended = ended
      BY <1>i, <1>c, <2>2 DEF Approvals!ServiceRecords
    <2> HIDE DEF s
    <2>4. QED
      BY <1>c, <2>1, <2>2, <2>3 DEF Approvals!AtWork
  <1>8. CASE Approvals!Allow \/ Approvals!Match \/ \E b \in Bindings : Approvals!Remove(b)
    <2>1. CASE Approvals!Allow
      BY <2>1, <1>w, <1>c DEF Approvals!Allow
    <2>2. CASE Approvals!Match
      BY <2>2, <1>w, <1>c DEF Approvals!Match
    <2>3. ASSUME NEW b \in Bindings, Approvals!Remove(b)
          PROVE  x4' \in Approvals!ServiceRecords /\ Approvals!AtWork'
      BY <2>3, <1>w, <1>c DEF Approvals!Remove
    <2>4. QED
      BY <1>8, <2>1, <2>2, <2>3
  <1>9. CASE Approvals!Mark
    <2> DEFINE fs == {f \in x5.targets : Approvals!Stored(f)}
    <2>1. x2' = Approvals!Revoked(fs, x2) /\ UNCHANGED <<x4, x1>>
      BY <1>9 DEF Approvals!Mark
    <2>2. x5.targets \subseteq Families
      BY <1>t, ApprovalsFields
    <2>3. fs \in SUBSET Families /\ \A f \in fs : x2[f].st = "stored"
      BY <2>2 DEF Approvals!Stored
    <2> HIDE DEF fs
    <2>4. \A f \in Families : x2'[f].st = x2[f].st
      BY <1>t, <1>c, <2>1, <2>3, RevokedIsAged
    <2>5. x1' \in Nat /\ x1' >= x1 /\ UNCHANGED x4
      BY <1>c, <2>1
    <2>6. QED
      BY <1>t, <2>4, <2>5, WorkGoesOn
  <1>10. ASSUME NEW f \in Families, Approvals!SignIn(f)
         PROVE  x4' \in Approvals!ServiceRecords /\ Approvals!AtWork'
    BY <1>n, <1>10 DEF Approvals!SignIn
  <1>11. ASSUME NEW f \in Families, Approvals!Check(f)
         PROVE  x4' \in Approvals!ServiceRecords /\ Approvals!AtWork'
    <2>1. CASE x4' = [Approvals!Idle EXCEPT !.at = "issue", !.f = f] /\ UNCHANGED x2
      <3>1. x2[f].st = "consent"
        BY <1>11 DEF Approvals!Check
      <3>2. /\ x4' \in Approvals!ServiceRecords /\ x4'.at = "issue" /\ x4'.ends = {}
            /\ x4'.f = f
        BY <1>i, <2>1 DEF Approvals!ServiceRecords
      <3>3. QED
        BY <2>1, <3>1, <3>2 DEF Approvals!AtWork
    <2>2. CASE UNCHANGED x4
      BY <1>n, <1>11, <2>2 DEF Approvals!Check
    <2>3. QED
      BY <1>11, <2>1, <2>2 DEF Approvals!Check
  <1>12. ASSUME NEW f \in Families, Approvals!LookUp(f)
         PROVE  x4' \in Approvals!ServiceRecords /\ Approvals!AtWork'
    BY <1>12, <1>w, <1>c DEF Approvals!LookUp
  <1>13. ASSUME NEW f \in Families, Approvals!EndSession(f)
         PROVE  x4' \in Approvals!ServiceRecords /\ Approvals!AtWork'
    <2>1. /\ x2' = Approvals!Revoked({f}, x2) /\ UNCHANGED <<x4, x1>>
          /\ x2[f].st = "stored"
      BY <1>13 DEF Approvals!EndSession, Approvals!Stored
    <2>2. {f} \in SUBSET Families
      OBVIOUS
    <2>3. \A g \in Families : x2'[g].st = x2[g].st
      BY <1>t, <1>c, <2>1, <2>2, RevokedIsAged
    <2>4. x1' \in Nat /\ x1' >= x1 /\ UNCHANGED x4
      BY <1>c, <2>1
    <2>5. QED
      BY <1>t, <2>3, <2>4, WorkGoesOn
  <1>14. QED
    BY <1>1, <1>2, <1>3, <1>4, <1>5, <1>6, <1>7, <1>8, <1>9, <1>10, <1>11, <1>12, <1>13
    DEF Approvals!Next

LEMMA ApprovalRecordSteps ==
  ASSUME ApprovalsBase, Approvals!Next
  PROVE  /\ x3' \in [Bindings -> Approvals!ApprovalRecords \cup {NoRecord}]
         /\ x5' \in Approvals!AdminRecords /\ (x5'.at = "allow" => x5'.f \in Families)
         /\ x8' \subseteq Families
  <1>t. /\ Approvals!ApprovalTypes
            /\ x3 \in [Bindings -> Approvals!ApprovalRecords \cup {NoRecord}]
        /\ x5 \in Approvals!AdminRecords /\ (x5.at = "allow" => x5.f \in Families)
        /\ x8 \subseteq Families
    BY DEF ApprovalsBase, Approvals!ApprovalTypes
  <1>n. Approvals!NoRequest \in Approvals!AdminRecords /\ Approvals!NoRequest.at = "idle"
    BY ApprovalsNothing
  <1>f. /\ x5.at \in {"idle", "allow", "match", "mark"}
        /\ x5.f \in Families \cup {NoFamily} /\ x5.id \in Bindings
        /\ x5.expires \in Nat
        /\ \A f \in Families : x2[f].id \in Bindings /\ x2[f].expires \in Nat
    BY <1>t, ApprovalsFields
  <1>u. UNCHANGED <<x3, x5, x8>> =>
          /\ x3' \in [Bindings -> Approvals!ApprovalRecords \cup {NoRecord}]
          /\ x5' \in Approvals!AdminRecords /\ (x5'.at = "allow" => x5'.f \in Families)
          /\ x8' \subseteq Families
    BY <1>t
  <1>1. CASE \/ Approvals!Tick \/ Approvals!Issue \/ Approvals!Request \/ Approvals!Started
                  \/ Approvals!Look \/ Approvals!Restart
             \/ \E f \in Families : Approvals!SignIn(f) \/ Approvals!Check(f)
                  \/ Approvals!Disconnect(f) \/ Approvals!EndSession(f)
    BY <1>1, <1>u
    DEF Approvals!Tick, Approvals!Issue, Approvals!Request, Approvals!Started, Approvals!Look,
        Approvals!Restart, Approvals!SignIn, Approvals!Check,
       Approvals!Disconnect, Approvals!EndSession
  <1>2. CASE Approvals!ReportEnd
    <2>1. CASE UNCHANGED x3
      BY <1>2, <1>u, <2>1 DEF Approvals!ReportEnd
    <2>2. PICK e \in x4.ends : TRUE
      BY <1>2 DEF Approvals!ReportEnd
    <2>3. ASSUME NEW d \in x4.ends,
                 x3' = [x3 EXCEPT ![d.id] = Approvals!EndRecorded(@, d.end)]
          PROVE  x3' \in [Bindings -> Approvals!ApprovalRecords \cup {NoRecord}]
      <3>1. d.id \in Bindings /\ d.end \in Nat
        BY <1>t, ApprovalsFields
      <3>2. PICK r \in Approvals!ApprovalRecords \cup {NoRecord} : r = x3[d.id]
        BY <1>t, <3>1
      <3>3. Approvals!EndRecorded(r, d.end) \in Approvals!ApprovalRecords \cup {NoRecord}
        <4>1. CASE r = NoRecord
          BY <4>1 DEF Approvals!EndRecorded
        <4>2. CASE r \in Approvals!ApprovalRecords
          BY <3>1, <4>2, EndRecordedFacts
        <4>3. QED
          BY <4>1, <4>2
      <3>4. QED
        BY <1>t, <2>3, <3>1, <3>2, <3>3
    <2>4. QED
      BY <1>t, <1>2, <2>1, <2>3 DEF Approvals!ReportEnd
  <1>3. CASE Approvals!Record
    <2>1. x4.f \in Families
      BY <1>3 DEF ApprovalsBase, Approvals!AtWork, Approvals!Record
    <2>2. CASE UNCHANGED <<x3, x8>>
      BY <1>3, <1>u, <2>2 DEF Approvals!Record
    <2>3. CASE /\ x3' = [x3 EXCEPT ![x2[x4.f].id] =
                                 Approvals!Approved(@, x2[x4.f].expires)]
               /\ x8' = x8 \cup {x4.f}
      <3>1. PICK b \in Bindings, x \in Nat :
              b = x2[x4.f].id /\ x = x2[x4.f].expires
        BY <1>f, <2>1
      <3>2. Approvals!Approved(x3[b], x) \in Approvals!ApprovalRecords
        BY <1>t, <3>1, ApprovedFacts
      <3>3. QED
        BY <1>t, <1>3, <2>1, <2>3, <3>1, <3>2 DEF Approvals!Record
    <2>4. QED
      BY <1>3, <2>2, <2>3 DEF Approvals!Record
  <1>4. CASE Approvals!Maintain
    <2>1. x4.ended \in [Bindings -> Nat]
      BY <1>4 DEF ApprovalsBase, Approvals!AtWork, Approvals!Maintain
    <2>2. \A b \in Bindings : Approvals!Reconciled(b) \in Approvals!ApprovalRecords \cup {NoRecord}
      BY <1>t, <2>1, ReconciledFacts
    <2>3. QED
      BY <1>t, <1>4, <2>2 DEF Approvals!Maintain
  <1>5. ASSUME NEW f \in Families, Approvals!LookUp(f)
        PROVE  /\ x5' \in Approvals!AdminRecords /\ x5'.f \in Families
               /\ UNCHANGED <<x3, x8>>
    <2>1. /\ x5' = [Approvals!NoRequest EXCEPT !.at = "allow", !.f = f, !.id = x2[f].id,
                                          !.expires = x2[f].expires]
          /\ UNCHANGED <<x3, x8>>
      BY <1>5 DEF Approvals!LookUp
    <2>2. QED
      BY <1>n, <1>f, <2>1 DEF Approvals!AdminRecords
  <1>6. CASE Approvals!Allow
    <2>1. x5.f \in Families /\ x8' \in {x8, x8 \cup {x5.f}}
      BY <1>t, <1>6 DEF Approvals!Allow
    <2>2. Approvals!Approved(x3[x5.id], x5.expires) \in Approvals!ApprovalRecords
      BY <1>t, <1>f, ApprovedFacts
    <2>3. x3' \in [Bindings -> Approvals!ApprovalRecords \cup {NoRecord}]
      BY <1>t, <1>f, <1>6, <2>2 DEF Approvals!Allow
    <2>4. QED
      BY <1>t, <1>n, <1>6, <2>1, <2>3 DEF Approvals!Allow
  <1>7. ASSUME NEW b \in Bindings, Approvals!Remove(b)
        PROVE  /\ x3' \in [Bindings -> Approvals!ApprovalRecords \cup {NoRecord}]
               /\ x5' \in Approvals!AdminRecords /\ x5'.at = "match" /\ UNCHANGED x8
    <2>1. /\ x3' = [x3 EXCEPT ![b] = NoRecord] /\ UNCHANGED x8
          /\ x5' = [Approvals!NoRequest EXCEPT !.at = "match", !.id = b]
      BY <1>7 DEF Approvals!Remove
    <2>2. x5' \in Approvals!AdminRecords /\ x5'.at = "match"
      BY <1>n, <2>1 DEF Approvals!AdminRecords
    <2>3. QED
      BY <1>t, <2>1, <2>2
  <1>8. CASE Approvals!Match
    <2> DEFINE fs == {f \in Approvals!OfBinding(x5.id) : ~ x2[f].revoked}
    <2>1. x5' \in {Approvals!NoRequest, [x5 EXCEPT !.at = "mark", !.targets = fs]}
      BY <1>8 DEF Approvals!Match
    <2>2. fs \in SUBSET Families
      BY DEF Approvals!OfBinding
    <2> HIDE DEF fs
    <2>3. x5' \in Approvals!AdminRecords /\ x5'.at # "allow"
      BY <1>n, <1>t, <2>1, <2>2 DEF Approvals!AdminRecords
    <2>4. QED
      BY <1>t, <1>8, <2>3 DEF Approvals!Match
  <1>9. CASE Approvals!Mark
    BY <1>t, <1>n, <1>9 DEF Approvals!Mark
  <1>10. QED
    BY <1>t, <1>1, <1>2, <1>3, <1>4, <1>5, <1>6, <1>7, <1>8, <1>9 DEF Approvals!Next

\* The base is kept, and but for the one that is issued a code all families age.
LEMMA ApprovalsBaseStep ==
  ASSUME ApprovalsBase, Approvals!Next
  PROVE  /\ ApprovalsBase' /\ x1' \in Nat /\ x1' >= x1
         /\ \A f \in Families : Aged(f, x2, x2') \/ (Approvals!Issue /\ f = x4.f)
  <1>t. Approvals!ApprovalTypes /\ x1 \in Nat /\ x2 \in [Families -> Approvals!FamilyRecords]
    BY ApprovalsFields DEF ApprovalsBase, Approvals!ApprovalTypes
  <1>s. \A g \in Families : Aged(g, x2, x2)
    BY <1>t, ApprovalsFields DEF Aged
  <1>c. x1' \in Nat /\ x1' >= x1
    <2>1. CASE Approvals!Tick
      BY <1>t, <2>1 DEF Approvals!Tick
    <2>2. UNCHANGED x1 => x1' \in Nat /\ x1' >= x1
      BY <1>t
    <2>3. CASE ~ Approvals!Tick
      <3>1. UNCHANGED x1
        BY <2>3 DEF Approvals!Next, Approvals!Issue, Approvals!Request, Approvals!ReportEnd,
           Approvals!Started, Approvals!Record, Approvals!Look, Approvals!Maintain,
           Approvals!Restart, Approvals!Allow, Approvals!Match, Approvals!Mark, Approvals!SignIn,
           Approvals!Check, Approvals!Disconnect, Approvals!LookUp, Approvals!EndSession,
           Approvals!Remove
      <3>2. QED
        BY <2>2, <3>1
    <2>4. QED
      BY <2>1, <2>3
  <1>1. CASE Approvals!Issue
    <2>1. /\ x2' \in [Families -> Approvals!FamilyRecords] /\ Approvals!LivesOverlap'
          /\ \A g \in Families : g # x4.f => Aged(g, x2, x2')
      BY <1>1, IssueStep
    <2>2. Approvals!ApprovalTypes'
      BY <1>c, <2>1, ServiceSteps, ApprovalRecordSteps DEF Approvals!ApprovalTypes
    <2>3. QED
      BY <1>1, <1>c, <2>1, <2>2, ServiceSteps DEF ApprovalsBase
  <1>2. CASE ~ Approvals!Issue
    <2>1. /\ x2' \in [Families -> Approvals!FamilyRecords]
          /\ \A g \in Families : Aged(g, x2, x2')
      <3>1. CASE UNCHANGED x2
        BY <1>t, <1>s, <3>1
      <3>2. CASE \/ Approvals!Request \/ Approvals!Restart \/ Approvals!Mark
                 \/ \E f \in Families : Approvals!SignIn(f) \/ Approvals!Check(f)
                      \/ Approvals!Disconnect(f) \/ Approvals!EndSession(f)
        BY <3>2, FamilySteps
      <3>3. QED
        BY <1>2, <3>1, <3>2
        DEF Approvals!Next, Approvals!Tick, Approvals!ReportEnd, Approvals!Started,
            Approvals!Record, Approvals!Look, Approvals!Maintain,
           Approvals!Allow, Approvals!Match, Approvals!LookUp, Approvals!Remove
    <2>2. ApprovalsBase'
      BY <1>c, <2>1, BaseStays, ServiceSteps, ApprovalRecordSteps
    <2>3. QED
      BY <1>c, <2>1, <2>2
  <1>3. QED
    BY <1>1, <1>2

LEMMA GivenStep ==
  ASSUME Approvals!GivenInv, Approvals!Next
  PROVE  Approvals!GivenInv'
  <1>b. ApprovalsBase /\ Approvals!ApprovalTypes /\ Approvals!AtWork /\ Approvals!RecordedIsGiven
            /\ Approvals!RecordingIsGiven
    BY DEF Approvals!GivenInv, ApprovalsBase
  <1>n. /\ ApprovalsBase' /\ Approvals!AtWork'
        /\ \A f \in Families : Aged(f, x2, x2') \/ (Approvals!Issue /\ f = x4.f)
    BY <1>b, ApprovalsBaseStep DEF ApprovalsBase
  <1>i. Approvals!Idle.at = "idle" /\ Approvals!Idle \in Approvals!ServiceRecords
    BY ApprovalsNothing
  <1>s. x4 \in Approvals!ServiceRecords /\ x4.f \in Families \cup {NoFamily}
    BY <1>b, ApprovalsFields DEF Approvals!ApprovalTypes
  \* What is recorded, the service goes on recording.
  <1>r. ASSUME UNCHANGED x4, ~ Approvals!Issue, x4.at = "record"
        PROVE  x4.f \in Families /\ x2'[x4.f].id = x2[x4.f].id
    <2>1. x4.f \in Families /\ x2'[x4.f].st = "stored"
      BY <1>n, <1>r DEF Approvals!AtWork, Approvals!Stored
    <2>2. QED
      BY <1>n, <1>r, <2>1 DEF Aged
  <1>1. CASE UNCHANGED <<x3, x6, x7>>
    <2>1. Approvals!RecordedIsGiven'
      BY <1>b, <1>1 DEF Approvals!RecordedIsGiven
    <2>2. Approvals!RecordingIsGiven'
      <3>1. CASE UNCHANGED x4 /\ ~ Approvals!Issue
        BY <1>b, <1>r, <1>1, <3>1 DEF Approvals!RecordingIsGiven
      <3>2. CASE Approvals!Started
        <4>1. CASE x4' = Approvals!Idle
          BY <1>i, <4>1 DEF Approvals!RecordingIsGiven
        <4>2. CASE /\ x4' = [x4 EXCEPT !.at = "record"] /\ x4.f # NoFamily
                   /\ Approvals!Active(x2[x4.f].id) /\ UNCHANGED x2
          <5>1. x4'.f = x4.f /\ x4.f \in Families
            BY <1>s, <4>2 DEF Approvals!ServiceRecords
          <5>2. x2[x4.f].id \in Bindings
            BY <1>b, <5>1, ApprovalsFields
          <5>3. x2[x4.f].id \in x6 \cup x7
            BY <1>b, <4>2, <5>2 DEF Approvals!RecordedIsGiven, Approvals!Active
          <5>4. QED
            BY <1>1, <4>2, <5>1, <5>3 DEF Approvals!RecordingIsGiven
        <4>3. QED
          BY <3>2, <4>1, <4>2 DEF Approvals!Started
      <3>3. CASE x4'.at # "record"
        BY <3>3 DEF Approvals!RecordingIsGiven
      <3>4. QED
        <4>1. CASE Approvals!Request \/ \E f \in Families : Approvals!Disconnect(f)
          BY <1>i, <3>3, <4>1
          DEF Approvals!Request, Approvals!Disconnect, Approvals!ServiceRecords
        <4>2. CASE Approvals!Issue
          BY <1>s, <3>3, <4>2 DEF Approvals!Issue, Approvals!ServiceRecords
        <4>3. CASE Approvals!Look
          BY <1>i, <3>3, <4>3 DEF Approvals!Look, Approvals!ServiceRecords
        <4>4. CASE Approvals!ReportEnd
          BY <1>s, <3>3, <4>4 DEF Approvals!ReportEnd, Approvals!ServiceRecords
        <4>5. CASE Approvals!Record \/ Approvals!Maintain \/ Approvals!Restart
          BY <1>i, <3>3, <4>5 DEF Approvals!Record, Approvals!Maintain, Approvals!Restart
        <4>6. ASSUME NEW f \in Families, Approvals!Check(f)
              PROVE  UNCHANGED x4 \/ x4'.at # "record"
          BY <1>i, <4>6 DEF Approvals!Check, Approvals!ServiceRecords
        <4>7. ASSUME \/ Approvals!Tick \/ Approvals!Allow \/ Approvals!Match \/ Approvals!Mark
                          \/ (\E b \in Bindings : Approvals!Remove(b))
                     \/ \E f \in Families : Approvals!SignIn(f) \/ Approvals!LookUp(f)
                          \/ Approvals!EndSession(f)
              PROVE  UNCHANGED x4
          <5>1. CASE Approvals!Tick \/ Approvals!Allow \/ Approvals!Match \/ Approvals!Mark
            BY <5>1 DEF Approvals!Tick, Approvals!Allow, Approvals!Match, Approvals!Mark
          <5>2. CASE \E b \in Bindings : Approvals!Remove(b)
            BY <5>2 DEF Approvals!Remove
          <5>3. CASE \E f \in Families : Approvals!SignIn(f) \/ Approvals!LookUp(f)
                       \/ Approvals!EndSession(f)
            BY <5>3 DEF Approvals!SignIn, Approvals!LookUp, Approvals!EndSession
          <5>4. QED
            BY <4>7, <5>1, <5>2, <5>3
        <4>i. Approvals!Issue \/ ~ Approvals!Issue
          OBVIOUS
        <4>8. QED
          BY <3>1, <3>2, <3>3, <4>1, <4>2, <4>3, <4>4, <4>5, <4>6, <4>7, <4>i DEF Approvals!Next
    <2>3. QED
      BY <1>n, <2>1, <2>2 DEF Approvals!GivenInv, ApprovalsBase
  <1>2. CASE Approvals!ReportEnd
    <2>1. x4'.at = "ends" /\ UNCHANGED <<x6, x7>>
      BY <1>s, <1>2 DEF Approvals!ReportEnd, Approvals!ServiceRecords
    <2>2. \A b \in Bindings : x3[b] = NoRecord => x3'[b] = NoRecord
      <3>1. CASE UNCHANGED x3
        BY <3>1
      <3>2. ASSUME NEW e \in x4.ends,
                   x3' = [x3 EXCEPT ![e.id] = Approvals!EndRecorded(@, e.end)]
            PROVE  \A b \in Bindings : x3[b] = NoRecord => x3'[b] = NoRecord
        BY <1>b, <3>2 DEF Approvals!EndRecorded, Approvals!ApprovalTypes
      <3>3. QED
        BY <1>2, <3>1, <3>2 DEF Approvals!ReportEnd
    <2>3. Approvals!RecordedIsGiven' /\ Approvals!RecordingIsGiven'
      BY <1>b, <2>1, <2>2 DEF Approvals!RecordedIsGiven, Approvals!RecordingIsGiven
    <2>4. QED
      BY <1>n, <2>3 DEF Approvals!GivenInv, ApprovalsBase
  <1>3. CASE Approvals!Record
    <2>1. x4.f \in Families /\ x2[x4.f].id \in x6 \cup x7
      BY <1>b, <1>3 DEF Approvals!Record, Approvals!AtWork, Approvals!RecordingIsGiven
    <2>2. \A b \in Bindings : b # x2[x4.f].id => x3'[b] = x3[b]
      BY <1>b, <1>3 DEF Approvals!Record, Approvals!ApprovalTypes
    <2>3. x4'.at = "idle" /\ UNCHANGED <<x6, x7>>
      BY <1>i, <1>3 DEF Approvals!Record
    <2>4. Approvals!RecordedIsGiven' /\ Approvals!RecordingIsGiven'
      BY <1>b, <2>1, <2>2, <2>3 DEF Approvals!RecordedIsGiven, Approvals!RecordingIsGiven
    <2>5. QED
      BY <1>n, <2>4 DEF Approvals!GivenInv, ApprovalsBase
  <1>4. CASE Approvals!Maintain
    <2>1. x4.ended \in [Bindings -> Nat]
      BY <1>b, <1>4 DEF Approvals!AtWork, Approvals!Maintain
    <2>2. \A b \in Bindings : x3[b] = NoRecord => x3'[b] = NoRecord
      BY <1>b, <1>4, <2>1, ReconciledFacts DEF Approvals!Maintain
    <2>3. x4'.at = "idle" /\ UNCHANGED <<x6, x7>>
      BY <1>i, <1>4 DEF Approvals!Maintain
    <2>4. Approvals!RecordedIsGiven' /\ Approvals!RecordingIsGiven'
      BY <1>b, <2>2, <2>3 DEF Approvals!RecordedIsGiven, Approvals!RecordingIsGiven
    <2>5. QED
      BY <1>n, <2>4 DEF Approvals!GivenInv, ApprovalsBase
  <1>5. CASE Approvals!Allow
    <2>1. /\ \A b \in Bindings : b # x5.id => x3'[b] = x3[b]
          /\ x6' = x6 \cup {x5.id} /\ x7' = x7 \ {x5.id}
          /\ UNCHANGED <<x4, x2>>
      BY <1>b, <1>5 DEF Approvals!Allow, Approvals!ApprovalTypes
    <2>2. Approvals!RecordedIsGiven' /\ Approvals!RecordingIsGiven'
      BY <1>b, <2>1 DEF Approvals!RecordedIsGiven, Approvals!RecordingIsGiven
    <2>3. QED
      BY <1>n, <2>2 DEF Approvals!GivenInv, ApprovalsBase
  <1>6. ASSUME NEW b \in Bindings, Approvals!Remove(b)
        PROVE  Approvals!GivenInv'
    <2>1. /\ x3'[b] = NoRecord /\ \A d \in Bindings : d # b => x3'[d] = x3[d]
          /\ x6' = x6 \ {b} /\ UNCHANGED <<x4, x2>>
          /\ x7' = IF x4.at = "record" /\ x2[x4.f].id = b
                         THEN x7 \cup {b} ELSE x7 \ {b}
      BY <1>b, <1>6 DEF Approvals!Remove, Approvals!ApprovalTypes
    <2>2. Approvals!RecordedIsGiven' /\ Approvals!RecordingIsGiven'
      BY <1>b, <2>1 DEF Approvals!RecordedIsGiven, Approvals!RecordingIsGiven
    <2>3. QED
      BY <1>n, <2>2 DEF Approvals!GivenInv, ApprovalsBase
  <1>7. QED
    <2>1. CASE \/ Approvals!Tick \/ Approvals!Issue \/ Approvals!Request \/ Approvals!Started
                    \/ Approvals!Look \/ Approvals!Restart \/ Approvals!Match \/ Approvals!Mark
               \/ \E f \in Families :
                    Approvals!SignIn(f) \/ Approvals!Check(f) \/ Approvals!Disconnect(f)
                      \/ Approvals!LookUp(f) \/ Approvals!EndSession(f)
      BY <1>1, <2>1
      DEF Approvals!Tick, Approvals!Issue, Approvals!Request, Approvals!Started, Approvals!Look,
          Approvals!Restart, Approvals!Match, Approvals!Mark,
         Approvals!SignIn, Approvals!Check, Approvals!Disconnect, Approvals!LookUp,
         Approvals!EndSession
    <2>2. QED
      BY <1>2, <1>3, <1>4, <1>5, <1>6, <2>1 DEF Approvals!Next

LEMMA GivenInit == Init => GivenInv
  BY ApprovalsInit, ApprovalsNothing
  DEF Init, GivenInv, ApprovalsBase, Approvals!GivenInv, Approvals!Init,
     Approvals!RecordedIsGiven, Approvals!RecordingIsGiven

LEMMA GivenKept == GivenInv /\ [Next]_vars => GivenInv'
  <1> SUFFICES ASSUME GivenInv, [Next]_vars, part' = "approvals" PROVE Approvals!GivenInv'
    BY DEF GivenInv
  <1>1. CASE part = "approvals" /\ Approvals!Next
    BY <1>1, GivenStep DEF GivenInv
  <1>2. CASE part = "approvals" /\ UNCHANGED vars
    BY <1>2 DEF GivenInv, vars, Approvals!GivenInv, Approvals!ApprovalTypes, Approvals!AtWork,
       Approvals!LivesOverlap, Approvals!Stored,
       Approvals!RecordedIsGiven, Approvals!RecordingIsGiven
  <1>3. QED
    BY <1>1, <1>2 DEF Next, vars, RunCache, RunProject, RunConfirmation, RunLogin, RunCorrections,
       RunHistory, RunApprovals, RunShift, RunStop, RunHealth, RunDiscovery

\* Whatever the service and the administrator do between each other's steps, no approval
\* is in force that the administrator has not given, or that was removed since: but for
\* one that the service was recording.
THEOREM ApprovalsAreGiven == Spec => []GivenByAdmin
  <1>1. GivenInv => GivenByAdmin
    BY DEF GivenInv, GivenByAdmin, Approvals!GivenInv, Approvals!GivenByAdmin,
       Approvals!RecordedIsGiven, Approvals!Active
  <1>2. QED
    BY <1>1, GivenInit, GivenKept, PTL DEF Spec

\* The families that an approval was recorded for are never issued again: they age.
LEMMA RecordedAges ==
  ASSUME ApprovalsBase, Approvals!EndsAreLate, Approvals!Next, NEW f \in x8
  PROVE  /\ f \in Families /\ Aged(f, x2, x2')
         /\ Approvals!Stored(f)' => /\ Approvals!Stored(f) /\ x2'[f].id = x2[f].id
                           /\ x2'[f].expires = x2[f].expires
         /\ Approvals!Live(f)' => Approvals!Live(f) /\ Approvals!Stored(f)'
  <1>1. f \in Families /\ x2[f].st \in {"stored", "gone"} /\ x2[f].revoked \in BOOLEAN
    BY ApprovalsFields DEF ApprovalsBase, Approvals!ApprovalTypes, Approvals!EndsAreLate
  <1>2. Aged(f, x2, x2')
    <2>1. CASE Approvals!Issue /\ f = x4.f
      BY <1>1, <2>1, IssueStep
    <2>2. QED
      BY <1>1, <2>1, ApprovalsBaseStep
  <1>3. x1 \in Nat /\ x1' \in Nat /\ x1' >= x1 /\ x2[f].expires \in Nat
    BY <1>1, ApprovalsBaseStep, ApprovalsFields DEF ApprovalsBase
  <1>4. QED
    BY <1>1, <1>2, <1>3 DEF Aged, Approvals!Stored, Approvals!Live

\* What is to be reported was so before, or has just expired; and only while nothing
\* is, a family comes to be recorded.
LEMMA ReportSteps ==
  ASSUME ApprovalsBase, Approvals!Next
  PROVE  /\ x4'.ends \subseteq x4.ends \cup Approvals!ToReport
         /\ \/ x8' = x8
            \/ /\ Approvals!Record /\ x8' = x8 \cup {x4.f} /\ x4'.ends = {}
            \/ /\ Approvals!Allow /\ x8' = x8 \cup {x5.f} /\ x4 = Approvals!Idle
               /\ x4' = Approvals!Idle
  <1>i. /\ Approvals!Idle \in Approvals!ServiceRecords /\ Approvals!Idle.ends = {}
            /\ x4 \in Approvals!ServiceRecords
        /\ [Approvals!Idle EXCEPT !.at = "ends",
                                  !.ends = Approvals!ToReport].ends = Approvals!ToReport
        /\ \A f \in Families : [Approvals!Idle EXCEPT !.at = "issue", !.f = f].ends = {}
    BY ApprovalsNothing DEF ApprovalsBase, Approvals!ApprovalTypes, Approvals!Idle
  <1>1. CASE Approvals!Issue
    BY <1>i, <1>1 DEF Approvals!Issue, Approvals!ServiceRecords
  <1>2. CASE Approvals!Request
    BY <1>i, <1>2 DEF Approvals!Request
  <1>3. CASE Approvals!ReportEnd
    BY <1>i, <1>3 DEF Approvals!ReportEnd, Approvals!ServiceRecords
  <1>4. CASE Approvals!Started
    BY <1>i, <1>4 DEF Approvals!Started, Approvals!ServiceRecords
  <1>5. CASE Approvals!Record
    BY <1>i, <1>5 DEF Approvals!Record
  <1>6. CASE Approvals!Look
    BY <1>i, <1>6 DEF Approvals!Look, Approvals!ServiceRecords, Approvals!Idle
  <1>7. CASE Approvals!Maintain \/ Approvals!Restart
    BY <1>i, <1>7 DEF Approvals!Maintain, Approvals!Restart
  <1>8. CASE Approvals!Allow
    BY <1>i, <1>8 DEF Approvals!Allow
  <1>9. CASE Approvals!Tick \/ Approvals!Match \/ Approvals!Mark
    BY <1>9 DEF Approvals!Tick, Approvals!Match, Approvals!Mark
  <1>10. ASSUME NEW b \in Bindings, Approvals!Remove(b)
         PROVE  UNCHANGED <<x4, x8>>
    BY <1>10 DEF Approvals!Remove
  <1>11. ASSUME NEW f \in Families,
                Approvals!SignIn(f) \/ Approvals!LookUp(f) \/ Approvals!EndSession(f)
         PROVE  UNCHANGED <<x4, x8>>
    BY <1>11 DEF Approvals!SignIn, Approvals!LookUp, Approvals!EndSession
  <1>12. ASSUME NEW f \in Families, Approvals!Check(f)
         PROVE  (x4' = x4 \/ x4'.ends = {}) /\ UNCHANGED x8
    BY <1>i, <1>12 DEF Approvals!Check
  <1>13. ASSUME NEW f \in Families, Approvals!Disconnect(f)
         PROVE  x4'.ends = Approvals!ToReport /\ UNCHANGED x8
    BY <1>i, <1>13 DEF Approvals!Disconnect
  <1>14. QED
    BY <1>1, <1>2, <1>3, <1>4, <1>5, <1>6, <1>7, <1>8, <1>9, <1>10, <1>11, <1>12, <1>13
    DEF Approvals!Next

LEMMA EndsStayLate ==
  ASSUME ApprovalsBase, Approvals!EndsAreLate, Approvals!AllowsWhatItSaw, Approvals!Next
  PROVE  Approvals!EndsAreLate'
  <1>1. ASSUME NEW f \in x8'
        PROVE  x2'[f].st \in {"stored", "gone"}
    <2>1. CASE f \in x8
      BY <2>1, RecordedAges DEF Aged, Approvals!EndsAreLate
    <2>2. CASE Approvals!Record /\ f = x4.f
      BY <2>2 DEF ApprovalsBase, Approvals!Record, Approvals!AtWork, Approvals!Stored
    <2>3. CASE Approvals!Allow /\ f = x5.f
      BY <2>3 DEF Approvals!Allow, Approvals!AllowsWhatItSaw
    <2>4. QED
      BY <1>1, <2>1, <2>2, <2>3, ReportSteps
  <1>2. ASSUME NEW e \in x4'.ends, NEW f \in x8', Approvals!Stored(f)'
        PROVE  x2'[f].expires < e.end + 2 * FamilyTTL
    <2>1. f \in x8
      BY <1>2, ReportSteps, ApprovalsNothing
    <2>2. /\ f \in Families /\ Approvals!Stored(f) /\ x2'[f].expires = x2[f].expires
      BY <1>2, <2>1, RecordedAges
    <2>3. CASE e \in x4.ends
      BY <2>1, <2>2, <2>3 DEF Approvals!EndsAreLate
    <2>4. CASE e \in Approvals!ToReport
      BY <2>2, <2>4, ToReportIsLate
    <2>5. QED
      BY <1>2, <2>3, <2>4, ReportSteps
  <1>3. QED
    BY <1>1, <1>2 DEF Approvals!EndsAreLate

\* What the Admin process has in hand.
LEMMA AdminSteps ==
  ASSUME ApprovalsBase, Approvals!Next
  PROVE  \/ x5' = x5
         \/ x5'.at # "allow"
         \/ \E f \in Families : /\ Approvals!LookUp(f) /\ x5'.at = "allow" /\ x5'.f = f
                                /\ x5'.id = x2[f].id
                                /\ x5'.expires = x2[f].expires
  <1>i. /\ Approvals!NoRequest \in Approvals!AdminRecords /\ Approvals!NoRequest.at = "idle"
            /\ x5 \in Approvals!AdminRecords
    BY ApprovalsNothing DEF ApprovalsBase, Approvals!ApprovalTypes
  <1>1. ASSUME NEW f \in Families, Approvals!LookUp(f)
        PROVE  /\ x5'.at = "allow" /\ x5'.f = f /\ x5'.id = x2[f].id
               /\ x5'.expires = x2[f].expires
    BY <1>i, <1>1 DEF Approvals!LookUp, Approvals!AdminRecords
  <1>2. CASE Approvals!Allow \/ Approvals!Mark
    BY <1>i, <1>2 DEF Approvals!Allow, Approvals!Mark
  <1>3. CASE Approvals!Match
    BY <1>i, <1>3 DEF Approvals!Match, Approvals!AdminRecords
  <1>4. ASSUME NEW b \in Bindings, Approvals!Remove(b)
        PROVE  x5'.at # "allow"
    BY <1>i, <1>4 DEF Approvals!Remove, Approvals!AdminRecords
  <1>5. CASE \/ Approvals!Tick \/ Approvals!Issue \/ Approvals!Request \/ Approvals!ReportEnd
                  \/ Approvals!Started \/ Approvals!Record \/ Approvals!Look
             \/ Approvals!Maintain \/ Approvals!Restart
    BY <1>5 DEF Approvals!Tick, Approvals!Issue, Approvals!Request, Approvals!ReportEnd,
       Approvals!Started, Approvals!Record, Approvals!Look, Approvals!Maintain, Approvals!Restart
  <1>6. ASSUME NEW f \in Families,
               Approvals!SignIn(f) \/ Approvals!Check(f) \/ Approvals!Disconnect(f)
                 \/ Approvals!EndSession(f)
        PROVE  x5' = x5
    BY <1>6 DEF Approvals!SignIn, Approvals!Check, Approvals!Disconnect, Approvals!EndSession
  <1>7. QED
    BY <1>1, <1>2, <1>3, <1>4, <1>5, <1>6 DEF Approvals!Next

LEMMA AllowsStillWhatItSaw ==
  ASSUME ApprovalsBase, Approvals!AllowsWhatItSaw, Approvals!Next
  PROVE  Approvals!AllowsWhatItSaw'
  <1>1. CASE x5' = x5
    <2>1. ASSUME x5.at = "allow"
          PROVE  /\ x5.f \in Families /\ x2[x5.f].st \in {"stored", "gone"}
                 /\ Aged(x5.f, x2, x2')
      <3>1. x5.f \in Families /\ x2[x5.f].st \in {"stored", "gone"}
        BY <2>1 DEF Approvals!AllowsWhatItSaw
      <3>2. CASE Approvals!Issue /\ x5.f = x4.f
        BY <3>1, <3>2, IssueStep
      <3>3. QED
        BY <3>1, <3>2, ApprovalsBaseStep
    <2>2. QED
      BY <1>1, <2>1 DEF Approvals!AllowsWhatItSaw, Approvals!Stored, Aged
  <1>2. CASE x5'.at # "allow"
    BY <1>2 DEF Approvals!AllowsWhatItSaw
  <1>3. ASSUME NEW f \in Families, Approvals!LookUp(f), x5'.f = f, x5'.id = x2[f].id,
               x5'.expires = x2[f].expires
        PROVE  Approvals!AllowsWhatItSaw'
    BY <1>3 DEF Approvals!AllowsWhatItSaw, Approvals!LookUp, Approvals!Live, Approvals!Stored
  <1>4. QED
    BY <1>1, <1>2, <1>3, AdminSteps

\* Maintenance has just looked, or looked before.
LEMMA LookSteps ==
  ASSUME ApprovalsBase, Approvals!Next, x4'.at = "maintain"
  PROVE  \/ Approvals!Look
         \/ x4' = x4 /\ x8' = x8
  <1>i. Approvals!Idle.at = "idle" /\ Approvals!Idle \in Approvals!ServiceRecords
            /\ x4 \in Approvals!ServiceRecords
    BY ApprovalsNothing DEF ApprovalsBase, Approvals!ApprovalTypes
  <1>1. ~ (Approvals!Issue \/ Approvals!Request)
    BY <1>i DEF Approvals!Issue, Approvals!Request, Approvals!ServiceRecords
  <1>2. ~ (Approvals!Started \/ Approvals!ReportEnd)
    BY <1>i DEF Approvals!Started, Approvals!ReportEnd, Approvals!ServiceRecords
  <1>3. ~ (Approvals!Record \/ Approvals!Maintain \/ Approvals!Restart)
    BY <1>i DEF Approvals!Record, Approvals!Maintain, Approvals!Restart
  <1>4. ASSUME Approvals!Allow
        PROVE  x4' = x4 /\ x8' = x8
    BY <1>i, <1>4 DEF Approvals!Allow
  <1>5. ASSUME Approvals!Tick \/ Approvals!Match \/ Approvals!Mark
        PROVE  x4' = x4 /\ x8' = x8
    BY <1>5 DEF Approvals!Tick, Approvals!Match, Approvals!Mark
  <1>6. ASSUME NEW b \in Bindings, Approvals!Remove(b)
        PROVE  x4' = x4 /\ x8' = x8
    BY <1>6 DEF Approvals!Remove
  <1>7. ASSUME NEW f \in Families,
               Approvals!SignIn(f) \/ Approvals!LookUp(f) \/ Approvals!EndSession(f)
        PROVE  x4' = x4 /\ x8' = x8
    BY <1>7 DEF Approvals!SignIn, Approvals!LookUp, Approvals!EndSession
  <1>8. ASSUME NEW f \in Families, Approvals!Check(f)
        PROVE  x4' = x4 /\ x8' = x8
    BY <1>i, <1>8 DEF Approvals!Check, Approvals!ServiceRecords
  <1>9. \A f \in Families : ~ Approvals!Disconnect(f)
    BY <1>i DEF Approvals!Disconnect, Approvals!ServiceRecords
  <1>10. QED
    BY <1>1, <1>2, <1>3, <1>4, <1>5, <1>6, <1>7, <1>8, <1>9 DEF Approvals!Next

LEMMA SeenStaysAlive ==
  ASSUME ApprovalsBase, Approvals!EndsAreLate, Approvals!SeenAlive, Approvals!Next
  PROVE  Approvals!SeenAlive'
  <1> SUFFICES ASSUME x4'.at = "maintain", NEW f \in x8', Approvals!Live(f)'
               PROVE  x2'[f].id \in x4'.active
    BY DEF Approvals!SeenAlive
  <1>1. CASE Approvals!Look
    <2>1. f \in x8 /\ f \in Families /\ Approvals!Live(f) /\ x2' = x2
      BY <1>1 DEF Approvals!Look, Approvals!Live, Approvals!Stored, ApprovalsBase,
         Approvals!ApprovalTypes
    <2>2. x2[f].id \in Bindings /\ f \in Approvals!OfBinding(x2[f].id)
      BY <2>1, ApprovalsFields DEF ApprovalsBase, Approvals!OfBinding, Approvals!Live
    <2>3. x4'.active = {b \in Bindings : \E g \in Approvals!OfBinding(b) : Approvals!Live(g)}
      BY <1>1 DEF Approvals!Look, Approvals!Idle
    <2>4. QED
      BY <2>1, <2>2, <2>3
  <1>2. CASE x4' = x4 /\ x8' = x8
    BY <1>2, RecordedAges DEF Approvals!SeenAlive
  <1>3. QED
    BY <1>1, <1>2, LookSteps

\* An approval that outlasts the family is in force while the family lives.
LEMMA CoveredIsInForce ==
  ASSUME Approvals!ApprovalTypes, NEW f \in Families,
        NEW t \in Nat, x2[f].expires > t, Approvals!Covered(f)
  PROVE  Approvals!InForce(x3[x2[f].id], t)
  <1> PICK r \in Approvals!ApprovalRecords : r = x3[x2[f].id]
    BY ApprovalsFields DEF Approvals!Covered
  <1>1. r.until \in Nat /\ r.inactive \in Nat /\ x2[f].expires \in Nat
    BY ApprovalsFields DEF Approvals!ApprovalRecords
  <1>2. x2[f].expires <= r.until /\ (r.inactive # 0 => x2[f].expires <= r.inactive + Keep)
    BY DEF Approvals!Covered
  <1>3. Keep \in Nat
    BY ApprovalsNothing
  <1>4. QED
    BY <1>1, <1>2, <1>3 DEF Approvals!InForce, Approvals!InactiveSince

\* What covers the family goes on to do so when the approval is not shortened.
LEMMA CoverStays ==
  ASSUME NEW f \in Families, Approvals!Covered(f), x2'[f].id = x2[f].id,
         x2'[f].expires = x2[f].expires,
         x3'[x2[f].id] = x3[x2[f].id]
  PROVE  Approvals!Covered(f)'
  BY DEF Approvals!Covered

LEMMA DoomStays ==
  ASSUME NEW f, Approvals!Doomed(f), x2'[f].id = x2[f].id, UNCHANGED <<x5, x6>>
  PROVE  Approvals!Doomed(f)'
  BY DEF Approvals!Doomed

\* The approval after it was given, or recorded, once more.
LEMMA ApprovedCovers ==
  ASSUME Approvals!ApprovalTypes, NEW f \in Families, NEW b \in Bindings, NEW x \in Nat,
         x2'[f].id = x2[f].id, x2'[f].expires = x2[f].expires,
         x3' = [x3 EXCEPT ![b] = Approvals!Approved(@, x)],
         \/ Approvals!Covered(f)
         \/ x2[f].id = b /\ x2[f].expires = x
  PROVE  Approvals!Covered(f)'
  <1>1. /\ x2[f].id \in Bindings /\ x2[f].expires \in Nat
        /\ x3[b] \in Approvals!ApprovalRecords \cup {NoRecord}
        /\ x3[b] # NoRecord => x3[b].until \in Nat
    BY ApprovalsFields DEF Approvals!ApprovalTypes
  <1>2. CASE x2[f].id # b
    <2>1. x3'[x2[f].id] = x3[x2[f].id]
      BY <1>1, <1>2 DEF Approvals!ApprovalTypes
    <2>2. QED
      BY <1>2, <2>1, CoverStays
  <1>3. CASE x2[f].id = b
    <2>1. PICK r \in Approvals!ApprovalRecords \cup {NoRecord} : r = x3[b]
      BY <1>1
    <2>2. PICK q : q = Approvals!Approved(r, x)
      OBVIOUS
    <2>3. x3'[b] = q
      BY <2>1, <2>2 DEF Approvals!ApprovalTypes
    <2>4. /\ q # NoRecord /\ q.inactive = 0 /\ x <= q.until
          /\ r # NoRecord => r.until <= q.until
          /\ q.until \in Nat
      BY <2>2, ApprovedFacts DEF Approvals!ApprovalRecords
    <2>5. x2[f].expires <= q.until
      BY <1>1, <1>3, <2>1, <2>4 DEF Approvals!Covered
    <2>6. QED
      BY <1>3, <2>3, <2>4, <2>5 DEF Approvals!Covered
  <1>4. QED
    BY <1>2, <1>3

\* An end that is not long ago leaves the approval to the families that live on.
LEMMA ReportedCovers ==
  ASSUME Approvals!ApprovalTypes, Approvals!KeptForTwoLives,
        NEW f \in Families, Approvals!Covered(f), NEW e \in Approvals!EndRecords,
         x2'[f].id = x2[f].id, x2'[f].expires = x2[f].expires,
         x2[f].expires < e.end + 2 * FamilyTTL,
         x3' = [x3 EXCEPT ![e.id] = Approvals!EndRecorded(@, e.end)]
  PROVE  Approvals!Covered(f)'
  <1>1. /\ x2[f].id \in Bindings /\ x2[f].expires \in Nat
        /\ e.id \in Bindings /\ e.end \in Nat
        /\ FamilyTTL \in Nat /\ Keep \in Nat
    BY ApprovalsFields, ApprovalsNothing DEF Approvals!EndRecords
  <1>2. CASE x2[f].id # e.id
    <2>1. x3'[x2[f].id] = x3[x2[f].id]
      BY <1>1, <1>2 DEF Approvals!ApprovalTypes
    <2>2. QED
      BY <2>1, CoverStays
  <1>3. CASE x2[f].id = e.id
    <2>1. PICK r \in Approvals!ApprovalRecords : r = x3[e.id]
      BY <1>1, <1>3, ApprovalsFields DEF Approvals!Covered
    <2>2. PICK q : q = Approvals!EndRecorded(r, e.end)
      OBVIOUS
    <2>3. x3'[e.id] = q
      BY <1>1, <2>1, <2>2 DEF Approvals!ApprovalTypes
    <2>4. /\ q # NoRecord /\ q.until = r.until
          /\ r.inactive = 0 => q.inactive = e.end
          /\ r.inactive # 0 => r.inactive <= q.inactive
          /\ r.inactive \in Nat /\ q.inactive \in Nat
      BY <1>1, <2>2, EndRecordedFacts DEF Approvals!ApprovalRecords
    <2>5. /\ x2[f].expires <= r.until
          /\ r.inactive # 0 => x2[f].expires <= r.inactive + Keep
      BY <1>3, <2>1 DEF Approvals!Covered
    <2>6. x2[f].expires <= q.inactive + Keep
      BY <1>1, <2>4, <2>5 DEF Approvals!KeptForTwoLives
    <2>7. QED
      BY <1>3, <2>3, <2>4, <2>5, <2>6 DEF Approvals!Covered
  <1>4. QED
    BY <1>2, <1>3

\* Steps that leave the approvals, and what the administrator is doing, alone.
LEMMA CoverStaysQuiet ==
  ASSUME ApprovalsBase, Approvals!EndsAreLate, Approvals!CoveredOrDoomed, Approvals!Next,
         UNCHANGED <<x3, x5, x6, x8>>
  PROVE  Approvals!CoveredOrDoomed'
  <1> SUFFICES ASSUME NEW f \in x8, Approvals!Live(f)'
               PROVE  Approvals!Covered(f)' \/ Approvals!Doomed(f)'
    BY DEF Approvals!CoveredOrDoomed
  <1>1. /\ f \in Families /\ Approvals!Live(f) /\ x2'[f].id = x2[f].id
        /\ x2'[f].expires = x2[f].expires
    BY RecordedAges
  <1>2. Approvals!Covered(f) \/ Approvals!Doomed(f)
    BY <1>1 DEF Approvals!CoveredOrDoomed
  <1>3. QED
    BY <1>1, <1>2, CoverStays, DoomStays

\* Before the administrator has removed an approval no family is about to be ended.
LEMMA NoDoomYet ==
  ASSUME x5.at \notin {"match", "mark"}, NEW f
  PROVE  ~ Approvals!Doomed(f)
  BY DEF Approvals!Doomed

LEMMA ReportEndCovers ==
  ASSUME Approvals!UseInv, Approvals!KeptForTwoLives, Approvals!ReportEnd, Approvals!Next
  PROVE  Approvals!CoveredOrDoomed'
  <1>b. ApprovalsBase /\ Approvals!EndsAreLate /\ Approvals!CoveredOrDoomed
            /\ Approvals!ApprovalTypes
    BY DEF Approvals!UseInv, ApprovalsBase
  <1>1. CASE UNCHANGED x3
    BY <1>b, <1>1, CoverStaysQuiet DEF Approvals!ReportEnd
  <1>2. ASSUME NEW e \in x4.ends,
               x3' = [x3 EXCEPT ![e.id] = Approvals!EndRecorded(@, e.end)]
        PROVE  Approvals!CoveredOrDoomed'
    <2> SUFFICES ASSUME NEW f \in x8', Approvals!Live(f)'
                 PROVE  Approvals!Covered(f)' \/ Approvals!Doomed(f)'
      BY DEF Approvals!CoveredOrDoomed
    <2>1. f \in x8 /\ UNCHANGED <<x5, x6>>
      BY DEF Approvals!ReportEnd
    <2>2. /\ f \in Families /\ Approvals!Live(f) /\ x2'[f].id = x2[f].id
          /\ x2'[f].expires = x2[f].expires
      BY <1>b, <2>1, RecordedAges
    <2>3. e \in Approvals!EndRecords /\ x2[f].expires < e.end + 2 * FamilyTTL
      BY <1>b, <1>2, <2>1, <2>2, ApprovalsFields DEF Approvals!EndsAreLate, Approvals!Live
    <2>4. CASE Approvals!Covered(f)
      BY <1>b, <1>2, <2>2, <2>3, <2>4, ReportedCovers
    <2>5. CASE Approvals!Doomed(f)
      BY <2>1, <2>2, <2>5, DoomStays
    <2>6. QED
      BY <1>b, <2>1, <2>2, <2>4, <2>5 DEF Approvals!CoveredOrDoomed
  <1>3. QED
    BY <1>1, <1>2 DEF Approvals!ReportEnd

LEMMA RecordCovers ==
  ASSUME Approvals!UseInv, Approvals!Record, Approvals!Next
  PROVE  Approvals!CoveredOrDoomed'
  <1>b. ApprovalsBase /\ Approvals!EndsAreLate /\ Approvals!CoveredOrDoomed
            /\ Approvals!ApprovalTypes
    BY DEF Approvals!UseInv, ApprovalsBase
  <1>1. CASE UNCHANGED <<x3, x8>>
    BY <1>b, <1>1, CoverStaysQuiet DEF Approvals!Record
  <1>2. CASE /\ x3' = [x3 EXCEPT ![x2[x4.f].id] =
                                Approvals!Approved(@, x2[x4.f].expires)]
             /\ x8' = x8 \cup {x4.f}
    <2> SUFFICES ASSUME NEW f \in x8', Approvals!Live(f)'
                 PROVE  Approvals!Covered(f)' \/ Approvals!Doomed(f)'
      BY DEF Approvals!CoveredOrDoomed
    <2>1. x4.f \in Families /\ UNCHANGED <<x5, x6, x2, x1>>
      BY <1>b DEF Approvals!Record, ApprovalsBase, Approvals!AtWork
    <2>2. x2[x4.f].id \in Bindings /\ x2[x4.f].expires \in Nat
      BY <1>b, <2>1, ApprovalsFields
    <2>3. CASE f = x4.f
      BY <1>b, <1>2, <2>1, <2>2, <2>3, ApprovedCovers
    <2>4. CASE f \in x8
      <3>1. f \in Families /\ Approvals!Live(f)
        BY <1>b, <2>4, RecordedAges
      <3>2. CASE Approvals!Covered(f)
        BY <1>b, <1>2, <2>1, <2>2, <3>1, <3>2, ApprovedCovers
      <3>3. CASE Approvals!Doomed(f)
        BY <2>1, <3>3, DoomStays
      <3>4. QED
        BY <1>b, <2>4, <3>1, <3>2, <3>3 DEF Approvals!CoveredOrDoomed
    <2>5. QED
      BY <1>2, <2>3, <2>4
  <1>3. QED
    BY <1>1, <1>2 DEF Approvals!Record

LEMMA MaintainCovers ==
  ASSUME Approvals!UseInv, Approvals!Maintain, Approvals!Next
  PROVE  Approvals!CoveredOrDoomed'
  <1>b. ApprovalsBase /\ Approvals!EndsAreLate /\ Approvals!CoveredOrDoomed
            /\ Approvals!ApprovalTypes /\ Approvals!SeenAlive
    BY DEF Approvals!UseInv, ApprovalsBase
  <1>1. CASE UNCHANGED x3
    BY <1>b, <1>1, CoverStaysQuiet DEF Approvals!Maintain
  <1>2. CASE x3' = [b \in Bindings |-> Approvals!Reconciled(b)]
    <2> SUFFICES ASSUME NEW f \in x8', Approvals!Live(f)'
                 PROVE  Approvals!Covered(f)' \/ Approvals!Doomed(f)'
      BY DEF Approvals!CoveredOrDoomed
    <2>1. f \in x8 /\ UNCHANGED <<x5, x6, x2, x1>>
      BY DEF Approvals!Maintain
    <2>2. f \in Families /\ Approvals!Live(f)
      BY <1>b, <2>1, RecordedAges
    <2>3. CASE Approvals!Covered(f)
      <3>1. /\ x4.at = "maintain" /\ x4.time <= x1
            /\ x4.ended \in [Bindings -> Nat]
        BY <1>b DEF Approvals!Maintain, ApprovalsBase, Approvals!AtWork
      <3>2. x4.time \in Nat /\ x1 \in Nat /\ x2[f].expires \in Nat
            /\ x2[f].id \in Bindings
        BY <1>b, <2>2, ApprovalsFields DEF Approvals!ApprovalTypes, Approvals!ServiceRecords
      <3>3. x2[f].expires > x4.time
        BY <2>2, <3>1, <3>2 DEF Approvals!Live
      <3>4. x2[f].id \in x4.active
        BY <1>b, <2>1, <2>2, <3>1 DEF Approvals!SeenAlive
      <3>5. Approvals!InForce(x3[x2[f].id], x4.time)
        BY <1>b, <2>2, <2>3, <3>2, <3>3, CoveredIsInForce
      <3>6. x3[x2[f].id] # NoRecord /\ x2[f].expires <= x3[x2[f].id].until
        BY <2>3 DEF Approvals!Covered
      <3>7. PICK q : q = Approvals!Reconciled(x2[f].id)
        OBVIOUS
      <3>8. q # NoRecord /\ q.until = x3[x2[f].id].until /\ q.inactive = 0
        BY <1>b, <3>1, <3>2, <3>4, <3>5, <3>6, <3>7, ReconciledFacts
      <3>9. x3'[x2[f].id] = q
        BY <1>2, <3>2, <3>7
      <3>10. QED
        BY <2>1, <3>6, <3>8, <3>9 DEF Approvals!Covered
    <2>4. CASE Approvals!Doomed(f)
      BY <2>1, <2>4, DoomStays
    <2>5. QED
      BY <1>b, <2>1, <2>2, <2>3, <2>4 DEF Approvals!CoveredOrDoomed
  <1>3. QED
    BY <1>1, <1>2 DEF Approvals!Maintain

LEMMA AllowCovers ==
  ASSUME Approvals!UseInv, Approvals!Allow, Approvals!Next
  PROVE  Approvals!CoveredOrDoomed'
  <1>b. /\ ApprovalsBase /\ Approvals!EndsAreLate /\ Approvals!CoveredOrDoomed
            /\ Approvals!ApprovalTypes
        /\ Approvals!AllowsWhatItSaw
    BY DEF Approvals!UseInv, ApprovalsBase
  <1> SUFFICES ASSUME NEW f \in x8', Approvals!Live(f)'
               PROVE  Approvals!Covered(f)' \/ Approvals!Doomed(f)'
    BY DEF Approvals!CoveredOrDoomed
  <1>1. /\ x5.at = "allow" /\ UNCHANGED <<x2, x1>>
        /\ x3' = [x3 EXCEPT ![x5.id] = Approvals!Approved(@, x5.expires)]
        /\ f \in x8 \/ f = x5.f
    BY DEF Approvals!Allow
  <1>2. x5.id \in Bindings /\ x5.expires \in Nat
    BY <1>b DEF Approvals!ApprovalTypes, Approvals!AdminRecords
  <1>3. CASE f \in x8
    <2>1. f \in Families /\ Approvals!Live(f)
      BY <1>b, <1>3, RecordedAges
    <2>2. Approvals!Covered(f)
      BY <1>b, <1>1, <1>3, <2>1, NoDoomYet DEF Approvals!CoveredOrDoomed
    <2>3. QED
      BY <1>b, <1>1, <1>2, <2>1, <2>2, ApprovedCovers
  <1>4. CASE f = x5.f
    <2>1. f \in Families /\ x2[f].id = x5.id /\ x2[f].expires = x5.expires
      BY <1>b, <1>1, <1>4 DEF Approvals!AllowsWhatItSaw, Approvals!Live, Approvals!Stored
    <2>2. QED
      BY <1>b, <1>1, <1>2, <2>1, ApprovedCovers
  <1>5. QED
    BY <1>1, <1>3, <1>4

LEMMA RemoveDooms ==
  ASSUME Approvals!UseInv, NEW b \in Bindings, Approvals!Remove(b), Approvals!Next
  PROVE  Approvals!CoveredOrDoomed'
  <1>b. ApprovalsBase /\ Approvals!EndsAreLate /\ Approvals!CoveredOrDoomed
            /\ Approvals!ApprovalTypes
    BY DEF Approvals!UseInv, ApprovalsBase
  <1>i. Approvals!NoRequest.at = "idle" /\ Approvals!NoRequest \in Approvals!AdminRecords
    BY ApprovalsNothing
  <1> SUFFICES ASSUME NEW f \in x8', Approvals!Live(f)'
               PROVE  Approvals!Covered(f)' \/ Approvals!Doomed(f)'
    BY DEF Approvals!CoveredOrDoomed
  <1>1. /\ f \in x8 /\ UNCHANGED <<x2, x1>> /\ x5.at = "idle"
        /\ x6' = x6 \ {b} /\ x5'.at = "match" /\ x5'.id = b
        /\ \A d \in Bindings : d # b => x3'[d] = x3[d]
    BY <1>b, <1>i DEF Approvals!Remove, Approvals!AdminRecords, Approvals!ApprovalTypes
  <1>2. f \in Families /\ Approvals!Live(f) /\ x2[f].id \in Bindings
    BY <1>b, <1>1, RecordedAges, ApprovalsFields
  <1>3. CASE x2[f].id = b
    BY <1>1, <1>3 DEF Approvals!Doomed
  <1>4. CASE x2[f].id # b
    <2>1. Approvals!Covered(f)
      BY <1>b, <1>1, <1>2, NoDoomYet DEF Approvals!CoveredOrDoomed
    <2>2. QED
      BY <1>1, <1>2, <1>4, <2>1, CoverStays
  <1>5. QED
    BY <1>3, <1>4

LEMMA MatchDooms ==
  ASSUME Approvals!UseInv, Approvals!Match, Approvals!Next
  PROVE  Approvals!CoveredOrDoomed'
  <1>b. ApprovalsBase /\ Approvals!EndsAreLate /\ Approvals!CoveredOrDoomed
            /\ Approvals!ApprovalTypes
    BY DEF Approvals!UseInv, ApprovalsBase
  <1> SUFFICES ASSUME NEW f \in x8', Approvals!Live(f)'
               PROVE  Approvals!Covered(f)' \/ Approvals!Doomed(f)'
    BY DEF Approvals!CoveredOrDoomed
  <1>1. f \in x8 /\ UNCHANGED <<x2, x1, x3, x6>> /\ x5.at = "match"
    BY DEF Approvals!Match
  <1>2. f \in Families /\ Approvals!Live(f) /\ x2[f].id \in Bindings
    BY <1>b, <1>1, RecordedAges, ApprovalsFields
  <1>3. CASE Approvals!Covered(f)
    BY <1>1, <1>2, <1>3, CoverStays
  <1>4. CASE Approvals!Doomed(f)
    <2>1. x2[f].id = x5.id /\ x2[f].id \notin x6
      BY <1>1, <1>4 DEF Approvals!Doomed
    <2>2. f \in {g \in Approvals!OfBinding(x5.id) : ~ x2[g].revoked}
      BY <1>2, <2>1 DEF Approvals!OfBinding, Approvals!Live
    <2>3. x5'.at = "mark" /\ f \in x5'.targets
      BY <1>b, <2>2 DEF Approvals!Match, Approvals!ApprovalTypes, Approvals!AdminRecords
    <2>4. QED
      BY <1>1, <2>1, <2>3 DEF Approvals!Doomed
  <1>5. QED
    BY <1>b, <1>1, <1>2, <1>3, <1>4 DEF Approvals!CoveredOrDoomed

LEMMA MarkEnds ==
  ASSUME Approvals!UseInv, Approvals!Mark, Approvals!Next
  PROVE  Approvals!CoveredOrDoomed'
  <1>b. ApprovalsBase /\ Approvals!EndsAreLate /\ Approvals!CoveredOrDoomed
            /\ Approvals!ApprovalTypes
    BY DEF Approvals!UseInv, ApprovalsBase
  <1> SUFFICES ASSUME NEW f \in x8', Approvals!Live(f)'
               PROVE  Approvals!Covered(f)' \/ Approvals!Doomed(f)'
    BY DEF Approvals!CoveredOrDoomed
  <1>1. /\ f \in x8 /\ UNCHANGED <<x1, x3, x6>> /\ x5.at = "mark"
        /\ x2' = Approvals!Revoked({g \in x5.targets : Approvals!Stored(g)}, x2)
    BY DEF Approvals!Mark
  <1>2. /\ f \in Families /\ Approvals!Live(f) /\ x2'[f].id = x2[f].id
        /\ x2'[f].expires = x2[f].expires
    BY <1>b, <1>1, RecordedAges
  <1>3. CASE Approvals!Covered(f)
    BY <1>1, <1>2, <1>3, CoverStays
  <1>4. CASE Approvals!Doomed(f)
    <2>1. f \in {g \in x5.targets : Approvals!Stored(g)}
      BY <1>1, <1>2, <1>4 DEF Approvals!Doomed, Approvals!Live
    <2>2. /\ {g \in x5.targets : Approvals!Stored(g)} \in SUBSET Families
          /\ x2 \in [Families -> Approvals!FamilyRecords] /\ x1 \in Nat
      BY <1>b DEF Approvals!ApprovalTypes, Approvals!AdminRecords
    <2>3. x2'[f].revoked
      BY <1>1, <2>1, <2>2, RevokedIsAged, <1>2 DEF Approvals!Stored
    <2>4. QED
      BY <2>3 DEF Approvals!Live
  <1>5. QED
    BY <1>b, <1>1, <1>2, <1>3, <1>4 DEF Approvals!CoveredOrDoomed

LEMMA CoverSteps ==
  ASSUME Approvals!UseInv, Approvals!KeptForTwoLives, Approvals!Next
  PROVE  Approvals!CoveredOrDoomed'
  <1>b. ApprovalsBase /\ Approvals!EndsAreLate /\ Approvals!CoveredOrDoomed
            /\ Approvals!ApprovalTypes
    BY DEF Approvals!UseInv, ApprovalsBase
  <1>1. CASE Approvals!Tick \/ Approvals!Issue \/ Approvals!Request \/ Approvals!Started
               \/ Approvals!Look \/ Approvals!Restart
    <2>1. UNCHANGED <<x3, x5, x6, x8>>
      BY <1>1 DEF Approvals!Tick, Approvals!Issue, Approvals!Request, Approvals!Started,
         Approvals!Look, Approvals!Restart
    <2>2. QED
      BY <1>b, <2>1, CoverStaysQuiet
  <1>2. ASSUME NEW f \in Families,
               Approvals!SignIn(f) \/ Approvals!Check(f) \/ Approvals!Disconnect(f)
                 \/ Approvals!EndSession(f)
        PROVE  Approvals!CoveredOrDoomed'
    <2>1. UNCHANGED <<x3, x5, x6, x8>>
      BY <1>2 DEF Approvals!SignIn, Approvals!Check, Approvals!Disconnect, Approvals!EndSession
    <2>2. QED
      BY <1>b, <2>1, CoverStaysQuiet
  <1>3. ASSUME NEW g \in Families, Approvals!LookUp(g)
        PROVE  Approvals!CoveredOrDoomed'
    <2> SUFFICES ASSUME NEW f \in x8', Approvals!Live(f)'
                 PROVE  Approvals!Covered(f)' \/ Approvals!Doomed(f)'
      BY DEF Approvals!CoveredOrDoomed
    <2>1. /\ f \in x8 /\ x5.at = "idle"
          /\ UNCHANGED <<x2, x1, x3>>
      BY <1>3, ApprovalsNothing DEF Approvals!LookUp
    <2>2. f \in Families /\ Approvals!Live(f)
      BY <1>b, <2>1, RecordedAges
    <2>3. Approvals!Covered(f)
      BY <1>b, <2>1, <2>2, NoDoomYet DEF Approvals!CoveredOrDoomed
    <2>4. QED
      BY <2>1, <2>2, <2>3, CoverStays
  <1>4. QED
    BY <1>1, <1>2, <1>3, ReportEndCovers, RecordCovers, MaintainCovers, AllowCovers, RemoveDooms,
       MatchDooms, MarkEnds DEF Approvals!Next

LEMMA UseStep ==
  ASSUME Approvals!UseInv, Approvals!KeptForTwoLives, Approvals!Next
  PROVE  Approvals!UseInv'
  <1>1. ApprovalsBase /\ Approvals!EndsAreLate /\ Approvals!AllowsWhatItSaw /\ Approvals!SeenAlive
    BY DEF Approvals!UseInv, ApprovalsBase
  <1>2. ApprovalsBase' /\ Approvals!EndsAreLate' /\ Approvals!AllowsWhatItSaw'
            /\ Approvals!SeenAlive'
    BY <1>1, ApprovalsBaseStep, EndsStayLate, AllowsStillWhatItSaw, SeenStaysAlive
  <1>3. QED
    BY <1>2, CoverSteps DEF Approvals!UseInv, ApprovalsBase

LEMMA UseInit == Init => UseInv
  <1> SUFFICES ASSUME Init, part = "approvals" PROVE Approvals!UseInv
    BY DEF UseInv
  <1>1. ApprovalsBase /\ Approvals!Init
    BY ApprovalsInit DEF Init
  <1>2. Approvals!EndsAreLate /\ Approvals!AllowsWhatItSaw /\ Approvals!SeenAlive
            /\ Approvals!CoveredOrDoomed
    BY <1>1, ApprovalsNothing
    DEF Approvals!Init, Approvals!EndsAreLate, Approvals!AllowsWhatItSaw, Approvals!SeenAlive,
       Approvals!CoveredOrDoomed
  <1>3. QED
    BY <1>1, <1>2 DEF Approvals!UseInv, ApprovalsBase

LEMMA UseKept == ASSUME Approvals!KeptForTwoLives PROVE UseInv /\ [Next]_vars => UseInv'
  <1> SUFFICES ASSUME UseInv, [Next]_vars, part' = "approvals" PROVE Approvals!UseInv'
    BY DEF UseInv
  <1>1. CASE part = "approvals" /\ Approvals!Next
    BY <1>1, UseStep DEF UseInv
  <1>2. CASE part = "approvals" /\ UNCHANGED vars
    <2>1. UNCHANGED <<x1, x2, x3, x4, x5, x6, x8>>
      BY <1>2 DEF vars
    <2>2. Approvals!ApprovalTypes' /\ Approvals!AtWork' /\ Approvals!LivesOverlap'
      BY <1>2, <2>1
      DEF UseInv, Approvals!UseInv, Approvals!ApprovalTypes, Approvals!AtWork,
          Approvals!LivesOverlap, Approvals!Stored
    <2>3. Approvals!EndsAreLate' /\ Approvals!AllowsWhatItSaw' /\ Approvals!SeenAlive'
      BY <1>2, <2>1
      DEF UseInv, Approvals!UseInv, Approvals!EndsAreLate, Approvals!AllowsWhatItSaw,
          Approvals!SeenAlive, Approvals!Live, Approvals!Stored
    <2>4. Approvals!CoveredOrDoomed'
      BY <1>2, <2>1
      DEF UseInv, Approvals!UseInv, Approvals!CoveredOrDoomed, Approvals!Live, Approvals!Stored,
          Approvals!Covered, Approvals!Doomed
    <2>5. QED
      BY <2>2, <2>3, <2>4 DEF Approvals!UseInv
  <1>3. QED
    BY <1>1, <1>2 DEF Next, vars, RunCache, RunProject, RunConfirmation, RunLogin, RunCorrections,
       RunHistory, RunApprovals, RunShift, RunStop, RunHealth, RunDiscovery

\* When approvals are kept for two lives of a family or longer, an approval that a living
\* family was recorded under stays in force: whatever ends are reported late, whatever
\* maintenance had read before, and whenever the service is started again.
THEOREM UseIsKept == Approvals!KeptForTwoLives => (Spec => []UseKeepsApproval)
  <1> SUFFICES ASSUME Approvals!KeptForTwoLives PROVE Spec => []UseKeepsApproval
    OBVIOUS
  <1>1. UseInv => UseKeepsApproval
    <2> SUFFICES ASSUME UseInv, part = "approvals", NEW f \in x8, Approvals!Live(f),
                        x2[f].id \in x6
                 PROVE  Approvals!Active(x2[f].id)
      BY DEF UseKeepsApproval, Approvals!UseKeepsApproval
    <2>1. Approvals!ApprovalTypes /\ Approvals!CoveredOrDoomed /\ f \in Families /\ x1 \in Nat
      BY DEF UseInv, Approvals!UseInv, Approvals!ApprovalTypes
    <2>2. Approvals!Covered(f)
      BY <2>1 DEF Approvals!CoveredOrDoomed, Approvals!Doomed
    <2>3. x2[f].expires > x1
      BY DEF Approvals!Live
    <2>4. QED
      BY <2>1, <2>2, <2>3, CoveredIsInForce DEF Approvals!Active, Approvals!Covered
  <1>2. UseInv /\ [Next]_vars => UseInv'
    BY UseKept
  <1>3. QED
    BY <1>1, <1>2, UseInit, PTL DEF Spec

-------------------------------------------------------------------------------
(***************************************************************************)
(* ProjectService: x1 is marker, x2 served, x3 grant, x4 revoking, x5      *)
(* closing, x6 slot, x7 load, x8 cancelled, x9 entry, x10 order, x11       *)
(* known, x12 content and x13 view.                                        *)
(***************************************************************************)

ProjectInv == part = "project" => Project!EndInv

LEMMA ProjectNothing ==
  /\ NoContent \notin Contents /\ NoLoad \notin Loads
  /\ Project!NewLoad \in Project!LoadRecords /\ Project!NewLoad.pc = "new"
  /\ Project!NewLoad.result = NoContent
  /\ Project!Vacant \in Project!CachedEntries
  /\ NoContent \in Project!Keys /\ Contents \subseteq Project!Keys
  /\ \A e \in Project!CachedEntries : e # Project!Vacant => e.content \in Contents
  /\ \A m \in Nat, x \in Contents :
       /\ [marker |-> m, content |-> x] \in Project!CachedEntries
       /\ [marker |-> m, content |-> x] # Project!Vacant
  BY ProjectParameters
  DEF Project!Parameters, Project!NewLoad, Project!LoadRecords, Project!Vacant,
      Project!CachedEntries, Project!Keys

\* The caches as a record.
WellCached(c) ==
  /\ c.entry \in [Families -> Project!CachedEntries] /\ c.known \in [Families -> Nat]
  /\ c.content \in [Families -> Project!Keys] /\ c.view \in [Families -> Project!Keys]
NothingIn(d, f) ==
  d.entry[f] = Project!Vacant /\ d.known[f] = 0 /\ d.content[f] = NoContent
            /\ d.view[f] = NoContent
SameIn(c, d, f) ==
  /\ d.entry[f] = c.entry[f] /\ d.known[f] = c.known[f]
  /\ d.content[f] = c.content[f] /\ d.view[f] = c.view[f]

LEMMA DroppedFacts ==
  ASSUME NEW c, WellCached(c), NEW fs
  PROVE  /\ WellCached(Project!Dropped(c, fs))
         /\ \A f \in Families : /\ f \in fs => NothingIn(Project!Dropped(c, fs), f)
                                /\ f \notin fs => SameIn(c, Project!Dropped(c, fs), f)
  <1>1. /\ Project!Dropped(c, fs).entry = Project!Without(c.entry, fs, Project!Vacant)
        /\ Project!Dropped(c, fs).known = Project!Without(c.known, fs, 0)
        /\ Project!Dropped(c, fs).content = Project!Without(c.content, fs, NoContent)
        /\ Project!Dropped(c, fs).view = Project!Without(c.view, fs, NoContent)
    BY DEF Project!Dropped
  <1>2. /\ Project!Without(c.entry, fs, Project!Vacant) \in [Families -> Project!CachedEntries]
        /\ Project!Without(c.known, fs, 0) \in [Families -> Nat]
        /\ Project!Without(c.content, fs, NoContent) \in [Families -> Project!Keys]
        /\ Project!Without(c.view, fs, NoContent) \in [Families -> Project!Keys]
    BY ProjectNothing DEF WellCached, Project!Without
  <1>3. \A f \in Families :
          /\ Project!Without(c.entry, fs, Project!Vacant)[f] = IF f \in fs THEN Project!Vacant
                                                               ELSE c.entry[f]
          /\ Project!Without(c.known, fs, 0)[f] = IF f \in fs THEN 0 ELSE c.known[f]
          /\ Project!Without(c.content, fs, NoContent)[f] = IF f \in fs THEN NoContent
                                                            ELSE c.content[f]
          /\ Project!Without(c.view, fs, NoContent)[f] = IF f \in fs THEN NoContent ELSE c.view[f]
    BY DEF Project!Without
  <1>4. WellCached(Project!Dropped(c, fs))
    BY <1>1, <1>2 DEF WellCached
  <1>5. QED
    BY <1>1, <1>3, <1>4 DEF NothingIn, SameIn

\* What a load leaves in the caches: its own family has the new content, or had none
\* before that was not of it; of other families some may have lost theirs.
LEMMA PublishedCaches ==
  ASSUME NEW c, WellCached(c), NEW f \in Families, NEW x \in Contents, NEW m \in Nat,
         NEW viewed \in BOOLEAN, NEW d, d = Project!Published(c, f, x, m, viewed)
  PROVE  /\ WellCached(d)
         /\ \A g \in Families : g # f => NothingIn(d, g) \/ SameIn(c, d, g)
         /\ \/ NothingIn(d, f)
            \/ /\ d.entry[f] # Project!Vacant /\ d.entry[f].content = x /\ d.content[f] = x
               /\ d.view[f] \in {c.view[f], x}
            \/ d.entry[f] = c.entry[f] /\ d.content[f] = c.content[f] /\ d.view[f] = c.view[f]
  <1> DEFINE e == [c EXCEPT !.entry[f] = [marker |-> m, content |-> x],
                            !.order = Append(SelectSeq(@, LAMBDA g : g # f), f),
                            !.known[f] = m,
                            !.content[f] = x]
             u == Project!Evicted(e)
  <1>e. /\ e.entry = [c.entry EXCEPT ![f] = [marker |-> m, content |-> x]]
        /\ e.known = [c.known EXCEPT ![f] = m]
        /\ e.content = [c.content EXCEPT ![f] = x]
        /\ e.view = c.view
    OBVIOUS
  <1>1. PICK fs : u = Project!Dropped(e, fs)
    BY DEF Project!Evicted
  <1>2. \/ d = [c EXCEPT !.known[f] = m]
        \/ d = [u EXCEPT !.view[f] = x] /\ u.entry[f] # Project!Vacant
        \/ d = u
    BY DEF Project!Published
  <1> HIDE DEF e, u
  <1>3. WellCached(e)
    BY <1>e, ProjectNothing DEF WellCached
  <1>4. /\ \A g \in Families : g # f => SameIn(c, e, g)
        /\ e.entry[f] = [marker |-> m, content |-> x] /\ e.content[f] = x /\ e.view[f] = c.view[f]
    BY <1>e DEF WellCached, SameIn
  <1>5. /\ WellCached(u)
        /\ \A g \in Families : NothingIn(u, g) \/ SameIn(e, u, g)
    BY <1>1, <1>3, DroppedFacts
  <1>6. /\ \A g \in Families : g # f => NothingIn(u, g) \/ SameIn(c, u, g)
        /\ \/ NothingIn(u, f)
           \/ /\ u.entry[f] = [marker |-> m, content |-> x] /\ u.content[f] = x
              /\ u.view[f] = c.view[f]
    BY <1>4, <1>5 DEF NothingIn, SameIn
  <1>7. CASE d = [c EXCEPT !.known[f] = m]
    <2>1. /\ d.entry = c.entry /\ d.content = c.content /\ d.view = c.view
          /\ d.known = [c.known EXCEPT ![f] = m]
      BY <1>7
    <2>2. QED
      BY <2>1 DEF WellCached, SameIn
  <1>8. CASE d = [u EXCEPT !.view[f] = x] /\ u.entry[f] # Project!Vacant
    <2>1. /\ d.entry = u.entry /\ d.content = u.content /\ d.known = u.known
          /\ d.view = [u.view EXCEPT ![f] = x]
      BY <1>8
    <2>2. WellCached(d)
      BY <1>5, <2>1, ProjectNothing DEF WellCached
    <2>3. /\ \A g \in Families : g # f => d.view[g] = u.view[g]
          /\ d.view[f] = x
      BY <1>5, <2>1 DEF WellCached
    <2>4. \A g \in Families : g # f => NothingIn(d, g) \/ SameIn(c, d, g)
      BY <1>6, <2>1, <2>3 DEF NothingIn, SameIn
    <2>5. QED
      BY <1>6, <1>8, <2>1, <2>2, <2>3, <2>4, ProjectNothing DEF NothingIn
  <1>9. CASE d = u
    BY <1>5, <1>6, <1>9, ProjectNothing
  <1>10. QED
    BY <1>2, <1>7, <1>8, <1>9

\* A family's caches after a step.
FamilyLost(f) ==
  /\ x9'[f] = Project!Vacant /\ x11'[f] = 0 /\ x12'[f] = NoContent /\ x13'[f] = NoContent
FamilyKept(f) ==
  /\ x9'[f] = x9[f] /\ x11'[f] = x11[f]
  /\ x12'[f] = x12[f] /\ x13'[f] = x13[f]
FamilyFresh(f, x) ==
  \/ /\ x9'[f] # Project!Vacant /\ x9'[f].content = x /\ x12'[f] = x
     /\ x13'[f] \in {x13[f], x}
  \/ x9'[f] = x9[f] /\ x12'[f] = x12[f] /\ x13'[f] = x13[f]
CacheTypes ==
  /\ x9 \in [Families -> Project!CachedEntries] /\ x11 \in [Families -> Nat]
  /\ x12 \in [Families -> Project!Keys] /\ x13 \in [Families -> Project!Keys]

LEMMA CachesAreWell ==
  ASSUME Project!ProjectTypes
  PROVE  /\ WellCached(Project!Caches)
         /\ \A d, f : Project!Become(d) /\ NothingIn(d, f) => FamilyLost(f)
         /\ \A d, f : Project!Become(d) /\ SameIn(Project!Caches, d, f) => FamilyKept(f)
         /\ \A d : Project!Become(d) /\ WellCached(d) => CacheTypes'
  BY DEF Project!ProjectTypes, WellCached, Project!Caches, Project!Become, NothingIn, SameIn,
     FamilyLost, FamilyKept,
     CacheTypes

LEMMA DiscardStep ==
  ASSUME Project!ProjectTypes, NEW f, Project!Become(Project!Discarded(Project!Caches, f))
  PROVE  /\ CacheTypes' /\ (f \in Families => FamilyLost(f))
         /\ \A g \in Families : g # f => FamilyKept(g)
  BY CachesAreWell, DroppedFacts DEF Project!Discarded

LEMMA CacheSteps ==
  ASSUME Project!ResultInv, Project!Next
  PROVE  /\ CacheTypes'
         /\ \A f \in Families :
              \/ FamilyLost(f) \/ FamilyKept(f)
              \/ \E l \in Loads : /\ Project!Publish(l) /\ x7[l].family = f
                                  /\ FamilyFresh(f, x7[l].shared)
  <1>t. Project!ProjectTypes /\ CacheTypes
    BY DEF Project!ResultInv, Project!ProjectTypes, CacheTypes
  <1>n. ASSUME UNCHANGED <<x9, x11, x12, x13>>
        PROVE  CacheTypes' /\ \A f \in Families : FamilyKept(f)
    BY <1>t, <1>n DEF CacheTypes, FamilyKept
  <1>1. ASSUME NEW l \in Loads, NEW f \in Families, NEW m \in 0 .. Markers, Project!Begin(l, f, m)
        PROVE  UNCHANGED <<x9, x11, x12, x13>>
    BY <1>1 DEF Project!Begin, Project!cacheVars
  <1>2. ASSUME NEW l \in Loads, Project!Enter(l) \/ Project!Mark(l) \/ Project!Parse(l)
        PROVE  UNCHANGED <<x9, x11, x12, x13>>
    BY <1>2 DEF Project!Enter, Project!Mark, Project!Parse, Project!cacheVars
  <1>3. ASSUME NEW f \in Families,
               Project!EndGrant(f) \/ Project!Revoked(f) \/ \E x \in Contents : Project!Edit(f, x)
        PROVE  UNCHANGED <<x9, x11, x12, x13>>
    BY <1>3 DEF Project!EndGrant, Project!Revoked, Project!Edit, Project!cacheVars
  <1>4. ASSUME NEW l \in Loads, Project!Fail(l)
        PROVE  CacheTypes' /\ \A f \in Families : FamilyLost(f) \/ FamilyKept(f)
    BY <1>t, <1>4, DiscardStep DEF Project!Fail
  <1>5. ASSUME NEW l \in Loads, Project!Download(l)
        PROVE  CacheTypes' /\ \A f \in Families : FamilyLost(f) \/ FamilyKept(f)
    <2>1. CASE Project!Become(Project!Discarded(Project!Caches, x7[l].family))
      BY <1>t, <2>1, DiscardStep
    <2>2. CASE Project!Become(Project!Caches)
      BY <1>n, <2>2 DEF Project!Become, Project!Caches
    <2>3. QED
      BY <1>5, <2>1, <2>2 DEF Project!Download
  <1>6. ASSUME NEW f \in Families, Project!Invalidate(f) \/ Project!Revoke(f)
        PROVE  CacheTypes' /\ \A g \in Families : FamilyLost(g) \/ FamilyKept(g)
    BY <1>t, <1>6, DiscardStep DEF Project!Invalidate, Project!Revoke
  <1>7. ASSUME Project!Close
        PROVE  CacheTypes' /\ \A f \in Families : FamilyLost(f)
    BY <1>7, ProjectNothing DEF Project!Close, CacheTypes, FamilyLost
  <1>8. ASSUME Project!Closed
        PROVE  UNCHANGED <<x9, x11, x12, x13>>
    BY <1>8 DEF Project!Closed, Project!cacheVars
  <1>9. ASSUME NEW l \in Loads, Project!Publish(l)
        PROVE  /\ CacheTypes'
               /\ \A f \in Families : \/ FamilyLost(f) \/ FamilyKept(f)
                                      \/ f = x7[l].family /\ FamilyFresh(f, x7[l].shared)
    <2>1. /\ x7[l].family \in Families /\ x7[l].shared \in Contents /\ x1 \in Nat
      BY <1>9 DEF Project!ResultInv, Project!ProjectTypes, Project!KnowsItsOwn, Project!Publish,
         Project!At, Project!Active
    <2>2. PICK viewed \in BOOLEAN :
            Project!Become(Project!Published(Project!Caches, x7[l].family, x7[l].shared, x1, viewed))
      BY <1>9 DEF Project!Publish
    <2>3. PICK d : d = Project!Published(Project!Caches, x7[l].family, x7[l].shared, x1, viewed)
      OBVIOUS
    <2>4. WellCached(Project!Caches)
      BY <1>t, CachesAreWell
    <2>5. /\ WellCached(d)
          /\ \A g \in Families : g # x7[l].family =>
             NothingIn(d, g) \/ SameIn(Project!Caches, d, g)
          /\ \/ NothingIn(d, x7[l].family)
             \/ /\ d.entry[x7[l].family] # Project!Vacant
                /\ d.entry[x7[l].family].content = x7[l].shared
                /\ d.content[x7[l].family] = x7[l].shared
                /\ d.view[x7[l].family] \in {Project!Caches.view[x7[l].family], x7[l].shared}
             \/ /\ d.entry[x7[l].family] = Project!Caches.entry[x7[l].family]
                /\ d.content[x7[l].family] = Project!Caches.content[x7[l].family]
                /\ d.view[x7[l].family] = Project!Caches.view[x7[l].family]
      BY <2>1, <2>3, <2>4, PublishedCaches
    <2>6. Project!Become(d)
      BY <2>2, <2>3
    <2>7. CacheTypes' /\ \A g \in Families : g # x7[l].family => FamilyLost(g) \/ FamilyKept(g)
      BY <1>t, <2>5, <2>6, CachesAreWell
    <2>8. FamilyLost(x7[l].family) \/ FamilyFresh(x7[l].family, x7[l].shared)
      <3>1. CASE NothingIn(d, x7[l].family)
        BY <1>t, <2>6, <3>1, CachesAreWell
      <3>2. CASE ~ NothingIn(d, x7[l].family)
        BY <2>5, <2>6, <3>2 DEF FamilyFresh, Project!Become, Project!Caches
      <3>3. QED
        BY <3>1, <3>2
    <2>9. QED
      BY <2>1, <2>7, <2>8
  <1>10. QED
    BY <1>n, <1>1, <1>2, <1>3, <1>4, <1>5, <1>6, <1>7, <1>8, <1>9 DEF Project!Next

\* What one load knows, and who has the slot.
LoadKnows(k) ==
  /\ x7[k] \in Project!LoadRecords
  /\ x7[k].pc \in Project!Active => x7[k].family \in Families
  /\ x7[k].result \in {NoContent, x7[k].own}
  /\ x7[k].pc # "over" => x7[k].result = NoContent
  /\ x7[k].pc = "again" => x7[k].shared = x7[k].own
  /\ x7[k].pc \in {"parsing", "again"} => x7[k].own \in Contents
  /\ x7[k].pc \in Project!Inside => x6 = k

LEMMA LoadsKnow ==
  ASSUME Project!ResultInv
  PROVE  /\ \A k \in Loads : LoadKnows(k)
         /\ x7 \in [Loads -> Project!LoadRecords]
  BY DEF Project!ResultInv, Project!ProjectTypes, Project!OneInside, Project!KnowsItsOwn,
     LoadKnows

\* A load's own step.
LEMMA OwnSteps ==
  ASSUME Project!ResultInv, NEW l \in Loads,
         \/ \E f \in Families, m \in 0 .. Markers : Project!Begin(l, f, m)
         \/ Project!Fail(l) \/ Project!Enter(l) \/ Project!Mark(l) \/ Project!Download(l)
              \/ Project!Parse(l) \/ Project!Publish(l)
  PROVE  /\ LoadKnows(l)'
         /\ \A k \in Loads : k # l => x7'[k] = x7[k]
         /\ DOMAIN x7' = Loads /\ x7' = [k \in Loads |-> x7'[k]]
         /\ x7'[l].pc \in {"parsing", "again"} =>
              /\ x7'[l].family = x7[l].family
              /\ x7[l].pc \in Project!Inside
              /\ \/ Project!Download(l) /\ x7'[l].own = x2[x7[l].family]
                 \/ x7[l].pc = "parsing" /\ x7'[l].own = x7[l].own
  <1>k. LoadKnows(l) /\ x7 \in [Loads -> Project!LoadRecords]
    BY LoadsKnow
  <1>t. x1 \in Nat \ {0} /\ x2 \in [Families -> Contents]
    BY DEF Project!ResultInv, Project!ProjectTypes
  <1> PICK r \in Project!LoadRecords : r = x7[l]
    BY <1>k
  <1>r. /\ r.pc \in Project!Active \cup {"new", "over"} /\ r.family \in Families \cup {NoFamily}
        /\ r.marker \in Nat /\ r.own \in Project!Keys /\ r.shared \in Project!Keys
        /\ r.result \in Project!Keys
        /\ r.pc \in Project!Active => r.family \in Families
        /\ r.result \in {NoContent, r.own}
        /\ r.pc # "over" => r.result = NoContent
        /\ r.pc = "again" => r.shared = r.own
        /\ r.pc \in {"parsing", "again"} => r.own \in Contents
        /\ r.pc \in Project!Inside => x6 = l
    BY <1>k DEF Project!LoadRecords, LoadKnows
  <1>p. Project!Active = {"waiting", "marking", "downloading", "parsing", "again"}
        /\ Project!Inside = {"marking", "downloading", "parsing", "again"}
    BY DEF Project!Active, Project!Inside
  \* It is enough to know what becomes of the record.
  <1>s. ASSUME NEW q \in Project!LoadRecords, x7' = [x7 EXCEPT ![l] = q],
               q.pc \in Project!Active => q.family \in Families,
               q.result \in {NoContent, q.own}, q.pc # "over" => q.result = NoContent,
               q.pc = "again" => q.shared = q.own,
               q.pc \in {"parsing", "again"} =>
                 /\ q.own \in Contents /\ q.family = r.family /\ r.pc \in Project!Inside
                 /\ \/ Project!Download(l) /\ q.own = x2[r.family]
                    \/ r.pc = "parsing" /\ q.own = r.own,
               q.pc \in Project!Inside => x6' = l
        PROVE  /\ LoadKnows(l)'
               /\ \A k \in Loads : k # l => x7'[k] = x7[k]
               /\ DOMAIN x7' = Loads /\ x7' = [k \in Loads |-> x7'[k]]
               /\ x7'[l].pc \in {"parsing", "again"} =>
                    /\ x7'[l].family = x7[l].family
                    /\ x7[l].pc \in Project!Inside
                    /\ \/ Project!Download(l) /\ x7'[l].own = x2[x7[l].family]
                       \/ x7[l].pc = "parsing" /\ x7'[l].own = x7[l].own
    <2>1. x7'[l] = q /\ \A k \in Loads : k # l => x7'[k] = x7[k]
      BY <1>k, <1>s
    <2>2. DOMAIN x7' = Loads /\ x7' = [k \in Loads |-> x7'[k]]
      BY <1>k, <1>s
    <2>3. LoadKnows(l)'
      BY <1>s, <2>1 DEF LoadKnows, Project!Inside, Project!Active
    <2>4. QED
      BY <1>s, <2>1, <2>2, <2>3
  <1>1. ASSUME NEW f \in Families, NEW m \in 0 .. Markers, Project!Begin(l, f, m)
        PROVE  \E q \in Project!LoadRecords :
                 /\ x7' = [x7 EXCEPT ![l] = q] /\ q.pc = "waiting" /\ q.family \in Families
                 /\ q.result = NoContent
    <2>1. m \in Nat
      BY ProjectParameters DEF Project!Parameters
    <2> DEFINE q == [Project!NewLoad EXCEPT !.pc = "waiting", !.family = f, !.marker = m]
    <2>2. q \in Project!LoadRecords /\ q.pc = "waiting" /\ q.family = f /\ q.result = NoContent
      BY <1>p, <2>1, ProjectNothing DEF Project!LoadRecords
    <2>3. x7' = [x7 EXCEPT ![l] = q]
      BY <1>1 DEF Project!Begin
    <2>4. QED
      BY <2>2, <2>3
  <1>2. ASSUME Project!Fail(l)
        PROVE  \E q \in Project!LoadRecords :
                 x7' = [x7 EXCEPT ![l] = q] /\ q.pc = "over" /\ q.result = NoContent
    <2> DEFINE q == [Project!NewLoad EXCEPT !.pc = "over", !.family = r.family]
    <2>1. q \in Project!LoadRecords /\ q.pc = "over" /\ q.result = NoContent
      BY <1>r, ProjectNothing DEF Project!LoadRecords
    <2>2. x7' = [x7 EXCEPT ![l] = q]
      BY <1>2 DEF Project!Fail, Project!Over
    <2>3. QED
      BY <2>1, <2>2
  <1>3. ASSUME Project!Enter(l)
        PROVE  \E q \in Project!LoadRecords :
                 /\ x7' = [x7 EXCEPT ![l] = q] /\ q.pc \in {"marking", "downloading"}
                 /\ q.family = r.family /\ r.family \in Families
                 /\ q.result = NoContent /\ x6' = l
    <2> DEFINE q == [r EXCEPT !.pc = IF r.marker = 0 THEN "marking" ELSE "downloading"]
    <2>1. /\ q \in Project!LoadRecords /\ q.pc \in {"marking", "downloading"}
              /\ q.family = r.family
          /\ q.result = r.result /\ q.own = r.own
      BY <1>p DEF Project!LoadRecords
    <2>2. x7' = [x7 EXCEPT ![l] = q] /\ x6' = l /\ r.pc = "waiting"
      BY <1>k, <1>3 DEF Project!Enter, Project!At
    <2>3. QED
      BY <1>p, <1>r, <2>1, <2>2
  <1>4. ASSUME Project!Mark(l)
        PROVE  \E q \in Project!LoadRecords :
                 /\ x7' = [x7 EXCEPT ![l] = q] /\ q.pc = "downloading"
                 /\ q.family = r.family /\ r.family \in Families
                 /\ q.result = NoContent /\ x6' = l
    <2> DEFINE q == [r EXCEPT !.pc = "downloading", !.marker = x1]
    <2>1. /\ q \in Project!LoadRecords /\ q.pc = "downloading" /\ q.family = r.family
          /\ q.result = r.result /\ q.own = r.own
      BY <1>p, <1>t DEF Project!LoadRecords
    <2>2. /\ x7' = [x7 EXCEPT ![l] = q] /\ x6' = x6 /\ r.pc = "marking"
      BY <1>k, <1>4 DEF Project!Mark, Project!At
    <2>3. QED
      BY <1>p, <1>r, <2>1, <2>2
  <1>5. ASSUME Project!Download(l)
        PROVE  \E q \in Project!LoadRecords :
                 /\ x7' = [x7 EXCEPT ![l] = q] /\ q.pc \in {"parsing", "again"}
                 /\ q.family = r.family /\ r.family \in Families /\ r.pc = "downloading"
                 /\ q.own = x2[r.family] /\ q.own \in Contents
                 /\ q.pc = "again" => q.shared = q.own
                 /\ q.result = NoContent /\ x6' = l
    <2>1. r.pc = "downloading" /\ x6' = x6 /\ x6 = l /\ r.family \in Families
      BY <1>p, <1>r, <1>5 DEF Project!Download, Project!At
    <2>2. x2[r.family] \in Contents
      BY <1>t, <2>1
    <2> DEFINE f == x7[l].family
               x == x2[f]
               stale == x9[f] # Project!Vacant
                          /\ (x9[f].marker # x7[l].marker \/ x12[f] # x)
               c == IF stale THEN Project!Discarded(Project!Caches, f) ELSE Project!Caches
               sharing == Project!Sharing(c, x, x7[l].marker)
    <2>3. CASE x7' = [x7 EXCEPT ![l].pc = "parsing", ![l].own = x]
      <3> DEFINE q == [r EXCEPT !.pc = "parsing", !.own = x]
      <3>1. /\ q \in Project!LoadRecords /\ q.pc = "parsing" /\ q.family = r.family
            /\ q.result = r.result /\ q.own = x
        BY <1>p, <1>r, <2>2, ProjectNothing DEF Project!LoadRecords
      <3>2. x7' = [x7 EXCEPT ![l] = q]
        BY <1>k, <2>3
      <3>3. QED
        BY <1>r, <2>1, <2>2, <3>1, <3>2
    <2>4. ASSUME NEW g \in sharing,
                 x7' = [x7 EXCEPT ![l].pc = "again", ![l].own = x,
                                        ![l].shared = c.entry[g].content]
          PROVE  \E q \in Project!LoadRecords :
                   /\ x7' = [x7 EXCEPT ![l] = q] /\ q.pc = "again"
                   /\ q.family = r.family /\ q.own = x /\ q.shared = q.own /\ q.result = r.result
      <3>1. g \in Families /\ c.entry[g] # Project!Vacant /\ c.content[g] = x
        BY <2>4 DEF Project!Sharing
      <3>2. c.entry[g].content = x
        <4>1. WellCached(Project!Caches) /\ Project!Caches.entry = x9
                  /\ Project!Caches.content = x12
          BY CachesAreWell DEF Project!ResultInv, Project!Caches
        <4>2. x9[g] # Project!Vacant => x12[g] = x9[g].content
          BY <3>1 DEF Project!ResultInv, Project!CachesAgree, Project!Cached
        <4>3. NothingIn(c, g) \/ SameIn(Project!Caches, c, g)
          BY <3>1, <4>1, DroppedFacts DEF Project!Discarded, SameIn
        <4>4. QED
          BY <3>1, <4>1, <4>2, <4>3 DEF NothingIn, SameIn
      <3> DEFINE q == [r EXCEPT !.pc = "again", !.own = x, !.shared = x]
      <3>3. /\ q \in Project!LoadRecords /\ q.pc = "again" /\ q.family = r.family
            /\ q.result = r.result /\ q.own = x /\ q.shared = x
        BY <1>p, <1>r, <2>2, ProjectNothing DEF Project!LoadRecords
      <3>4. x7' = [x7 EXCEPT ![l] = q]
        BY <1>k, <2>4, <3>2
      <3>5. QED
        BY <3>3, <3>4
    <2>5. \/ x7' = [x7 EXCEPT ![l].pc = "parsing", ![l].own = x]
          \/ \E g \in sharing :
               x7' = [x7 EXCEPT ![l].pc = "again", ![l].own = x,
                                      ![l].shared = c.entry[g].content]
      BY <1>5 DEF Project!Download, Project!Cached
    <2> HIDE DEF sharing, c, stale
    <2>6. QED
      <3>1. CASE x7' = [x7 EXCEPT ![l].pc = "parsing", ![l].own = x]
        BY <2>3, <3>1
      <3>2. CASE \E g \in sharing :
                   x7' = [x7 EXCEPT ![l].pc = "again", ![l].own = x,
                                          ![l].shared = c.entry[g].content]
        BY <1>r, <2>1, <2>2, <2>4, <3>2
      <3>3. QED
        BY <2>5, <3>1, <3>2
  <1>6. ASSUME Project!Parse(l)
        PROVE  \E q \in Project!LoadRecords :
                 /\ x7' = [x7 EXCEPT ![l] = q] /\ q.pc = "again"
                 /\ q.family = r.family /\ r.family \in Families /\ r.pc = "parsing"
                 /\ q.own = r.own /\ q.own \in Contents /\ q.shared = q.own
                 /\ q.result = NoContent /\ x6' = l
    <2> DEFINE q == [r EXCEPT !.pc = "again", !.shared = r.own]
    <2>1. /\ q \in Project!LoadRecords /\ q.pc = "again" /\ q.family = r.family
          /\ q.result = r.result /\ q.own = r.own /\ q.shared = r.own
      BY <1>p, <1>r DEF Project!LoadRecords
    <2>2. x7' = [x7 EXCEPT ![l] = q] /\ x6' = x6 /\ r.pc = "parsing"
      BY <1>k, <1>6 DEF Project!Parse, Project!At
    <2>3. QED
      BY <1>p, <1>r, <2>1, <2>2
  <1>7. ASSUME Project!Publish(l)
        PROVE  \E q \in Project!LoadRecords :
                 /\ x7' = [x7 EXCEPT ![l] = q] /\ q.pc = "over"
                 /\ q.result = q.own
    <2> DEFINE q == [r EXCEPT !.pc = "over", !.result = r.shared]
    <2>1. q \in Project!LoadRecords /\ q.pc = "over" /\ q.result = r.shared /\ q.own = r.own
      BY <1>r DEF Project!LoadRecords
    <2>2. x7' = [x7 EXCEPT ![l] = q] /\ r.pc = "again"
      BY <1>k, <1>7 DEF Project!Publish, Project!At
    <2>3. QED
      BY <1>r, <2>1, <2>2
  <1>8. CASE \E f \in Families, m \in 0 .. Markers : Project!Begin(l, f, m)
    BY <1>1, <1>8, <1>p, <1>s
  <1>9. CASE Project!Fail(l)
    BY <1>2, <1>9, <1>p, <1>s
  <1>10. CASE Project!Enter(l)
    BY <1>3, <1>10, <1>p, <1>s
  <1>11. CASE Project!Mark(l)
    BY <1>4, <1>11, <1>p, <1>s
  <1>12. CASE Project!Download(l)
    BY <1>5, <1>12, <1>p, <1>s
  <1>13. CASE Project!Parse(l)
    BY <1>6, <1>13, <1>p, <1>s
  <1>14. CASE Project!Publish(l)
    BY <1>7, <1>14, <1>p, <1>s
  <1>15. QED
    BY <1>8, <1>9, <1>10, <1>11, <1>12, <1>13, <1>14

LEMMA SourceSteps ==
  ASSUME Project!ProjectTypes, Project!Next
  PROVE  /\ x1' \in Nat \ {0} /\ x2' \in [Families -> Contents]
         /\ x3' \in [Families -> BOOLEAN]
         /\ x4' \in [Families -> {"no", "waiting", "done"}]
         /\ \A f \in Families : /\ x3'[f] => x3[f]
                                /\ x4'[f] # "no" => x4[f] # "no" \/ Project!Revoke(f)
         /\ x5' # "no" => x5 # "no" \/ Project!Close
  <1>t. /\ x1 \in Nat \ {0} /\ x2 \in [Families -> Contents]
        /\ x3 \in [Families -> BOOLEAN]
        /\ x4 \in [Families -> {"no", "waiting", "done"}]
    BY DEF Project!ProjectTypes
  <1>1. ASSUME NEW f \in Families, NEW x \in Contents, Project!Edit(f, x)
        PROVE  /\ x1' \in Nat \ {0} /\ x2' \in [Families -> Contents]
               /\ UNCHANGED <<x3, x4, x5>>
    BY <1>t, <1>1 DEF Project!Edit, Project!endVars
  <1>2. ASSUME NEW f \in Families, Project!EndGrant(f)
        PROVE  /\ x3' = [x3 EXCEPT ![f] = FALSE]
               /\ UNCHANGED <<x1, x2, x4, x5>>
    BY <1>2 DEF Project!EndGrant, Project!sourceVars
  <1>3. ASSUME NEW f \in Families, Project!Revoke(f)
        PROVE  /\ x4' = [x4 EXCEPT ![f] = "waiting"]
               /\ UNCHANGED <<x1, x2, x3, x5>>
    BY <1>3 DEF Project!Revoke, Project!sourceVars
  <1>4. ASSUME NEW f \in Families, Project!Revoked(f)
        PROVE  /\ x4' = [x4 EXCEPT ![f] = "done"] /\ x4[f] = "waiting"
               /\ UNCHANGED <<x1, x2, x3, x5>>
    BY <1>4 DEF Project!Revoked, Project!sourceVars
  <1>5. ASSUME Project!Close \/ Project!Closed
        PROVE  /\ UNCHANGED <<x1, x2, x3, x4>>
               /\ Project!Close \/ x5 # "no"
    BY <1>5 DEF Project!Close, Project!Closed, Project!sourceVars
  <1>6. ASSUME NEW f \in Families, Project!Invalidate(f)
        PROVE  UNCHANGED <<x1, x2, x3, x4, x5>>
    BY <1>6 DEF Project!Invalidate, Project!sourceVars, Project!endVars
  <1>7. ASSUME NEW l \in Loads,
               \/ \E f \in Families, m \in 0 .. Markers : Project!Begin(l, f, m)
               \/ Project!Fail(l) \/ Project!Enter(l) \/ Project!Mark(l) \/ Project!Download(l)
                    \/ Project!Parse(l) \/ Project!Publish(l)
        PROVE  UNCHANGED <<x1, x2, x3, x4, x5>>
    <2>1. CASE \E f \in Families, m \in 0 .. Markers : Project!Begin(l, f, m)
      BY <2>1 DEF Project!Begin, Project!sourceVars, Project!endVars
    <2>2. CASE Project!Fail(l) \/ Project!Enter(l) \/ Project!Mark(l) \/ Project!Download(l)
                 \/ Project!Parse(l) \/ Project!Publish(l)
      BY <2>2 DEF Project!Fail, Project!Enter, Project!Mark, Project!Download, Project!Parse,
         Project!Publish, Project!sourceVars,
         Project!endVars
    <2>3. QED
      BY <1>7, <2>1, <2>2
  <1>8. CASE \E f \in Families, x \in Contents : Project!Edit(f, x)
    BY <1>t, <1>1, <1>8
  <1>9. CASE \E f \in Families : Project!EndGrant(f)
    BY <1>t, <1>2, <1>9
  <1>10. CASE \E f \in Families : Project!Revoke(f)
    BY <1>t, <1>3, <1>10
  <1>11. CASE \E f \in Families : Project!Revoked(f)
    BY <1>t, <1>4, <1>11
  <1>12. CASE \/ Project!Close \/ Project!Closed \/ \E f \in Families : Project!Invalidate(f)
              \/ \E l \in Loads :
                   \/ \E f \in Families, m \in 0 .. Markers : Project!Begin(l, f, m)
                   \/ Project!Fail(l) \/ Project!Enter(l) \/ Project!Mark(l) \/ Project!Download(l)
                        \/ Project!Parse(l) \/ Project!Publish(l)
    BY <1>t, <1>5, <1>6, <1>7, <1>12
  <1>13. QED
    BY <1>8, <1>9, <1>10, <1>11, <1>12 DEF Project!Next

\* All the others know what they knew.
LEMMA LoadSteps ==
  ASSUME Project!ResultInv, Project!Next
  PROVE  /\ x7' \in [Loads -> Project!LoadRecords]
         /\ \A k \in Loads : LoadKnows(k)'
         /\ \A k \in Loads :
              x7'[k].pc \in {"parsing", "again"} =>
                /\ x7'[k].family = x7[k].family /\ x7[k].pc \in Project!Inside
                /\ \/ Project!Download(k) /\ x7'[k].own = x2[x7[k].family]
                   \/ x7[k].pc \in {"parsing", "again"} /\ x7'[k].own = x7[k].own
  <1>k. x7 \in [Loads -> Project!LoadRecords] /\ \A k \in Loads : LoadKnows(k)
    BY LoadsKnow
  <1>1. ASSUME NEW l \in Loads,
               \/ \E f \in Families, m \in 0 .. Markers : Project!Begin(l, f, m)
               \/ Project!Fail(l) \/ Project!Enter(l) \/ Project!Mark(l) \/ Project!Download(l)
                    \/ Project!Parse(l) \/ Project!Publish(l),
               NEW k \in Loads, k # l
        PROVE  x7'[k] = x7[k] /\ LoadKnows(k)'
    <2>1. x7'[k] = x7[k]
      BY <1>1, OwnSteps
    <2>2. x7[k].pc \in Project!Inside => x6 = k
      BY <1>k DEF LoadKnows
    <2>3. x7[k].pc \in Project!Inside => x6' = k
      <3>1. CASE \E f \in Families, m \in 0 .. Markers : Project!Begin(l, f, m)
        BY <2>2, <3>1 DEF Project!Begin
      <3>2. CASE Project!Fail(l)
        BY <1>1, <2>2, <3>2 DEF Project!Fail
      <3>3. CASE Project!Enter(l)
        BY <2>2, <3>3, ProjectNothing DEF Project!Enter
      <3>4. CASE Project!Mark(l) \/ Project!Download(l) \/ Project!Parse(l)
        BY <2>2, <3>4 DEF Project!Mark, Project!Download, Project!Parse
      <3>5. CASE Project!Publish(l)
        <4>1. x7[l].pc \in Project!Inside
          BY <3>5 DEF Project!Publish, Project!At, Project!Inside, Project!Active
        <4>2. x6 = l
          BY <1>k, <4>1 DEF LoadKnows
        <4>3. QED
          BY <1>1, <2>2, <4>2
      <3>6. QED
        BY <1>1, <3>1, <3>2, <3>3, <3>4, <3>5
    <2>4. QED
      BY <1>k, <2>1, <2>3 DEF LoadKnows
  <1>2. ASSUME NEW l \in Loads,
               \/ \E f \in Families, m \in 0 .. Markers : Project!Begin(l, f, m)
               \/ Project!Fail(l) \/ Project!Enter(l) \/ Project!Mark(l) \/ Project!Download(l)
                    \/ Project!Parse(l) \/ Project!Publish(l)
        PROVE  /\ x7' \in [Loads -> Project!LoadRecords]
               /\ \A k \in Loads : LoadKnows(k)'
               /\ \A k \in Loads :
                    x7'[k].pc \in {"parsing", "again"} =>
                      /\ x7'[k].family = x7[k].family /\ x7[k].pc \in Project!Inside
                      /\ \/ Project!Download(k) /\ x7'[k].own = x2[x7[k].family]
                         \/ x7[k].pc \in {"parsing", "again"} /\ x7'[k].own = x7[k].own
    <2>1. \A k \in Loads : LoadKnows(k)'
      BY <1>1, <1>2, OwnSteps
    <2>2. x7' \in [Loads -> Project!LoadRecords]
      <3>1. x7' = [k \in Loads |-> x7'[k]]
        BY <1>2, OwnSteps
      <3>2. \A k \in Loads : x7'[k] \in Project!LoadRecords
        BY <2>1 DEF LoadKnows
      <3>3. QED
        BY <3>1, <3>2
    <2>3. ASSUME NEW k \in Loads, x7'[k].pc \in {"parsing", "again"}
          PROVE  /\ x7'[k].family = x7[k].family /\ x7[k].pc \in Project!Inside
                 /\ \/ Project!Download(k) /\ x7'[k].own = x2[x7[k].family]
                    \/ x7[k].pc \in {"parsing", "again"} /\ x7'[k].own = x7[k].own
      <3>1. CASE k = l
        BY <1>2, <2>3, <3>1, OwnSteps
      <3>2. CASE k # l
        BY <1>1, <1>2, <2>3, <3>2 DEF Project!Inside, Project!Active
      <3>3. QED
        BY <3>1, <3>2
    <2>4. QED
      BY <2>1, <2>2, <2>3
  <1>3. ASSUME UNCHANGED <<x7, x6>>
        PROVE  /\ x7' \in [Loads -> Project!LoadRecords]
               /\ \A k \in Loads : LoadKnows(k)'
               /\ \A k \in Loads :
                    x7'[k].pc \in {"parsing", "again"} =>
                      /\ x7'[k].family = x7[k].family /\ x7[k].pc \in Project!Inside
                      /\ x7[k].pc \in {"parsing", "again"} /\ x7'[k].own = x7[k].own
    BY <1>k, <1>3 DEF LoadKnows, Project!Inside, Project!Active
  <1>4. CASE \E l \in Loads :
               \/ \E f \in Families, m \in 0 .. Markers : Project!Begin(l, f, m)
               \/ Project!Fail(l) \/ Project!Enter(l) \/ Project!Mark(l) \/ Project!Download(l)
                    \/ Project!Parse(l) \/ Project!Publish(l)
    BY <1>2, <1>4
  <1>5. CASE \/ Project!Close \/ Project!Closed
             \/ \E f \in Families : \/ \E x \in Contents : Project!Edit(f, x)
                                    \/ Project!EndGrant(f) \/ Project!Invalidate(f)
                                         \/ Project!Revoke(f) \/ Project!Revoked(f)
    <2>1. UNCHANGED <<x7, x6>>
      <3>1. CASE Project!Close \/ Project!Closed
        BY <3>1 DEF Project!Close, Project!Closed
      <3>2. ASSUME NEW f \in Families,
                   \/ \E x \in Contents : Project!Edit(f, x)
                   \/ Project!EndGrant(f) \/ Project!Invalidate(f) \/ Project!Revoke(f)
                        \/ Project!Revoked(f)
            PROVE  UNCHANGED <<x7, x6>>
        BY <3>2 DEF Project!Edit, Project!EndGrant, Project!Invalidate, Project!Revoke,
           Project!Revoked
      <3>3. QED
        BY <1>5, <3>1, <3>2
    <2>2. QED
      BY <1>3, <2>1
  <1>6. QED
    BY <1>4, <1>5 DEF Project!Next

LEMMA ResultStep ==
  ASSUME Project!ResultInv, Project!Next
  PROVE  Project!ResultInv'
  <1>t. Project!ProjectTypes /\ Project!CachesAgree /\ \A k \in Loads : LoadKnows(k)
    BY LoadsKnow DEF Project!ResultInv
  <1>c. /\ CacheTypes'
        /\ \A f \in Families :
             \/ FamilyLost(f) \/ FamilyKept(f)
             \/ \E l \in Loads : /\ Project!Publish(l) /\ x7[l].family = f
                                 /\ FamilyFresh(f, x7[l].shared)
    BY CacheSteps
  <1>1. Project!ProjectTypes'
    BY <1>t, <1>c, SourceSteps, LoadSteps DEF Project!ProjectTypes, CacheTypes, LoadKnows
  \* What a load publishes is what its family may have cached already.
  <1>p. ASSUME NEW l \in Loads, Project!Publish(l)
        PROVE  /\ x7[l].shared \in Contents /\ x7[l].shared # NoContent /\ x6 = l
               /\ x12[x7[l].family] \in {NoContent, x7[l].shared}
               /\ x7'[l].pc = "over"
    <2>1. x7[l].pc = "again" /\ x7[l].pc \in Project!Inside
      BY <1>p DEF Project!Publish, Project!At, Project!Inside, Project!Active
    <2>2. x7'[l].pc = "over"
      BY <1>t, <1>p DEF Project!Publish, Project!ProjectTypes, Project!LoadRecords
    <2>3. x12[x7[l].family] \in {NoContent, x7[l].own}
      BY <2>1 DEF Project!ResultInv, Project!KnowsItsOwn
    <2>4. QED
      BY <1>t, <2>1, <2>2, <2>3, ProjectNothing DEF LoadKnows
  <1>2. Project!CachesAgree'
    <2> SUFFICES ASSUME NEW f \in Families
                 PROVE  /\ x9'[f] # Project!Vacant => x12'[f] = x9'[f].content
                        /\ x9'[f] = Project!Vacant => x12'[f] = NoContent /\ x13'[f] = NoContent
                        /\ x13'[f] \in {NoContent, x12'[f]}
      BY DEF Project!CachesAgree, Project!Cached
    <2>0. /\ x9[f] # Project!Vacant => x12[f] = x9[f].content
          /\ x9[f] = Project!Vacant => x12[f] = NoContent /\ x13[f] = NoContent
          /\ x13[f] \in {NoContent, x12[f]}
      BY <1>t DEF Project!CachesAgree, Project!Cached
    <2>1. CASE FamilyLost(f) \/ FamilyKept(f)
      BY <2>0, <2>1 DEF FamilyLost, FamilyKept
    <2>2. ASSUME NEW l \in Loads, Project!Publish(l), x7[l].family = f,
                 FamilyFresh(f, x7[l].shared)
          PROVE  /\ x9'[f] # Project!Vacant => x12'[f] = x9'[f].content
                 /\ x9'[f] = Project!Vacant => x12'[f] = NoContent /\ x13'[f] = NoContent
                 /\ x13'[f] \in {NoContent, x12'[f]}
      BY <1>p, <2>0, <2>2 DEF FamilyFresh
    <2>3. QED
      BY <1>c, <2>1, <2>2
  <1>3. Project!OneInside'
    BY LoadSteps DEF Project!OneInside, LoadKnows
  <1>4. ASSUME NEW k \in Loads, x7'[k].pc \in {"parsing", "again"}
        PROVE  x12'[x7'[k].family] \in {NoContent, x7'[k].own}
    <2> DEFINE f == x7[k].family
    <2>1. /\ x7'[k].family = f /\ x7[k].pc \in Project!Inside /\ f \in Families
          /\ \/ Project!Download(k) /\ x7'[k].own = x2[f]
             \/ x7[k].pc \in {"parsing", "again"} /\ x7'[k].own = x7[k].own
      BY <1>t, <1>4, LoadSteps DEF LoadKnows, Project!Inside
    <2>2. CASE Project!Download(k) /\ x7'[k].own = x2[f]
      <3>1. CASE Project!Become(Project!Discarded(Project!Caches, f))
        <4>1. FamilyLost(f)
          BY <1>t, <2>1, <3>1, DiscardStep
        <4>2. QED
          BY <2>1, <4>1 DEF FamilyLost
      <3>2. CASE Project!Become(Project!Caches) /\ ~ (Project!Cached(f) /\ x12[f] # x2[f])
        <4>1. x12' = x12
          BY <3>2 DEF Project!Become, Project!Caches
        <4>2. x12[f] \in {NoContent, x2[f]}
          BY <1>t, <2>1, <3>2 DEF Project!CachesAgree
        <4>3. QED
          BY <2>1, <2>2, <4>1, <4>2
      <3>3. QED
        BY <2>2, <3>1, <3>2 DEF Project!Download
    <2>3. CASE x7[k].pc \in {"parsing", "again"} /\ x7'[k].own = x7[k].own
      <3>1. x12[f] \in {NoContent, x7[k].own}
        BY <2>3 DEF Project!ResultInv, Project!KnowsItsOwn
      <3>2. ASSUME NEW l \in Loads, Project!Publish(l)
            PROVE  FALSE
        <4>1. x6 = k
          BY <1>t, <2>1 DEF LoadKnows
        <4>2. k = l /\ x7'[l].pc = "over"
          BY <1>p, <3>2, <4>1
        <4>3. QED
          BY <1>4, <4>2
      <3>3. QED
        BY <1>c, <2>1, <2>3, <3>1, <3>2 DEF FamilyLost, FamilyKept
    <2>4. QED
      BY <2>1, <2>2, <2>3
  <1>5. Project!KnowsItsOwn'
    BY <1>4, LoadSteps DEF Project!KnowsItsOwn, LoadKnows
  <1>6. QED
    BY <1>1, <1>2, <1>3, <1>5 DEF Project!ResultInv

LEMMA EndStep ==
  ASSUME Project!EndInv, Project!Next
  PROVE  Project!EndInv'
  <1>1. Project!ResultInv /\ Project!ResultInv' /\ Project!ProjectTypes /\ Project!EndedHasNothing
    BY ResultStep DEF Project!EndInv, Project!ResultInv
  <1>2. ASSUME NEW f \in Families, x4'[f] # "no"
        PROVE  ~ x3'[f]
    <2>1. CASE x4[f] # "no"
      BY <1>1, <2>1, SourceSteps DEF Project!EndedHasNothing
    <2>2. CASE Project!Revoke(f)
      BY <2>2 DEF Project!Revoke
    <2>3. QED
      BY <1>1, <1>2, <2>1, <2>2, SourceSteps
  <1>3. ASSUME NEW f \in Families, Project!Ending(f)'
        PROVE  FamilyLost(f)
    <2>1. CASE Project!Ending(f)
      <3>1. /\ x9[f] = Project!Vacant /\ x11[f] = 0 /\ x12[f] = NoContent
            /\ x13[f] = NoContent
        BY <1>1, <2>1 DEF Project!EndedHasNothing, Project!Cached
      <3>2. ASSUME NEW l \in Loads, Project!Publish(l), x7[l].family = f
            PROVE  FALSE
        <4>1. x3[f] /\ x5 = "no"
          BY <3>2 DEF Project!Publish, Project!Allowed
        <4>2. QED
          BY <1>1, <2>1, <4>1 DEF Project!EndedHasNothing, Project!Ending
      <3>3. FamilyLost(f) \/ FamilyKept(f)
        BY <1>1, <3>2, CacheSteps
      <3>4. QED
        BY <3>1, <3>3 DEF FamilyLost, FamilyKept
    <2>2. CASE Project!Revoke(f)
      BY <1>1, <2>2, DiscardStep DEF Project!Revoke
    <2>3. CASE Project!Close
      BY <2>3 DEF Project!Close, FamilyLost
    <2>4. QED
      BY <1>1, <1>3, <2>1, <2>2, <2>3, SourceSteps DEF Project!Ending
  <1>4. Project!EndedHasNothing'
    BY <1>2, <1>3 DEF Project!EndedHasNothing, Project!Cached, FamilyLost
  <1>5. QED
    BY <1>1, <1>4 DEF Project!EndInv

LEMMA ProjectInit == Init => ProjectInv
  <1> SUFFICES ASSUME Project!Init PROVE Project!EndInv
    BY DEF Init, ProjectInv
  <1>1. Project!ProjectTypes
    BY ProjectNothing DEF Project!Init, Project!ProjectTypes, Project!Active
  <1>2. Project!CachesAgree /\ Project!EndedHasNothing
    BY DEF Project!Init, Project!CachesAgree, Project!EndedHasNothing, Project!Cached,
       Project!Ending
  <1>3. Project!OneInside /\ Project!KnowsItsOwn
    BY ProjectNothing
    DEF Project!Init, Project!OneInside, Project!KnowsItsOwn, Project!Inside, Project!Active
  <1>4. QED
    BY <1>1, <1>2, <1>3 DEF Project!EndInv, Project!ResultInv

LEMMA ProjectKept == ProjectInv /\ [Next]_vars => ProjectInv'
  <1> SUFFICES ASSUME ProjectInv, [Next]_vars, part' = "project" PROVE Project!EndInv'
    BY DEF ProjectInv
  <1>1. CASE part = "project" /\ Project!Next
    BY <1>1, EndStep DEF ProjectInv
  <1>2. CASE part = "project" /\ UNCHANGED vars
    <2>1. Project!EndInv /\ UNCHANGED <<x1, x2, x3, x4, x5, x6, x7,
                                 x9, x11, x12, x13>>
      BY <1>2 DEF ProjectInv, vars
    <2>2. Project!ProjectTypes' /\ Project!CachesAgree' /\ Project!EndedHasNothing'
      BY <2>1 DEF Project!EndInv, Project!ResultInv, Project!ProjectTypes, Project!CachesAgree,
         Project!Cached, Project!EndedHasNothing,
         Project!Ending
    <2>3. Project!OneInside' /\ Project!KnowsItsOwn'
      BY <2>1 DEF Project!EndInv, Project!ResultInv, Project!OneInside, Project!KnowsItsOwn
    <2>4. QED
      BY <2>2, <2>3 DEF Project!EndInv, Project!ResultInv
  <1>3. QED
    BY <1>1, <1>2 DEF Next, vars, RunCache, RunProject, RunConfirmation, RunLogin, RunCorrections,
       RunHistory, RunApprovals, RunShift, RunStop, RunHealth, RunDiscovery

\* Whoever has parsed the same bytes before, and whatever is invalidated, edited or
\* evicted while a load waits: it returns what its own token has downloaded, and no view
\* is of anything else.
THEOREM ResultsAreOwn == Spec => []ResultIsOwn
  <1>1. ProjectInv => ResultIsOwn
    BY DEF ProjectInv, ResultIsOwn, Project!EndInv, Project!ResultInv, Project!ResultIsOwn,
       Project!KnowsItsOwn, Project!CachesAgree
  <1>2. QED
    BY <1>1, ProjectInit, ProjectKept, PTL DEF Spec

\* Nothing is cached of a family whose revocation is done, nor after close, whichever
\* loads were on their way: from the first step of either on, not only from the last.
THEOREM NothingIsBack == Spec => []NothingComesBack
  <1>1. ProjectInv => NothingComesBack
    BY DEF ProjectInv, NothingComesBack, Project!EndInv, Project!EndedHasNothing,
       Project!NothingComesBack, Project!Ending
  <1>2. QED
    BY <1>1, ProjectInit, ProjectKept, PTL DEF Spec
===============================================================================
