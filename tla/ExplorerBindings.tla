---------------------------- MODULE ExplorerBindings ----------------------------
(***************************************************************************)
(* Reusable local approvals of the Tool Explorer                           *)
(* (src/mcpserver/explorer_bindings.py), with the three that write them:   *)
(* the service, which records sign-ins and ends of families and maintains  *)
(* the approvals every minute; and the Admin process, which gives and      *)
(* takes them.                                                             *)
(*                                                                         *)
(* Approvals are in the configuration file, families in the document of    *)
(* the authorization server: two files, each with a lock of its own, so    *)
(* that the processes interleave between any two writes.  What the service *)
(* does here is synchronous: it does one thing at a time.                  *)
(*                                                                         *)
(* One capability (loxberry:read); approvals of other clients, the limit   *)
(* of 64 approvals and the KNX target are left out.                        *)
(***************************************************************************)
EXTENDS Integers, FiniteSets

CONSTANTS
  Families,    \* Explorer sign-ins
  Bindings,    \* binding ids: origin, identity and Miniserver
  FamilyTTL,   \* EXPLORER_REFRESH_FAMILY_TTL
  Keep,        \* explorer_binding_retention_hours
  MaxClock,    \* bound: the time
  NoRecord, NoFamily

Parameters ==
  /\ FamilyTTL \in Nat \ {0}
  /\ Keep \in Nat \ {0}
  /\ MaxClock \in Nat
  /\ Bindings # {}
  /\ NoFamily \notin Families
  /\ NoRecord \notin [until : Nat, inactive : Nat]

VARIABLES
  clock,
  family,     \* family -> its record in the authorization document
  binding,    \* binding id -> its approval in the configuration, or NoRecord
  service,    \* what the service is doing
  admin,      \* what the Admin process is doing
  allowed,    \* bindings approved by the administrator, and not removed since
  crossed,    \* bindings removed while the service was recording a sign-in
  recorded    \* families that an approval was recorded for (by the administrator:
              \* while the service was not at work on one)

vars == <<clock, family, binding, service, admin, allowed, crossed, recorded>>

Some == CHOOSE b \in Bindings : TRUE
NewFamily == [st |-> "none", id |-> Some, pending |-> FALSE, expires |-> 0, revoked |-> FALSE,
              revokedAt |-> 0]
Idle == [at |-> "idle", f |-> NoFamily, ends |-> {}, active |-> {}, ended |-> <<>>, time |-> 0]
NoRequest == [at |-> "idle", f |-> NoFamily, id |-> Some, expires |-> 0, targets |-> {}]

Init ==
  /\ clock = 1
  /\ family = [f \in Families |-> NewFamily]
  /\ binding = [b \in Bindings |-> NoRecord]
  /\ service = Idle
  /\ admin = NoRequest
  /\ allowed = {}
  /\ crossed = {}
  /\ recorded = {}

Tick == clock < MaxClock /\ clock' = clock + 1
        /\ UNCHANGED <<family, binding, service, admin, allowed, crossed, recorded>>

Bigger(x, y) == IF x > y THEN x ELSE y
Smaller(x, y) == IF x < y THEN x ELSE y

Stored(f) == family[f].st = "stored"
Live(f) == Stored(f) /\ ~family[f].revoked /\ family[f].expires > clock
OfBinding(b) == {f \in Families : Stored(f) /\ family[f].id = b}

\* When a family ended, or will.
End(f) == IF family[f].revoked THEN Smaller(family[f].expires, family[f].revokedAt)
                               ELSE family[f].expires

\* Since when an approval is out of use, as seen at the time t: 0 when it is in use.
InactiveSince(r, t) ==
  IF r.inactive # 0 THEN r.inactive ELSE IF r.until <= t THEN r.until ELSE 0

InForce(r, t) == InactiveSince(r, t) = 0 \/ InactiveSince(r, t) + Keep > t

\* active_explorer_binding, which every use asks for.
Active(b) == binding[b] # NoRecord /\ InForce(binding[b], clock)

-------------------------------------------------------------------------------
(***************************************************************************)
(* The service                                                             *)
(***************************************************************************)

\* Every write of the authorization document drops the families that have expired;
\* their ends are reported after the lock is released.
Expired == {f \in Families : Stored(f) /\ family[f].expires <= clock}
Collected == [f \in Families |-> IF f \in Expired THEN [NewFamily EXCEPT !.st = "gone"]
                                                  ELSE family[f]]
ToReport == {[id |-> family[f].id, end |-> End(f)] : f \in Expired}

Revoked(fs, doc) ==
  [f \in Families |-> IF f \in fs /\ ~doc[f].revoked
                      THEN [doc[f] EXCEPT !.revoked = TRUE, !.revokedAt = clock] ELSE doc[f]]

\* The user has signed in and is asked for consent: without an approval in force
\* the family will wait for the administrator.
SignIn(f) ==
  /\ family[f].st = "none"
  /\ service = Idle
  /\ \E b \in Bindings : family' = [family EXCEPT
       ![f] = [NewFamily EXCEPT !.st = "consent", !.id = b, !.pending = ~Active(b)]]
  /\ UNCHANGED <<clock, binding, service, admin, allowed, crossed, recorded>>

\* issue_authorization_code: a family that counts on an approval needs it still.
Check(f) ==
  /\ family[f].st = "consent"
  /\ service = Idle
  /\ IF family[f].pending \/ Active(family[f].id)
     THEN /\ service' = [Idle EXCEPT !.at = "issue", !.f = f]
          /\ UNCHANGED family
     ELSE /\ family' = [family EXCEPT ![f] = [NewFamily EXCEPT !.st = "gone"]]
          /\ UNCHANGED service
  /\ UNCHANGED <<clock, binding, admin, allowed, crossed, recorded>>

Issue ==
  /\ service.at = "issue"
  /\ family' = [Collected EXCEPT ![service.f].st = "stored",
                                 ![service.f].expires = clock + FamilyTTL]
  /\ service' = [service EXCEPT !.at = "ends", !.ends = ToReport]
  /\ UNCHANGED <<clock, binding, admin, allowed, crossed, recorded>>

\* Any other request that writes the document; the constructor does so too.
Request ==
  /\ service = Idle
  /\ family' = Collected
  /\ service' = [Idle EXCEPT !.at = "ends", !.ends = ToReport]
  /\ UNCHANGED <<clock, binding, admin, allowed, crossed, recorded>>

\* The Explorer disconnects.
Disconnect(f) ==
  /\ service = Idle
  /\ Stored(f)
  /\ family' = Revoked({f} \ Expired, Collected)
  /\ service' = [Idle EXCEPT !.at = "ends", !.ends = ToReport]
  /\ UNCHANGED <<clock, binding, admin, allowed, crossed, recorded>>

\* record_explorer_family_end; a write that fails is only logged.
EndRecorded(r, end) ==
  IF r = NoRecord THEN r
  ELSE [r EXCEPT !.inactive = IF @ = 0 THEN end ELSE Bigger(@, end)]

ReportEnd ==
  /\ service.at = "ends"
  /\ \E e \in service.ends :
       /\ service' = [service EXCEPT !.ends = @ \ {e}]
       /\ \/ binding' = [binding EXCEPT ![e.id] = EndRecorded(@, e.end)]
          \/ UNCHANGED binding
  /\ UNCHANGED <<clock, family, admin, allowed, crossed, recorded>>

\* Mutant of Started: every sign-in is recorded.
StartedUnapproved ==
  /\ service.at = "ends"
  /\ service.ends = {}
  /\ service' = IF service.f # NoFamily /\ Stored(service.f)
                THEN [service EXCEPT !.at = "record"] ELSE Idle
  /\ UNCHANGED <<clock, family, binding, admin, allowed, crossed, recorded>>

\* on_family_started reads the configuration, and records a sign-in under an
\* approval in force in a transaction of its own.
Started ==
  /\ service.at = "ends"
  /\ service.ends = {}
  /\ service' = IF service.f # NoFamily /\ Stored(service.f) /\ Active(family[service.f].id)
                THEN [service EXCEPT !.at = "record"] ELSE Idle
  /\ UNCHANGED <<clock, family, binding, admin, allowed, crossed, recorded>>

\* Mutant of Approved: the end of an earlier family stays on record.
ApprovedStaysInactive(r, expires) ==
  IF r = NoRecord THEN [until |-> expires, inactive |-> 0]
  ELSE [r EXCEPT !.until = Bigger(@, expires)]

\* record_explorer_approval
Approved(r, expires) ==
  IF r = NoRecord THEN [until |-> expires, inactive |-> 0]
  ELSE [until |-> Bigger(r.until, expires), inactive |-> 0]

Record ==
  LET f == service.f
  IN  /\ service.at = "record"
      /\ service' = Idle
      /\ \/ /\ binding' = [binding EXCEPT ![family[f].id] = Approved(@, family[f].expires)]
            /\ recorded' = recorded \cup {f}
         \/ UNCHANGED <<binding, recorded>>
      /\ UNCHANGED <<clock, family, admin, allowed, crossed>>

\* maintain_explorer_bindings reads the document first ...
Ended(b) == LET ends == {End(f) : f \in OfBinding(b)}
            IN  IF ends = {} THEN 0 ELSE CHOOSE e \in ends : \A x \in ends : x <= e

Look ==
  /\ service = Idle
  /\ service' = [Idle EXCEPT !.at = "maintain", !.time = clock,
                             !.active = {b \in Bindings : \E f \in OfBinding(b) : Live(f)},
                             !.ended = [b \in Bindings |-> Ended(b)]]
  /\ UNCHANGED <<clock, family, binding, admin, allowed, crossed, recorded>>

\* ... and then goes through the approvals.
Reconciled(b) ==
  LET r == binding[b]
      s == service
      since == IF b \in s.active THEN InactiveSince(r, s.time)
               ELSE IF s.ended[b] # 0 THEN s.ended[b]
               ELSE IF r.inactive # 0 THEN r.inactive ELSE r.until
  IN  IF r = NoRecord THEN r
      ELSE IF b \in s.active /\ InForce(r, s.time) THEN [r EXCEPT !.inactive = 0]
      ELSE IF since + Keep <= s.time THEN NoRecord ELSE [r EXCEPT !.inactive = since]

Maintain ==
  /\ service.at = "maintain"
  /\ service' = Idle
  /\ \/ binding' = [b \in Bindings |-> Reconciled(b)]
     \/ UNCHANGED binding
  /\ UNCHANGED <<clock, family, admin, allowed, crossed, recorded>>

\* The service stops between two steps and is started again: sign-ins are lost.
Restart ==
  /\ service' = Idle
  /\ family' = [f \in Families |-> IF family[f].st = "consent"
                                   THEN [NewFamily EXCEPT !.st = "gone"] ELSE family[f]]
  /\ UNCHANGED <<clock, binding, admin, allowed, crossed, recorded>>

-------------------------------------------------------------------------------
(***************************************************************************)
(* The Admin process                                                       *)
(***************************************************************************)

\* _allow_loxberry_read: the family is looked up, then the approval is written.
LookUp(f) ==
  /\ admin = NoRequest
  /\ Live(f)
  /\ family[f].pending
  /\ admin' = [NoRequest EXCEPT !.at = "allow", !.f = f, !.id = family[f].id,
                                !.expires = family[f].expires]
  /\ UNCHANGED <<clock, family, binding, service, allowed, crossed, recorded>>

Allow ==
  /\ admin.at = "allow"
  /\ admin' = NoRequest
  /\ binding' = [binding EXCEPT ![admin.id] = Approved(@, admin.expires)]
  /\ allowed' = allowed \cup {admin.id}
  /\ crossed' = crossed \ {admin.id}
  /\ recorded' = IF service = Idle THEN recorded \cup {admin.f} ELSE recorded
  /\ UNCHANGED <<clock, family, service>>

\* _revoke_loxberry_read: the approval goes first, then the families are looked up,
\* then revoked.
Remove(b) ==
  /\ admin = NoRequest
  /\ binding[b] # NoRecord
  /\ binding' = [binding EXCEPT ![b] = NoRecord]
  /\ admin' = [NoRequest EXCEPT !.at = "match", !.id = b]
  /\ allowed' = allowed \ {b}
  /\ crossed' = IF service.at = "record" /\ family[service.f].id = b
                THEN crossed \cup {b} ELSE crossed \ {b}
  /\ UNCHANGED <<clock, family, service, recorded>>

Match ==
  LET fs == {f \in OfBinding(admin.id) : ~family[f].revoked}
  IN  /\ admin.at = "match"
      /\ admin' = IF fs = {} THEN NoRequest ELSE [admin EXCEPT !.at = "mark", !.targets = fs]
      /\ UNCHANGED <<clock, family, binding, service, allowed, crossed, recorded>>

\* _revoke_many, also for a session that the administrator ends.
Mark ==
  /\ admin.at = "mark"
  /\ admin' = NoRequest
  /\ family' = Revoked({f \in admin.targets : Stored(f)}, family)
  /\ UNCHANGED <<clock, binding, service, allowed, crossed, recorded>>

EndSession(f) ==
  /\ admin = NoRequest
  /\ Stored(f)
  /\ family' = Revoked({f}, family)
  /\ UNCHANGED <<clock, binding, service, admin, allowed, crossed, recorded>>

Next ==
  \/ Tick \/ Issue \/ Request \/ ReportEnd \/ Started \/ Record \/ Look \/ Maintain \/ Restart
  \/ Allow \/ Match \/ Mark
  \/ \E f \in Families :
       SignIn(f) \/ Check(f) \/ Disconnect(f) \/ LookUp(f) \/ EndSession(f)
  \/ \E b \in Bindings : Remove(b)

Spec == Init /\ [][Next]_vars

-------------------------------------------------------------------------------

\* Types; times are bounded by the clock and the life of a family.
TypeOK ==
  /\ clock \in 1..MaxClock
  /\ \A f \in Families :
       /\ family[f].st \in {"none", "consent", "stored", "gone"}
       /\ family[f].id \in Bindings
       /\ family[f].pending \in BOOLEAN /\ family[f].revoked \in BOOLEAN
       /\ family[f].expires \in 0..(MaxClock + FamilyTTL)
       /\ family[f].revokedAt \in 0..MaxClock
  /\ \A b \in Bindings :
       \/ binding[b] = NoRecord
       \/ /\ binding[b].until \in 1..(MaxClock + FamilyTTL)
          /\ binding[b].inactive \in 0..(MaxClock + FamilyTTL)
  /\ service.at \in {"idle", "issue", "ends", "record", "maintain"}
  /\ admin.at \in {"idle", "allow", "match", "mark"}
  /\ allowed \subseteq Bindings /\ crossed \subseteq Bindings /\ recorded \subseteq Families

\* Reusable approvals: while a family lives that the approval was recorded for, it is
\* in force, unless the administrator removes it: an older family that is collected,
\* maintenance and restarts do not end it.
UseKeepsApproval ==
  \A f \in recorded : Live(f) /\ family[f].id \in allowed => Active(family[f].id)

\* An approval in force has been given by the administrator and not been removed since
\* (a sign-in that had found the approval before its removal brings it back).
GivenByAdmin == \A b \in Bindings : Active(b) => b \in allowed \cup crossed

-------------------------------------------------------------------------------
(***************************************************************************)
(* Why it holds: what the theorems about it rest on.                       *)
(***************************************************************************)

FamilyRecords ==
  [st : {"none", "consent", "stored", "gone"}, id : Bindings, pending : BOOLEAN,
   expires : Nat, revoked : BOOLEAN, revokedAt : Nat]
ApprovalRecords == [until : Nat, inactive : Nat]
EndRecords == [id : Bindings, end : Nat]
ServiceRecords ==
  [at : {"idle", "issue", "ends", "record", "maintain"}, f : Families \cup {NoFamily},
   ends : SUBSET EndRecords, active : SUBSET Bindings, ended : {<<>>} \cup [Bindings -> Nat],
   time : Nat]
AdminRecords ==
  [at : {"idle", "allow", "match", "mark"}, f : Families \cup {NoFamily}, id : Bindings,
   expires : Nat, targets : SUBSET Families]

ApprovalTypes ==
  /\ clock \in Nat
  /\ family \in [Families -> FamilyRecords]
  /\ binding \in [Bindings -> ApprovalRecords \cup {NoRecord}]
  /\ service \in ServiceRecords
  /\ admin \in AdminRecords /\ (admin.at = "allow" => admin.f \in Families)
  /\ recorded \subseteq Families

\* What the service has in hand, step by step.
AtWork ==
  /\ service.at \in {"issue", "record"} => service.f \in Families
  /\ service.at = "issue" => family[service.f].st = "consent"
  /\ service.at = "record" => Stored(service.f)
  /\ service.at # "ends" => service.ends = {}
  /\ service.at = "maintain" => service.time <= clock /\ service.ended \in [Bindings -> Nat]

\* No family is stored that had expired when another was issued.
LivesOverlap ==
  \A f \in Families :
    /\ family[f].st = "consent" => ~ family[f].revoked
    /\ Stored(f) =>
         /\ family[f].expires <= clock + FamilyTTL
         /\ family[f].revoked => family[f].expires <= family[f].revokedAt + FamilyTTL
         /\ \A g \in Families : Stored(g) => family[g].expires < family[f].expires + FamilyTTL

\* An approval that has ended may come back (by an end that is reported late): so
\* the administrator has given every one that is on record, and what the service is
\* about to put there.
RecordedIsGiven == \A b \in Bindings : binding[b] # NoRecord => b \in allowed \cup crossed
RecordingIsGiven == service.at = "record" => family[service.f].id \in allowed \cup crossed

GivenInv == ApprovalTypes /\ AtWork /\ LivesOverlap /\ RecordedIsGiven /\ RecordingIsGiven

\* So an end that is to be reported is not long ago for those that live on.
EndsAreLate ==
  /\ \A f \in recorded : family[f].st \in {"stored", "gone"}
  /\ \A e \in service.ends, f \in recorded :
       Stored(f) => family[f].expires < e.end + 2 * FamilyTTL

\* The administrator approves the family that was looked up.
AllowsWhatItSaw ==
  admin.at = "allow" =>
    /\ admin.f \in Families
    /\ family[admin.f].st \in {"stored", "gone"}
    /\ Stored(admin.f) =>
         family[admin.f].id = admin.id /\ family[admin.f].expires = admin.expires

\* Maintenance has seen whoever lives.
SeenAlive ==
  service.at = "maintain" =>
    \A f \in recorded : Live(f) => family[f].id \in service.active

\* The approval outlasts the family, whatever end is in it; or the administrator is
\* about to end the family.
Covered(f) ==
  LET r == binding[family[f].id]
  IN  /\ r # NoRecord
      /\ family[f].expires <= r.until
      /\ r.inactive # 0 => family[f].expires <= r.inactive + Keep
Doomed(f) ==
  /\ family[f].id \notin allowed
  /\ \/ admin.at = "match" /\ admin.id = family[f].id
     \/ admin.at = "mark" /\ f \in admin.targets
CoveredOrDoomed == \A f \in recorded : Live(f) => Covered(f) \/ Doomed(f)

UseInv ==
  /\ ApprovalTypes /\ AtWork /\ LivesOverlap /\ EndsAreLate /\ AllowsWhatItSaw /\ SeenAlive
  /\ CoveredOrDoomed

\* What UseInv needs, and the configuration (1 to 720 hours for families of 8) need not
\* give: approvals are kept for two lives of a family.
KeptForTwoLives == 2 * FamilyTTL <= Keep + 1
===============================================================================
