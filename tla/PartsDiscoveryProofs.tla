------------------------- MODULE PartsDiscoveryProofs -------------------------
(***************************************************************************)
(* Theorems about service discovery in MCParts. What the run of MCParts    *)
(* shows on a small instance holds for all values of the constants. The    *)
(* variables of MCParts are those of the component, in its order.          *)
(***************************************************************************)
EXTENDS MCParts, Sequences, TLAPS

-------------------------------------------------------------------------------
(***************************************************************************)
(* AdminDiscovery: x1 is configured, x2 version, x3 stored, x4 request, x5 *)
(* lock, x6 held, x7 failed, x8 pending, x9 asked, x10 wire, x11 disposal, *)
(* x12 open and x13 owner.                                                 *)
(***************************************************************************)

DiscoveryInv == part = "discovery" => Discovery!DiscoveryInv

\* Names of nothing are no names.
LEMMA DiscoveryNothing ==
  /\ Nobody \notin Requests /\ "idle" \notin Requests /\ "close" \notin Requests
  /\ Nobody # "idle" /\ Nobody # "close"
  /\ NoConnection \notin Connections /\ NoIdentity \notin Profiles
  /\ Discovery!Nothing \in Discovery!HeldRecords
  /\ Discovery!Nothing.connection = NoConnection /\ ~ Discovery!Nothing.receiver
  /\ Discovery!Nothing.profile = NoIdentity
  /\ Discovery!NoPending \in Discovery!PendingRecords /\ Discovery!NoPending.by = Nobody
  /\ Discovery!NoPending.kind = "none"
  /\ Discovery!NoDisposal \in Discovery!DisposalRecords
  /\ Discovery!NoDisposal.of = NoConnection /\ Discovery!NoDisposal.st = "none"
  /\ Discovery!NoAnswer \in [version : Nat, identity : Profiles \cup {NoIdentity}]
  /\ Discovery!NoAnswer.identity = NoIdentity
  BY DiscoveryParameters
  DEF Discovery!Parameters, Discovery!Nothing, Discovery!NoPending, Discovery!NoDisposal,
      Discovery!NoAnswer, Discovery!Asked, Discovery!HeldRecords,
      Discovery!PendingRecords, Discovery!DisposalRecords

\* The fields of what the invariant speaks of.
LEMMA DiscoveryFields ==
  ASSUME Discovery!DiscoveryTypes
  PROVE  /\ \A r \in Requests : /\ x4[r] \in Discovery!RequestRecords
                /\ x4[r].pc \in Discovery!Places
                                /\ x4[r].since \in Nat
                                /\ x4[r].want \in Profiles \cup {NoIdentity}
                                /\ x4[r].reply.version \in Nat
         /\ x2 \in Nat
         /\ x6.receiver \in BOOLEAN /\ x6.connection \in Connections \cup {NoConnection}
         /\ x6.profile \in Profiles \cup {NoIdentity}
         /\ x11.of \in Connections \cup {NoConnection} /\ x11.st \in {"none", "running", "done"}
         /\ x8.by \in Requests \cup {Nobody}
         /\ x13.idle \in {"none", "asleep", "drop", "cancelled", "ended"}
         /\ x13.close \in {"none", "idle", "drop", "done"}
  BY DEF Discovery!DiscoveryTypes, Discovery!RequestRecords, Discovery!HeldRecords,
     Discovery!DisposalRecords, Discovery!PendingRecords,
     Discovery!OwnerRecords

\* Request r gets on, and is all that does.
Becomes(r, pc, want, since, reply) ==
  /\ x4' \in [Requests -> Discovery!RequestRecords]
  /\ x4'[r].pc = pc /\ x4'[r].want = want /\ x4'[r].since = since /\ x4'[r].reply = reply
  /\ \A s \in Requests \ {r} : x4'[s] = x4[s]

LEMMA RequestBecomes ==
  ASSUME Discovery!DiscoveryTypes, NEW r \in Requests, NEW pc \in Discovery!Places
  PROVE  /\ Discovery!At(r, pc) => Becomes(r, pc, x4[r].want, x4[r].since, x4[r].reply)
         /\ x4' = [x4 EXCEPT ![r] = Discovery!Refused] => Becomes(r, "refused", NoIdentity, 0,
            Discovery!NoAnswer)
  <1>1. x4 \in [Requests -> Discovery!RequestRecords] /\ x4[r] \in Discovery!RequestRecords
    BY DEF Discovery!DiscoveryTypes
  <1>2. ASSUME Discovery!At(r, pc) PROVE Becomes(r, pc, x4[r].want, x4[r].since, x4[r].reply)
    <2>1. x4' = [x4 EXCEPT ![r] = [x4[r] EXCEPT !.pc = pc]]
      BY <1>1, <1>2 DEF Discovery!At
    <2>2. [x4[r] EXCEPT !.pc = pc] \in Discovery!RequestRecords
      BY <1>1 DEF Discovery!RequestRecords
    <2>3. /\ [x4[r] EXCEPT !.pc = pc].pc = pc /\ [x4[r] EXCEPT !.pc = pc].want = x4[r].want
          /\ [x4[r] EXCEPT !.pc = pc].since = x4[r].since
          /\ [x4[r] EXCEPT !.pc = pc].reply = x4[r].reply
      BY <1>1 DEF Discovery!RequestRecords
    <2>4. QED
      BY <1>1, <2>1, <2>2, <2>3 DEF Becomes
  <1>3. ASSUME x4' = [x4 EXCEPT ![r] = Discovery!Refused]
        PROVE  Becomes(r, "refused", NoIdentity, 0, Discovery!NoAnswer)
    <2>1. /\ Discovery!Refused \in Discovery!RequestRecords /\ Discovery!Refused.pc = "refused"
          /\ Discovery!Refused.want = NoIdentity /\ Discovery!Refused.since = 0
          /\ Discovery!Refused.reply = Discovery!NoAnswer
      BY DiscoveryNothing
      DEF Discovery!Refused, Discovery!Asks, Discovery!RequestRecords, Discovery!Places
    <2>2. QED
      BY <1>1, <1>3, <2>1 DEF Becomes
  <1>4. QED
    BY <1>2, <1>3

\* Whoever has its turn is alone with it.
LEMMA AloneInTurn ==
  ASSUME Discovery!LockIsHeld
  PROVE  /\ \A r, s \in Requests : x4[r].pc \in Discovery!Turn /\ x4[s].pc \in Discovery!Turn =>
            r = s
         /\ \A r \in Requests : x4[r].pc \in Discovery!Turn =>
              x5 = r /\ x13.idle \notin {"drop", "cancelled"} /\ x13.close # "drop"
         /\ x13.idle \in {"drop", "cancelled"} => x5 = "idle" /\ x13.close # "drop"
         /\ x13.close = "drop" => x5 = "close" /\ x13.idle \notin {"drop", "cancelled"}
         /\ x5 \in {Nobody, "idle", "close"} => \A r \in Requests : x4[r].pc \notin Discovery!Turn
         /\ x5 = Nobody => x13.idle \notin {"drop", "cancelled"} /\ x13.close # "drop"
         /\ \A k \in Discovery!Awaiting : k \in Discovery!Turn
         /\ \A k \in Discovery!Asked : k \in Discovery!Awaiting
         /\ "recheck" \in Discovery!Awaiting
  BY DiscoveryNothing
  DEF Discovery!LockIsHeld, Discovery!Turn, Discovery!Asked, Discovery!Awaiting

\* What is on its way stays so, whoever changes what else.
LEMMA OnItsWayStays ==
  ASSUME NEW kind, NEW first \in Nat, NEW early \in Nat, early <= first,
         Discovery!OnItsWay(kind, first),
               UNCHANGED <<x9, x10>>, x2 \in Nat, x2' \in Nat, x2' >= x2
  PROVE  Discovery!OnItsWay(kind, early)'
  BY DEF Discovery!OnItsWay

LEMMA AnswerKept ==
  ASSUME Discovery!DiscoveryTypes, Discovery!OneAnswer, Discovery!RepliesAreOwn, UNCHANGED <<x7,
  x8>>,
         x9 = <<>> /\ x10 = <<>> => x9' = <<>> /\ x10' = <<>>,
         \A kind : \A first \in 0 .. x2 : Discovery!OnItsWay(kind, first) =>
               Discovery!OnItsWay(kind, first)',
         x8.by \in Requests => x4'[x8.by] = x4[x8.by]
  PROVE  Discovery!OneAnswer'
  <1>f. x2 \in Nat /\ \A r \in Requests : x4[r].since \in 0 .. x2
    BY DiscoveryFields DEF Discovery!RepliesAreOwn, Discovery!ReplyIsOwn
  <1>1. CASE x8 = Discovery!NoPending /\ x9 = <<>> /\ x10 = <<>>
    BY <1>1 DEF Discovery!OneAnswer, Discovery!NoPending
  <1>2. CASE x8 = Discovery!NoPending /\ x7
                 /\ \E kind \in Discovery!Asked : Discovery!OnItsWay(kind, 0)
    <2>1. PICK kind \in Discovery!Asked : Discovery!OnItsWay(kind, 0)
      BY <1>2
    <2>2. Discovery!OnItsWay(kind, 0)'
      BY <1>f, <2>1
    <2>3. QED
      BY <1>2, <2>2 DEF Discovery!OneAnswer, Discovery!NoPending
  <1>3. CASE /\ x8.by \in Requests /\ x8.kind \in Discovery!Asked /\ ~ x7
             /\ x4[x8.by].pc = x8.kind /\ x4[x8.by].reply = Discovery!NoAnswer
             /\ Discovery!OnItsWay(x8.kind, x4[x8.by].since)
    <2>1. PICK kind \in Discovery!Asked, first \in 0 .. x2 :
            kind = x8.kind /\ first = x4[x8.by].since /\ Discovery!OnItsWay(kind, first)
      BY <1>3, <1>f
    <2>2. Discovery!OnItsWay(kind, first)'
      BY <2>1
    <2>3. kind = x8'.kind /\ first = x4'[x8'.by].since
      BY <1>3, <2>1
    <2>4. Discovery!OnItsWay(x8.kind, x4[x8.by].since)'
      BY <2>2, <2>3 DEF Discovery!OnItsWay
    <2>5. QED
      BY <1>3, <2>4 DEF Discovery!OneAnswer, Discovery!NoAnswer
  <1>4. QED
    BY <1>1, <1>2, <1>3 DEF Discovery!OneAnswer

LEMMA AnswerOfOthers ==
  ASSUME Discovery!DiscoveryTypes, Discovery!OneAnswer, Discovery!RepliesAreOwn, UNCHANGED <<x7,
  x8, x9, x10>>,
         x2' \in Nat, x2' >= x2, x8.by \in Requests => x4'[x8.by] = x4[x8.by]
  PROVE  Discovery!OneAnswer'
  <1>1. \A kind : \A first \in 0 .. x2 : Discovery!OnItsWay(kind, first) =>
        Discovery!OnItsWay(kind, first)'
    <2> SUFFICES ASSUME NEW kind, NEW first \in 0 .. x2, Discovery!OnItsWay(kind, first)
                 PROVE  Discovery!OnItsWay(kind, first)'
      OBVIOUS
    <2>1. x2 \in Nat /\ first \in Nat
      BY DiscoveryFields
    <2>2. QED
      BY <2>1, OnItsWayStays
  <1>2. QED
    BY <1>1, AnswerKept

LEMMA ReplyStays ==
  ASSUME Discovery!DiscoveryTypes, Discovery!RepliesAreOwn, x2' \in Nat, x2' >= x2,
        NEW s \in Requests,
         x4'[s] = x4[s], x4[s].pc \in Discovery!Asked \cup {"recheck"} => x6' = x6
  PROVE  Discovery!ReplyIsOwn(s)'
  <1>1. Discovery!ReplyIsOwn(s) /\ x2 \in Nat /\ x4[s].since \in Nat /\ x4'[s] = x4[s]
    BY DiscoveryFields DEF Discovery!RepliesAreOwn
  <1>2. CASE x6' = x6
    BY <1>1, <1>2
    DEF Discovery!ReplyIsOwn, Discovery!NoAnswer, Discovery!Awaiting, Discovery!Asked
  <1>3. CASE x4[s].pc \notin Discovery!Asked \cup {"recheck"}
    BY <1>1, <1>3
    DEF Discovery!ReplyIsOwn, Discovery!NoAnswer, Discovery!Awaiting, Discovery!Asked
  <1>4. QED
    BY <1>2, <1>3

\* What is held goes, and the connection that was open is being closed.
DropsIt ==
  /\ x8' = Discovery!NoPending /\ x6' = Discovery!Nothing /\ x7' = FALSE /\ x9' = <<>>
  /\ x10' = <<>>
  /\ x11' \in Discovery!DisposalRecords /\ x11'.st \in {"running", "done"}
  /\ x11'.st = "done" => x11'.of \notin x12
  /\ x12 \subseteq {x11'.of}

LEMMA DropEffect ==
  ASSUME Discovery!DiscoveryInv, Discovery!Drop
  PROVE  DropsIt
  <1>t. Discovery!DiscoveryTypes
    BY DEF Discovery!DiscoveryInv
  <1>1. CASE x11 = Discovery!NoDisposal
    <2>1. /\ x8' = Discovery!NoPending /\ x6' = Discovery!Nothing /\ x7' = FALSE /\ x9' = <<>>
              /\ x10' = <<>>
          /\ x11' = [of |-> x6.connection, st |-> "running"]
      BY <1>1 DEF Discovery!Drop
    <2>2. x12 \subseteq {x6.connection}
      BY <1>1, <1>t, DiscoveryNothing
      DEF Discovery!DiscoveryInv, Discovery!ConnectionsAreKnown, Discovery!DiscoveryTypes
    <2>3. QED
      BY <1>t, <2>1, <2>2, DiscoveryFields DEF DropsIt, Discovery!DisposalRecords
  <1>2. CASE x11 # Discovery!NoDisposal
    <2>1. /\ x8' = Discovery!NoPending /\ UNCHANGED <<x6, x7, x9, x10, x11>>
      BY <1>2 DEF Discovery!Drop
    <2>2. /\ x6 = Discovery!Nothing /\ x11.st # "none" /\ ~ x7 /\ x9 = <<>> /\ x10 = <<>>
          /\ x11.st = "done" => x11.of \notin x12
      BY <1>2, DiscoveryNothing DEF Discovery!DiscoveryInv, Discovery!OneConnection
    <2>3. x12 \subseteq {x11.of}
      BY <1>t, <2>2, DiscoveryNothing
      DEF Discovery!DiscoveryInv, Discovery!ConnectionsAreKnown, Discovery!DiscoveryTypes
    <2>4. x7 = FALSE /\ x11 \in Discovery!DisposalRecords /\ x11.st \in {"running", "done"}
      BY <1>t, <2>2, DiscoveryFields DEF Discovery!DiscoveryTypes
    <2>5. QED
      BY <2>1, <2>2, <2>3, <2>4 DEF DropsIt
  <1>3. QED
    BY <1>1, <1>2

\* A connection that was closed leaves none open.
LEMMA NothingOpen ==
  ASSUME Discovery!DiscoveryInv, x11.st = "done"
  PROVE  x6 = Discovery!Nothing /\ x12 = {} /\ x7 = FALSE /\ x9 = <<>> /\ x10 = <<>>
  BY DiscoveryNothing
  DEF Discovery!DiscoveryInv, Discovery!OneConnection, Discovery!ConnectionsAreKnown,
      Discovery!DiscoveryTypes

LEMMA DiscoveryStep ==
  ASSUME Discovery!DiscoveryInv, Discovery!Next
  PROVE  Discovery!DiscoveryInv'
  <1>t. Discovery!DiscoveryTypes
    BY DEF Discovery!DiscoveryInv
  <1>i. Discovery!LockIsHeld /\ Discovery!OneConnection /\ Discovery!OneAnswer
            /\ Discovery!RepliesAreOwn /\ Discovery!ConnectionsAreKnown
    BY DEF Discovery!DiscoveryInv
  <1>1. CASE Discovery!Configure
    <2>1. UNCHANGED <<x2, x3, x4, x5, x6, x7, x8, x9, x10, x11, x12, x13>>
              /\ x1' \in Profiles \cup {NoIdentity}
      BY <1>1 DEF Discovery!Configure
    <2>2. Discovery!DiscoveryTypes'
      BY <1>t, <2>1, DiscoveryNothing DEF Discovery!DiscoveryTypes
    <2>3. Discovery!LockIsHeld'
      BY <1>i, <2>1 DEF Discovery!LockIsHeld
    <2>4. Discovery!OneConnection'
      BY <1>i, <2>1, DiscoveryNothing
      DEF Discovery!OneConnection, Discovery!NoDisposal, Discovery!Nothing
    <2>5. Discovery!OneAnswer'
      BY <1>t, <1>i, <2>1, DiscoveryFields, AnswerOfOthers
    <2>x. x2' \in Nat /\ x2' >= x2
      BY <1>t, <2>1, DiscoveryFields
    <2>b. \A s \in Requests : x4'[s] = x4[s] /\ (x4[s].pc \in Discovery!Asked \cup {"recheck"} =>
          x6' = x6)
      BY <1>i, <2>1, AloneInTurn
    <2>6. Discovery!RepliesAreOwn'
      BY <1>t, <1>i, <2>b, <2>x, ReplyStays DEF Discovery!RepliesAreOwn
    <2>e. x12' \subseteq {x6'.connection} \cup {x11'.of}
      BY <1>t, <1>i, <2>1, DiscoveryNothing DEF Discovery!ConnectionsAreKnown
    <2>7. Discovery!ConnectionsAreKnown'
      BY <1>i, <2>1 DEF Discovery!ConnectionsAreKnown, Discovery!NoDisposal, Discovery!Awaiting
    <2>8. QED
      BY <2>2, <2>3, <2>4, <2>5, <2>6, <2>7 DEF Discovery!DiscoveryInv
  <1>2. CASE Discovery!Edit
    <2>1. UNCHANGED <<x1, x3, x4, x5, x6, x7, x8, x9, x10, x11, x12, x13>> /\ x2' = x2 + 1
      BY <1>2 DEF Discovery!Edit
    <2>2. x2' \in Nat /\ x2' >= x2
      BY <1>t, <2>1, DiscoveryFields
    <2>3. Discovery!DiscoveryTypes'
      BY <1>t, <2>1, <2>2, DiscoveryNothing DEF Discovery!DiscoveryTypes
    <2>4. Discovery!LockIsHeld'
      BY <1>i, <2>1, <2>2 DEF Discovery!LockIsHeld
    <2>5. Discovery!OneConnection'
      BY <1>i, <2>1, <2>2, DiscoveryNothing
      DEF Discovery!OneConnection, Discovery!NoDisposal, Discovery!Nothing
    <2>6. Discovery!OneAnswer'
      BY <1>t, <1>i, <2>1, <2>2, DiscoveryFields, AnswerOfOthers
    <2>x. x2' \in Nat /\ x2' >= x2
      BY <1>t, <2>1, <2>2, DiscoveryFields
    <2>b. \A s \in Requests : x4'[s] = x4[s] /\ (x4[s].pc \in Discovery!Asked \cup {"recheck"} =>
          x6' = x6)
      BY <1>i, <2>1, <2>2, AloneInTurn
    <2>7. Discovery!RepliesAreOwn'
      BY <1>t, <1>i, <2>b, <2>x, ReplyStays DEF Discovery!RepliesAreOwn
    <2>e. x12' \subseteq {x6'.connection} \cup {x11'.of}
      BY <1>t, <1>i, <2>1, <2>2, DiscoveryNothing DEF Discovery!ConnectionsAreKnown
    <2>8. Discovery!ConnectionsAreKnown'
      BY <1>i, <2>1, <2>2
      DEF Discovery!ConnectionsAreKnown, Discovery!NoDisposal, Discovery!Awaiting
    <2>9. QED
      BY <2>3, <2>4, <2>5, <2>6, <2>7, <2>8 DEF Discovery!DiscoveryInv
  <1>3. CASE Discovery!Reply
    <2>1. UNCHANGED <<x1, x2, x3, x4, x5, x6, x7, x8, x11, x12, x13>> /\ x9 # <<>>
              /\ x9' = Tail(x9)
          /\ x10' = Append(x10, [kind |-> Head(x9), version |-> x2])
      BY <1>3 DEF Discovery!Reply
    <2>2. x6.receiver
      BY <1>i, <2>1 DEF Discovery!OneConnection
    <2>3. \A kind, first : Discovery!OnItsWay(kind, first) => x9 = <<kind>> /\ x10 = <<>>
      BY <2>1 DEF Discovery!OnItsWay
    <2>4. \A kind, first : Discovery!OnItsWay(kind, first) =>
            x9' = <<>> /\ x10' = <<[kind |-> kind, version |-> x2]>>
      <3> SUFFICES ASSUME NEW kind, NEW first, Discovery!OnItsWay(kind, first)
                   PROVE  x9' = <<>> /\ x10' = <<[kind |-> kind, version |-> x2]>>
        OBVIOUS
      <3>1. x9 = <<kind>> /\ x10 = <<>>
        BY <2>3
      <3>2. \A z : Head(<<z>>) = z /\ Tail(<<z>>) = <<>> /\ Append(<<>>, z) = <<z>>
        OBVIOUS
      <3>3. QED
        BY <2>1, <3>1, <3>2
    <2>5. \A kind : \A first \in 0 .. x2 : Discovery!OnItsWay(kind, first) =>
          Discovery!OnItsWay(kind, first)'
      <3> SUFFICES ASSUME NEW kind, NEW first \in 0 .. x2, Discovery!OnItsWay(kind, first)
                   PROVE  Discovery!OnItsWay(kind, first)'
        OBVIOUS
      <3>1. x9' = <<>> /\ x10' = <<[kind |-> kind, version |-> x2]>> /\ x2' = x2
                /\ x2 \in first .. x2
        BY <1>t, <2>1, <2>4, DiscoveryFields
      <3>2. QED
        BY <3>1 DEF Discovery!OnItsWay
    <2>6. Discovery!DiscoveryTypes'
      BY <1>t, <2>1, <2>2, <2>3, <2>4, <2>5, DiscoveryNothing DEF Discovery!DiscoveryTypes
    <2>7. Discovery!LockIsHeld'
      BY <1>i, <2>1, <2>2, <2>3, <2>4, <2>5 DEF Discovery!LockIsHeld
    <2>8. Discovery!OneConnection'
      BY <1>i, <2>1, <2>2, <2>3, <2>4, <2>5, DiscoveryNothing
      DEF Discovery!OneConnection, Discovery!NoDisposal, Discovery!Nothing
    <2>9. Discovery!OneAnswer'
      BY <1>t, <1>i, <2>1, <2>5, AnswerKept
    <2>x. x2' \in Nat /\ x2' >= x2
      BY <1>t, <2>1, DiscoveryFields
    <2>b. \A s \in Requests : x4'[s] = x4[s] /\ (x4[s].pc \in Discovery!Asked \cup {"recheck"} =>
          x6' = x6)
      BY <1>i, <2>1, <2>2, <2>3, <2>4, <2>5, AloneInTurn
    <2>10. Discovery!RepliesAreOwn'
      BY <1>t, <1>i, <2>b, <2>x, ReplyStays DEF Discovery!RepliesAreOwn
    <2>e. x12' \subseteq {x6'.connection} \cup {x11'.of}
      BY <1>t, <1>i, <2>1, <2>2, <2>3, <2>4, <2>5, DiscoveryNothing
      DEF Discovery!ConnectionsAreKnown
    <2>11. Discovery!ConnectionsAreKnown'
      BY <1>i, <2>1, <2>2, <2>3, <2>4, <2>5
      DEF Discovery!ConnectionsAreKnown, Discovery!NoDisposal, Discovery!Awaiting
    <2>12. QED
      BY <2>6, <2>7, <2>8, <2>9, <2>10, <2>11 DEF Discovery!DiscoveryInv
  <1>4. CASE Discovery!Receive
    <2>1. UNCHANGED <<x1, x2, x3, x5, x6, x9, x11, x12, x13>> /\ x6.receiver /\ ~ x7 /\ x10 # <<>>
      BY <1>4 DEF Discovery!Receive
    <2>2. /\ x8.by \in Requests /\ x8.kind \in Discovery!Asked /\ x9 = <<>>
          /\ x4[x8.by].pc = x8.kind /\ x4[x8.by].reply = Discovery!NoAnswer
          /\ Discovery!OnItsWay(x8.kind, x4[x8.by].since)
      BY <1>i, <2>1 DEF Discovery!OneAnswer, Discovery!OnItsWay
    <2>3. PICK v \in x4[x8.by].since .. x2 : x10 = <<[kind |-> x8.kind, version |-> v]>>
      BY <2>1, <2>2 DEF Discovery!OnItsWay
    <2>4. Head(x10).kind = x8.kind /\ Head(x10).version = v /\ Tail(x10) = <<>>
      BY <2>3
    <2>5. /\ x10' = <<>> /\ x8' = Discovery!NoPending /\ x7' = x7
          /\ x4' = [x4 EXCEPT ![x8.by].reply = [version |-> v, identity |-> x6.profile]]
      BY <1>4, <2>4 DEF Discovery!Receive
    <2>6. v \in Nat /\ v >= x4[x8.by].since
      BY <1>t, <2>2, DiscoveryFields
    <2>7. x6.profile = x4[x8.by].want /\ x6.profile \in Profiles
      BY <1>i, <2>2
      DEF Discovery!RepliesAreOwn, Discovery!ReplyIsOwn, Discovery!Awaiting, Discovery!Asked
    <2>8. PICK r \in Requests : r = x8.by
      BY <2>2
    <2>9. PICK answer \in [version : Nat, identity : Profiles \cup {NoIdentity}] :
            answer = [version |-> v, identity |-> x6.profile]
      BY <2>6, <2>7
    <2>10. /\ answer.version = v /\ answer.identity = x4[r].want /\ answer # Discovery!NoAnswer
          /\ x4' = [x4 EXCEPT ![r].reply = answer]
      BY <2>5, <2>7, <2>8, <2>9, DiscoveryNothing
    <2>11. Becomes(r, x4[r].pc, x4[r].want, x4[r].since, answer)
      <3>1. x4[r] \in Discovery!RequestRecords /\ x4 \in [Requests -> Discovery!RequestRecords]
        BY <1>t DEF Discovery!DiscoveryTypes
      <3>2. [x4[r] EXCEPT !.reply = answer] \in Discovery!RequestRecords
        BY <3>1, <2>9 DEF Discovery!RequestRecords
      <3>3. x4' = [x4 EXCEPT ![r] = [x4[r] EXCEPT !.reply = answer]]
        BY <2>10
      <3>4. QED
        BY <3>1, <3>2, <3>3 DEF Becomes, Discovery!RequestRecords
    <2>12. Discovery!DiscoveryTypes'
      BY <1>t, <2>1, <2>2, <2>3, <2>4, <2>5, <2>6, <2>7, <2>8, <2>9, <2>10, <2>11,
         DiscoveryNothing DEF Discovery!DiscoveryTypes, Becomes
    <2>13. Discovery!LockIsHeld'
      BY <1>i, <2>1, <2>2, <2>3, <2>4, <2>5, <2>6, <2>7, <2>8, <2>9, <2>10, <2>11, AloneInTurn,
         DiscoveryNothing DEF Discovery!LockIsHeld, Discovery!Turn, Discovery!Awaiting, Becomes
    <2>14. Discovery!OneConnection'
      BY <1>i, <2>1, <2>2, <2>3, <2>4, <2>5, <2>6, <2>7, <2>8, <2>9, <2>10, <2>11,
         DiscoveryNothing
         DEF Discovery!OneConnection, Discovery!NoDisposal, Discovery!Nothing, Becomes
    <2>15. Discovery!OneAnswer'
      BY <2>1, <2>2, <2>5 DEF Discovery!OneAnswer, Discovery!NoPending
    <2>x. x2' \in Nat /\ x2' >= x2
      BY <1>t, <2>1, DiscoveryFields
    <2>a. Discovery!ReplyIsOwn(r)'
      BY <1>i, <1>t, <2>1, <2>2, <2>3, <2>4, <2>5, <2>6, <2>7, <2>8, <2>9, <2>10, <2>11,
         DiscoveryFields, DiscoveryNothing
         DEF Discovery!RepliesAreOwn, Discovery!ReplyIsOwn, Discovery!Awaiting, Discovery!Asked,
             Discovery!NoAnswer, Becomes
    <2>b. \A s \in Requests \ {r} : x4'[s] = x4[s]
              /\ (x4[s].pc \in Discovery!Asked \cup {"recheck"} => x6' = x6)
      BY <1>i, <2>1, <2>2, <2>3, <2>4, <2>5, <2>6, <2>7, <2>8, <2>9, <2>10, <2>11, AloneInTurn
      DEF Becomes, Discovery!Awaiting, Discovery!Turn, Discovery!Asked
    <2>16. Discovery!RepliesAreOwn'
      BY <1>t, <1>i, <2>a, <2>b, <2>x, ReplyStays DEF Discovery!RepliesAreOwn
    <2>e. x12' \subseteq {x6'.connection} \cup {x11'.of}
      BY <1>t, <1>i, <2>1, <2>2, <2>3, <2>4, <2>5, <2>6, <2>7, <2>8, <2>9, <2>10, <2>11,
         DiscoveryNothing DEF Discovery!ConnectionsAreKnown, Becomes
    <2>f. \A s \in Requests : x4'[s].pc = "connect" => ~ x6'.receiver
              /\ x11' = Discovery!NoDisposal
      <3>1. "connect" \in Discovery!Turn
        BY DEF Discovery!Turn, Discovery!Awaiting
      <3>2. ASSUME NEW s \in Requests \ {r}, x4'[s].pc = "connect"
            PROVE  ~ x6'.receiver /\ x11' = Discovery!NoDisposal
        <4>1. x4[s].pc = "connect" /\ ~ x6.receiver /\ x11 = Discovery!NoDisposal
          BY <1>i, <2>1, <2>2, <2>3, <2>4, <2>5, <2>6, <2>7, <2>8, <2>9, <2>10, <2>11, <3>2
          DEF Discovery!ConnectionsAreKnown, Becomes
        <4>2. QED
          BY <1>i, <2>1, <2>2, <2>3, <2>4, <2>5, <2>6, <2>7, <2>8, <2>9, <2>10, <2>11, <3>1, <4>1,
             AloneInTurn DEF Discovery!Turn, Discovery!Awaiting
      <3>3. x4'[r].pc = "connect" => ~ x6'.receiver /\ x11' = Discovery!NoDisposal
        BY <1>i, <2>1, <2>2, <2>3, <2>4, <2>5, <2>6, <2>7, <2>8, <2>9, <2>10, <2>11,
           DiscoveryNothing DEF Discovery!ConnectionsAreKnown, Discovery!Asked, Becomes
      <3>4. QED
        BY <3>2, <3>3
    <2>g. x13'.close \in {"drop", "done"} =>
          \A s \in Requests : x4'[s].pc \notin Discovery!Awaiting
      BY <1>i, <2>1, <2>2, <2>3, <2>4, <2>5, <2>6, <2>7, <2>8, <2>9, <2>10, <2>11, AloneInTurn
      DEF Discovery!ConnectionsAreKnown, Discovery!Awaiting, Discovery!Turn, Becomes
    <2>h. x13'.close = "done" => x12' = {}
      BY <1>i, <2>1, <2>2, <2>3, <2>4, <2>5, <2>6, <2>7, <2>8, <2>9, <2>10, <2>11
      DEF Discovery!ConnectionsAreKnown, Discovery!Awaiting, Becomes
    <2>17. Discovery!ConnectionsAreKnown'
      BY <2>e, <2>f, <2>g, <2>h
      DEF Discovery!ConnectionsAreKnown, Discovery!NoDisposal, Discovery!Awaiting
    <2>18. QED
      BY <2>12, <2>13, <2>14, <2>15, <2>16, <2>17 DEF Discovery!DiscoveryInv
  <1>5. CASE Discovery!Break
    <2>1. UNCHANGED <<x1, x2, x3, x4, x5, x6, x9, x10, x11, x12, x13>> /\ x6.receiver /\ ~ x7
              /\ x7' = TRUE /\ x8' = Discovery!NoPending
      BY <1>5 DEF Discovery!Break
    <2>2. \/ x9 = <<>> /\ x10 = <<>>
          \/ \E kind \in Discovery!Asked, first \in Nat : Discovery!OnItsWay(kind, first)
      BY <1>i, <1>t, <2>1, DiscoveryFields DEF Discovery!OneAnswer
    <2>3. Discovery!DiscoveryTypes'
      BY <1>t, <2>1, <2>2, DiscoveryNothing DEF Discovery!DiscoveryTypes
    <2>4. Discovery!LockIsHeld'
      BY <1>i, <2>1, <2>2 DEF Discovery!LockIsHeld
    <2>5. Discovery!OneConnection'
      BY <1>i, <2>1, <2>2, DiscoveryNothing
      DEF Discovery!OneConnection, Discovery!NoDisposal, Discovery!Nothing
    <2>6. Discovery!OneAnswer'
      BY <1>t, <2>1, <2>2, DiscoveryFields, OnItsWayStays
      DEF Discovery!OneAnswer, Discovery!NoPending
    <2>x. x2' \in Nat /\ x2' >= x2
      BY <1>t, <2>1, DiscoveryFields
    <2>b. \A s \in Requests : x4'[s] = x4[s] /\ (x4[s].pc \in Discovery!Asked \cup {"recheck"} =>
          x6' = x6)
      BY <1>i, <2>1, <2>2, AloneInTurn
    <2>7. Discovery!RepliesAreOwn'
      BY <1>t, <1>i, <2>b, <2>x, ReplyStays DEF Discovery!RepliesAreOwn
    <2>e. x12' \subseteq {x6'.connection} \cup {x11'.of}
      BY <1>t, <1>i, <2>1, <2>2, DiscoveryNothing DEF Discovery!ConnectionsAreKnown
    <2>8. Discovery!ConnectionsAreKnown'
      BY <1>i, <2>1, <2>2
      DEF Discovery!ConnectionsAreKnown, Discovery!NoDisposal, Discovery!Awaiting
    <2>9. QED
      BY <2>3, <2>4, <2>5, <2>6, <2>7, <2>8 DEF Discovery!DiscoveryInv
  <1>6. CASE Discovery!Dispose
    <2>1. UNCHANGED <<x1, x2, x3, x4, x5, x6, x7, x8, x9, x10, x13>> /\ x11.st = "running"
              /\ x12' = x12 \ {x11.of}
      BY <1>6 DEF Discovery!Dispose
    <2>2. x11' \in Discovery!DisposalRecords /\ x11'.of = x11.of /\ x11'.st = "done"
      BY <1>6, <1>t DEF Discovery!Dispose, Discovery!DiscoveryTypes, Discovery!DisposalRecords
    <2>3. x6 = Discovery!Nothing
      BY <1>i, <2>1, DiscoveryNothing DEF Discovery!OneConnection
    <2>4. Discovery!DiscoveryTypes'
      BY <1>t, <2>1, <2>2, <2>3, DiscoveryNothing DEF Discovery!DiscoveryTypes
    <2>5. Discovery!LockIsHeld'
      BY <1>i, <2>1, <2>2, <2>3 DEF Discovery!LockIsHeld
    <2>6. Discovery!OneConnection'
      BY <1>i, <2>1, <2>2, <2>3, DiscoveryNothing
      DEF Discovery!OneConnection, Discovery!NoDisposal, Discovery!Nothing
    <2>7. Discovery!OneAnswer'
      BY <1>t, <1>i, <2>1, <2>2, <2>3, DiscoveryFields, AnswerOfOthers
    <2>x. x2' \in Nat /\ x2' >= x2
      BY <1>t, <2>1, DiscoveryFields
    <2>b. \A s \in Requests : x4'[s] = x4[s] /\ (x4[s].pc \in Discovery!Asked \cup {"recheck"} =>
          x6' = x6)
      BY <1>i, <2>1, <2>2, <2>3, AloneInTurn
    <2>8. Discovery!RepliesAreOwn'
      BY <1>t, <1>i, <2>b, <2>x, ReplyStays DEF Discovery!RepliesAreOwn
    <2>e. x12' \subseteq {x6'.connection} \cup {x11'.of}
      BY <1>t, <1>i, <2>1, <2>2, <2>3, DiscoveryNothing DEF Discovery!ConnectionsAreKnown
    <2>f. \A s \in Requests : x4'[s].pc = "connect" => ~ x6'.receiver
              /\ x11' = Discovery!NoDisposal
      BY <1>i, <2>1, <2>2, <2>3, DiscoveryNothing, AloneInTurn
      DEF Discovery!ConnectionsAreKnown, Discovery!Awaiting, Discovery!Turn
    <2>g. x13'.close \in {"drop", "done"} =>
          \A s \in Requests : x4'[s].pc \notin Discovery!Awaiting
      BY <1>i, <2>1, <2>2, <2>3, AloneInTurn
      DEF Discovery!ConnectionsAreKnown, Discovery!Awaiting, Discovery!Turn
    <2>h. x13'.close = "done" => x12' = {}
      BY <1>i, <2>1, <2>2, <2>3 DEF Discovery!ConnectionsAreKnown, Discovery!Awaiting
    <2>9. Discovery!ConnectionsAreKnown'
      BY <2>e, <2>f, <2>g, <2>h
      DEF Discovery!ConnectionsAreKnown, Discovery!NoDisposal, Discovery!Awaiting
    <2>10. QED
      BY <2>4, <2>5, <2>6, <2>7, <2>8, <2>9 DEF Discovery!DiscoveryInv
  <1>7. CASE Discovery!Expire
    <2>1. UNCHANGED <<x1, x2, x3, x4, x12>> /\ x5 = Nobody /\ x5' = "idle"
              /\ x13' = [x13 EXCEPT !.idle = "drop"]
      BY <1>7 DEF Discovery!Expire
    <2>2. DropsIt
      BY <1>7, DropEffect DEF Discovery!Expire
    <2>3. x13' \in Discovery!OwnerRecords /\ x13'.idle = "drop" /\ x13'.close = x13.close
      BY <1>t, <2>1 DEF Discovery!DiscoveryTypes, Discovery!OwnerRecords
    <2>4. Discovery!DiscoveryTypes'
      BY <1>t, <2>1, <2>2, <2>3, DiscoveryNothing DEF Discovery!DiscoveryTypes, DropsIt
    <2>5. Discovery!LockIsHeld'
      BY <1>i, <2>1, <2>2, <2>3, AloneInTurn, DiscoveryNothing
      DEF Discovery!LockIsHeld, Discovery!Turn, Discovery!Awaiting, DropsIt
    <2>6. Discovery!OneConnection'
      BY <1>i, <2>1, <2>2, <2>3, DiscoveryNothing
      DEF Discovery!OneConnection, Discovery!NoDisposal, Discovery!Nothing, DropsIt
    <2>7. Discovery!OneAnswer'
      BY <2>1, <2>2, <2>3 DEF Discovery!OneAnswer, DropsIt, Discovery!NoPending
    <2>x. x2' \in Nat /\ x2' >= x2
      BY <1>t, <2>1, DiscoveryFields
    <2>b. \A s \in Requests : x4'[s] = x4[s] /\ (x4[s].pc \in Discovery!Asked \cup {"recheck"} =>
          x6' = x6)
      BY <1>i, <2>1, <2>2, <2>3, AloneInTurn
    <2>8. Discovery!RepliesAreOwn'
      BY <1>t, <1>i, <2>b, <2>x, ReplyStays DEF Discovery!RepliesAreOwn
    <2>e. x12' \subseteq {x6'.connection} \cup {x11'.of}
      BY <1>t, <1>i, <2>1, <2>2, <2>3, DiscoveryNothing DEF Discovery!ConnectionsAreKnown, DropsIt
    <2>f. \A s \in Requests : x4'[s].pc = "connect" => ~ x6'.receiver
              /\ x11' = Discovery!NoDisposal
      BY <1>i, <2>1, <2>2, <2>3, DiscoveryNothing, AloneInTurn
      DEF Discovery!ConnectionsAreKnown, Discovery!Awaiting, Discovery!Turn, DropsIt
    <2>g. x13'.close \in {"drop", "done"} =>
          \A s \in Requests : x4'[s].pc \notin Discovery!Awaiting
      BY <1>i, <2>1, <2>2, <2>3, AloneInTurn
      DEF Discovery!ConnectionsAreKnown, Discovery!Awaiting, Discovery!Turn, DropsIt
    <2>h. x13'.close = "done" => x12' = {}
      BY <1>i, <2>1, <2>2, <2>3 DEF Discovery!ConnectionsAreKnown, Discovery!Awaiting, DropsIt
    <2>9. Discovery!ConnectionsAreKnown'
      BY <2>e, <2>f, <2>g, <2>h
      DEF Discovery!ConnectionsAreKnown, Discovery!NoDisposal, Discovery!Awaiting
    <2>10. QED
      BY <2>4, <2>5, <2>6, <2>7, <2>8, <2>9 DEF Discovery!DiscoveryInv
  <1>8. CASE Discovery!Expired
    <2>1. UNCHANGED <<x1, x2, x3, x4, x6, x7, x8, x9, x10, x12>> /\ x11.st = "done"
              /\ x11' = Discovery!NoDisposal /\ x5' = Nobody
          /\ x13.idle \in {"drop", "cancelled"}
      BY <1>8 DEF Discovery!Expired, Discovery!Disposed
    <2>2. x13' \in Discovery!OwnerRecords /\ x13'.idle \in {"asleep", "ended"}
              /\ x13'.close = x13.close
      BY <1>8, <1>t DEF Discovery!Expired, Discovery!DiscoveryTypes, Discovery!OwnerRecords
    <2>3. x6 = Discovery!Nothing /\ x12 = {} /\ x7 = FALSE /\ x9 = <<>> /\ x10 = <<>>
      BY <2>1, NothingOpen
    <2>4. Discovery!DiscoveryTypes'
      BY <1>t, <2>1, <2>2, <2>3, DiscoveryNothing DEF Discovery!DiscoveryTypes
    <2>5. Discovery!LockIsHeld'
      BY <1>i, <2>1, <2>2, <2>3, AloneInTurn, DiscoveryNothing
      DEF Discovery!LockIsHeld, Discovery!Turn, Discovery!Awaiting
    <2>6. Discovery!OneConnection'
      BY <1>i, <2>1, <2>2, <2>3, DiscoveryNothing
      DEF Discovery!OneConnection, Discovery!NoDisposal, Discovery!Nothing
    <2>7. Discovery!OneAnswer'
      BY <1>t, <1>i, <2>1, <2>2, <2>3, DiscoveryFields, AnswerOfOthers
    <2>x. x2' \in Nat /\ x2' >= x2
      BY <1>t, <2>1, DiscoveryFields
    <2>b. \A s \in Requests : x4'[s] = x4[s] /\ (x4[s].pc \in Discovery!Asked \cup {"recheck"} =>
          x6' = x6)
      BY <1>i, <2>1, <2>2, <2>3, AloneInTurn
    <2>8. Discovery!RepliesAreOwn'
      BY <1>t, <1>i, <2>b, <2>x, ReplyStays DEF Discovery!RepliesAreOwn
    <2>e. x12' \subseteq {x6'.connection} \cup {x11'.of}
      BY <1>t, <1>i, <2>1, <2>2, <2>3, DiscoveryNothing DEF Discovery!ConnectionsAreKnown
    <2>f. \A s \in Requests : x4'[s].pc = "connect" => ~ x6'.receiver
              /\ x11' = Discovery!NoDisposal
      BY <1>i, <2>1, <2>2, <2>3, DiscoveryNothing, AloneInTurn
      DEF Discovery!ConnectionsAreKnown, Discovery!Awaiting, Discovery!Turn
    <2>g. x13'.close \in {"drop", "done"} =>
          \A s \in Requests : x4'[s].pc \notin Discovery!Awaiting
      BY <1>i, <2>1, <2>2, <2>3, AloneInTurn
      DEF Discovery!ConnectionsAreKnown, Discovery!Awaiting, Discovery!Turn
    <2>h. x13'.close = "done" => x12' = {}
      BY <1>i, <2>1, <2>2, <2>3 DEF Discovery!ConnectionsAreKnown, Discovery!Awaiting
    <2>9. Discovery!ConnectionsAreKnown'
      BY <2>e, <2>f, <2>g, <2>h
      DEF Discovery!ConnectionsAreKnown, Discovery!NoDisposal, Discovery!Awaiting
    <2>10. QED
      BY <2>4, <2>5, <2>6, <2>7, <2>8, <2>9 DEF Discovery!DiscoveryInv
  <1>9. CASE Discovery!Close
    <2>1. UNCHANGED <<x1, x2, x3, x4, x5, x6, x7, x8, x9, x10, x11, x12>> /\ x13.close = "none"
      BY <1>9 DEF Discovery!Close
    <2>2. /\ x13' \in Discovery!OwnerRecords /\ x13'.close = "idle"
          /\ x13'.idle \in {"drop", "cancelled"} => x13.idle \in {"drop", "cancelled"}
      BY <1>9, <1>t DEF Discovery!Close, Discovery!DiscoveryTypes, Discovery!OwnerRecords
    <2>3. Discovery!DiscoveryTypes'
      BY <1>t, <2>1, <2>2, DiscoveryNothing DEF Discovery!DiscoveryTypes
    <2>4. Discovery!LockIsHeld'
      BY <1>i, <2>1, <2>2, AloneInTurn, DiscoveryNothing
      DEF Discovery!LockIsHeld, Discovery!Turn, Discovery!Awaiting
    <2>5. Discovery!OneConnection'
      BY <1>i, <2>1, <2>2, DiscoveryNothing
      DEF Discovery!OneConnection, Discovery!NoDisposal, Discovery!Nothing
    <2>6. Discovery!OneAnswer'
      BY <1>t, <1>i, <2>1, <2>2, DiscoveryFields, AnswerOfOthers
    <2>x. x2' \in Nat /\ x2' >= x2
      BY <1>t, <2>1, DiscoveryFields
    <2>b. \A s \in Requests : x4'[s] = x4[s] /\ (x4[s].pc \in Discovery!Asked \cup {"recheck"} =>
          x6' = x6)
      BY <1>i, <2>1, <2>2, AloneInTurn
    <2>7. Discovery!RepliesAreOwn'
      BY <1>t, <1>i, <2>b, <2>x, ReplyStays DEF Discovery!RepliesAreOwn
    <2>e. x12' \subseteq {x6'.connection} \cup {x11'.of}
      BY <1>t, <1>i, <2>1, <2>2, DiscoveryNothing DEF Discovery!ConnectionsAreKnown
    <2>f. \A s \in Requests : x4'[s].pc = "connect" => ~ x6'.receiver
              /\ x11' = Discovery!NoDisposal
      BY <1>i, <2>1, <2>2, DiscoveryNothing, AloneInTurn
      DEF Discovery!ConnectionsAreKnown, Discovery!Awaiting, Discovery!Turn
    <2>g. x13'.close \in {"drop", "done"} =>
          \A s \in Requests : x4'[s].pc \notin Discovery!Awaiting
      BY <1>i, <2>1, <2>2, AloneInTurn
      DEF Discovery!ConnectionsAreKnown, Discovery!Awaiting, Discovery!Turn
    <2>h. x13'.close = "done" => x12' = {}
      BY <1>i, <2>1, <2>2 DEF Discovery!ConnectionsAreKnown, Discovery!Awaiting
    <2>8. Discovery!ConnectionsAreKnown'
      BY <2>e, <2>f, <2>g, <2>h
      DEF Discovery!ConnectionsAreKnown, Discovery!NoDisposal, Discovery!Awaiting
    <2>9. QED
      BY <2>3, <2>4, <2>5, <2>6, <2>7, <2>8 DEF Discovery!DiscoveryInv
  <1>10. CASE Discovery!CloseDrops
    <2>1. UNCHANGED <<x1, x2, x3, x4, x12>> /\ x5 = Nobody /\ x5' = "close"
              /\ x13' = [x13 EXCEPT !.close = "drop"]
      BY <1>10 DEF Discovery!CloseDrops
    <2>2. DropsIt
      BY <1>10, DropEffect DEF Discovery!CloseDrops
    <2>3. x13' \in Discovery!OwnerRecords /\ x13'.close = "drop" /\ x13'.idle = x13.idle
      BY <1>t, <2>1 DEF Discovery!DiscoveryTypes, Discovery!OwnerRecords
    <2>4. Discovery!DiscoveryTypes'
      BY <1>t, <2>1, <2>2, <2>3, DiscoveryNothing DEF Discovery!DiscoveryTypes, DropsIt
    <2>5. Discovery!LockIsHeld'
      BY <1>i, <2>1, <2>2, <2>3, AloneInTurn, DiscoveryNothing
      DEF Discovery!LockIsHeld, Discovery!Turn, Discovery!Awaiting, DropsIt
    <2>6. Discovery!OneConnection'
      BY <1>i, <2>1, <2>2, <2>3, DiscoveryNothing
      DEF Discovery!OneConnection, Discovery!NoDisposal, Discovery!Nothing, DropsIt
    <2>7. Discovery!OneAnswer'
      BY <2>1, <2>2, <2>3 DEF Discovery!OneAnswer, DropsIt, Discovery!NoPending
    <2>x. x2' \in Nat /\ x2' >= x2
      BY <1>t, <2>1, DiscoveryFields
    <2>b. \A s \in Requests : x4'[s] = x4[s] /\ (x4[s].pc \in Discovery!Asked \cup {"recheck"} =>
          x6' = x6)
      BY <1>i, <2>1, <2>2, <2>3, AloneInTurn
    <2>8. Discovery!RepliesAreOwn'
      BY <1>t, <1>i, <2>b, <2>x, ReplyStays DEF Discovery!RepliesAreOwn
    <2>e. x12' \subseteq {x6'.connection} \cup {x11'.of}
      BY <1>t, <1>i, <2>1, <2>2, <2>3, DiscoveryNothing DEF Discovery!ConnectionsAreKnown, DropsIt
    <2>f. \A s \in Requests : x4'[s].pc = "connect" => ~ x6'.receiver
              /\ x11' = Discovery!NoDisposal
      BY <1>i, <2>1, <2>2, <2>3, DiscoveryNothing, AloneInTurn
      DEF Discovery!ConnectionsAreKnown, Discovery!Awaiting, Discovery!Turn, DropsIt
    <2>g. x13'.close \in {"drop", "done"} =>
          \A s \in Requests : x4'[s].pc \notin Discovery!Awaiting
      BY <1>i, <2>1, <2>2, <2>3, AloneInTurn
      DEF Discovery!ConnectionsAreKnown, Discovery!Awaiting, Discovery!Turn, DropsIt
    <2>h. x13'.close = "done" => x12' = {}
      BY <1>i, <2>1, <2>2, <2>3 DEF Discovery!ConnectionsAreKnown, Discovery!Awaiting, DropsIt
    <2>9. Discovery!ConnectionsAreKnown'
      BY <2>e, <2>f, <2>g, <2>h
      DEF Discovery!ConnectionsAreKnown, Discovery!NoDisposal, Discovery!Awaiting
    <2>10. QED
      BY <2>4, <2>5, <2>6, <2>7, <2>8, <2>9 DEF Discovery!DiscoveryInv
  <1>11. CASE Discovery!Closed
    <2>1. UNCHANGED <<x1, x2, x3, x4, x6, x7, x8, x9, x10, x12>> /\ x11.st = "done"
              /\ x11' = Discovery!NoDisposal /\ x5' = Nobody /\ x13.close = "drop"
      BY <1>11 DEF Discovery!Closed, Discovery!Disposed
    <2>2. x13' \in Discovery!OwnerRecords /\ x13'.close = "done" /\ x13'.idle = x13.idle
      BY <1>11, <1>t DEF Discovery!Closed, Discovery!DiscoveryTypes, Discovery!OwnerRecords
    <2>3. x6 = Discovery!Nothing /\ x12 = {} /\ x7 = FALSE /\ x9 = <<>> /\ x10 = <<>>
      BY <2>1, NothingOpen
    <2>4. Discovery!DiscoveryTypes'
      BY <1>t, <2>1, <2>2, <2>3, DiscoveryNothing DEF Discovery!DiscoveryTypes
    <2>5. Discovery!LockIsHeld'
      BY <1>i, <2>1, <2>2, <2>3, AloneInTurn, DiscoveryNothing
      DEF Discovery!LockIsHeld, Discovery!Turn, Discovery!Awaiting
    <2>6. Discovery!OneConnection'
      BY <1>i, <2>1, <2>2, <2>3, DiscoveryNothing
      DEF Discovery!OneConnection, Discovery!NoDisposal, Discovery!Nothing
    <2>7. Discovery!OneAnswer'
      BY <1>t, <1>i, <2>1, <2>2, <2>3, DiscoveryFields, AnswerOfOthers
    <2>x. x2' \in Nat /\ x2' >= x2
      BY <1>t, <2>1, DiscoveryFields
    <2>b. \A s \in Requests : x4'[s] = x4[s] /\ (x4[s].pc \in Discovery!Asked \cup {"recheck"} =>
          x6' = x6)
      BY <1>i, <2>1, <2>2, <2>3, AloneInTurn
    <2>8. Discovery!RepliesAreOwn'
      BY <1>t, <1>i, <2>b, <2>x, ReplyStays DEF Discovery!RepliesAreOwn
    <2>e. x12' \subseteq {x6'.connection} \cup {x11'.of}
      BY <1>t, <1>i, <2>1, <2>2, <2>3, DiscoveryNothing DEF Discovery!ConnectionsAreKnown
    <2>f. \A s \in Requests : x4'[s].pc = "connect" => ~ x6'.receiver
              /\ x11' = Discovery!NoDisposal
      BY <1>i, <2>1, <2>2, <2>3, DiscoveryNothing, AloneInTurn
      DEF Discovery!ConnectionsAreKnown, Discovery!Awaiting, Discovery!Turn
    <2>g. x13'.close \in {"drop", "done"} =>
          \A s \in Requests : x4'[s].pc \notin Discovery!Awaiting
      BY <1>i, <2>1, <2>2, <2>3, AloneInTurn
      DEF Discovery!ConnectionsAreKnown, Discovery!Awaiting, Discovery!Turn
    <2>h. x13'.close = "done" => x12' = {}
      BY <1>i, <2>1, <2>2, <2>3 DEF Discovery!ConnectionsAreKnown, Discovery!Awaiting
    <2>9. Discovery!ConnectionsAreKnown'
      BY <2>e, <2>f, <2>g, <2>h
      DEF Discovery!ConnectionsAreKnown, Discovery!NoDisposal, Discovery!Awaiting
    <2>10. QED
      BY <2>4, <2>5, <2>6, <2>7, <2>8, <2>9 DEF Discovery!DiscoveryInv
  <1>12. ASSUME NEW r \in Requests, Discovery!Ask(r)
        PROVE  Discovery!DiscoveryInv'
    <2>1. UNCHANGED <<x1, x2, x3, x5, x6, x7, x8, x9, x10, x11, x12, x13>> /\ x4[r].pc = "none"
              /\ x1 \in Profiles
          /\ \E display \in BOOLEAN : x4' = [x4 EXCEPT ![r] = Discovery!Asks("queued", x1, x2, display)]
      BY <1>12, <1>t DEF Discovery!Ask, Discovery!DiscoveryTypes
    <2>2. Becomes(r, "queued", x1, x2, Discovery!NoAnswer)
      <3>1. PICK display \in BOOLEAN : x4' = [x4 EXCEPT ![r] = Discovery!Asks("queued", x1, x2, display)]
        BY <2>1
      <3> DEFINE new == Discovery!Asks("queued", x1, x2, display)
      <3>2. /\ new \in Discovery!RequestRecords /\ new.pc = "queued" /\ new.want = x1
                /\ new.since = x2
            /\ new.reply = Discovery!NoAnswer
        BY <1>t, <2>1, DiscoveryFields, DiscoveryNothing
        DEF Discovery!Asks, Discovery!RequestRecords, Discovery!Places
      <3> HIDE DEF new
      <3>3. x4' = [x4 EXCEPT ![r] = new] /\ x4 \in [Requests -> Discovery!RequestRecords]
        BY <1>t, <3>1 DEF new, Discovery!DiscoveryTypes
      <3>4. QED
        BY <3>2, <3>3 DEF Becomes
    <2>3. Discovery!DiscoveryTypes'
      BY <1>t, <2>1, <2>2, DiscoveryNothing DEF Discovery!DiscoveryTypes, Becomes
    <2>4. Discovery!LockIsHeld'
      BY <1>i, <2>1, <2>2, AloneInTurn, DiscoveryNothing
      DEF Discovery!LockIsHeld, Discovery!Turn, Discovery!Awaiting, Becomes
    <2>5. Discovery!OneConnection'
      BY <1>i, <2>1, <2>2, DiscoveryNothing
      DEF Discovery!OneConnection, Discovery!NoDisposal, Discovery!Nothing, Becomes
    <2>c. x8.by # r
      BY <1>i, <2>1, <2>2, DiscoveryNothing
      DEF Discovery!OneAnswer, Discovery!Asked, Discovery!Awaiting
    <2>6. Discovery!OneAnswer'
      BY <1>t, <1>i, <2>c, <2>1, <2>2, DiscoveryFields, AnswerOfOthers DEF Becomes
    <2>x. x2' \in Nat /\ x2' >= x2
      BY <1>t, <2>1, DiscoveryFields
    <2>a. Discovery!ReplyIsOwn(r)'
      BY <1>i, <1>t, <2>1, <2>2, DiscoveryFields, DiscoveryNothing
      DEF Discovery!RepliesAreOwn, Discovery!ReplyIsOwn, Discovery!Awaiting, Discovery!Asked,
          Discovery!NoAnswer, Becomes
    <2>b. \A s \in Requests \ {r} : x4'[s] = x4[s]
              /\ (x4[s].pc \in Discovery!Asked \cup {"recheck"} => x6' = x6)
      BY <1>i, <2>1, <2>2, AloneInTurn
      DEF Becomes, Discovery!Awaiting, Discovery!Turn, Discovery!Asked
    <2>7. Discovery!RepliesAreOwn'
      BY <1>t, <1>i, <2>a, <2>b, <2>x, ReplyStays DEF Discovery!RepliesAreOwn
    <2>e. x12' \subseteq {x6'.connection} \cup {x11'.of}
      BY <1>t, <1>i, <2>1, <2>2, DiscoveryNothing DEF Discovery!ConnectionsAreKnown, Becomes
    <2>f. \A s \in Requests : x4'[s].pc = "connect" => ~ x6'.receiver
              /\ x11' = Discovery!NoDisposal
      <3>1. "connect" \in Discovery!Turn
        BY DEF Discovery!Turn, Discovery!Awaiting
      <3>2. ASSUME NEW s \in Requests \ {r}, x4'[s].pc = "connect"
            PROVE  ~ x6'.receiver /\ x11' = Discovery!NoDisposal
        <4>1. x4[s].pc = "connect" /\ ~ x6.receiver /\ x11 = Discovery!NoDisposal
          BY <1>i, <2>1, <2>2, <3>2 DEF Discovery!ConnectionsAreKnown, Becomes
        <4>2. QED
          BY <1>i, <2>1, <2>2, <3>1, <4>1, AloneInTurn DEF Discovery!Turn, Discovery!Awaiting
      <3>3. x4'[r].pc = "connect" => ~ x6'.receiver /\ x11' = Discovery!NoDisposal
        BY <1>i, <2>1, <2>2, DiscoveryNothing
        DEF Discovery!ConnectionsAreKnown, Discovery!Asked, Becomes
      <3>4. QED
        BY <3>2, <3>3
    <2>g. x13'.close \in {"drop", "done"} =>
          \A s \in Requests : x4'[s].pc \notin Discovery!Awaiting
      BY <1>i, <2>1, <2>2, AloneInTurn
      DEF Discovery!ConnectionsAreKnown, Discovery!Awaiting, Discovery!Turn, Becomes
    <2>h. x13'.close = "done" => x12' = {}
      BY <1>i, <2>1, <2>2 DEF Discovery!ConnectionsAreKnown, Discovery!Awaiting, Becomes
    <2>8. Discovery!ConnectionsAreKnown'
      BY <2>e, <2>f, <2>g, <2>h
      DEF Discovery!ConnectionsAreKnown, Discovery!NoDisposal, Discovery!Awaiting
    <2>9. QED
      BY <2>3, <2>4, <2>5, <2>6, <2>7, <2>8 DEF Discovery!DiscoveryInv
  <1>13. ASSUME NEW r \in Requests, Discovery!GiveUp(r)
        PROVE  Discovery!DiscoveryInv'
    <2>1. UNCHANGED <<x1, x2, x3, x5, x6, x7, x8, x9, x10, x11, x12, x13>> /\ x4[r].pc = "queued"
      BY <1>13 DEF Discovery!GiveUp
    <2>2. Becomes(r, "refused", NoIdentity, 0, Discovery!NoAnswer)
      BY <1>13, <1>t, RequestBecomes
      DEF Discovery!GiveUp, Discovery!Places, Discovery!Turn, Discovery!Awaiting
    <2>3. Discovery!DiscoveryTypes'
      BY <1>t, <2>1, <2>2, DiscoveryNothing DEF Discovery!DiscoveryTypes, Becomes
    <2>4. Discovery!LockIsHeld'
      BY <1>i, <2>1, <2>2, AloneInTurn, DiscoveryNothing
      DEF Discovery!LockIsHeld, Discovery!Turn, Discovery!Awaiting, Becomes
    <2>5. Discovery!OneConnection'
      BY <1>i, <2>1, <2>2, DiscoveryNothing
      DEF Discovery!OneConnection, Discovery!NoDisposal, Discovery!Nothing, Becomes
    <2>c. x8.by # r
      BY <1>i, <2>1, <2>2, DiscoveryNothing
      DEF Discovery!OneAnswer, Discovery!Asked, Discovery!Awaiting
    <2>6. Discovery!OneAnswer'
      BY <1>t, <1>i, <2>c, <2>1, <2>2, DiscoveryFields, AnswerOfOthers DEF Becomes
    <2>x. x2' \in Nat /\ x2' >= x2
      BY <1>t, <2>1, DiscoveryFields
    <2>a. Discovery!ReplyIsOwn(r)'
      BY <1>i, <1>t, <2>1, <2>2, DiscoveryFields, DiscoveryNothing
      DEF Discovery!RepliesAreOwn, Discovery!ReplyIsOwn, Discovery!Awaiting, Discovery!Asked,
          Discovery!NoAnswer, Becomes
    <2>b. \A s \in Requests \ {r} : x4'[s] = x4[s]
              /\ (x4[s].pc \in Discovery!Asked \cup {"recheck"} => x6' = x6)
      BY <1>i, <2>1, <2>2, AloneInTurn
      DEF Becomes, Discovery!Awaiting, Discovery!Turn, Discovery!Asked
    <2>7. Discovery!RepliesAreOwn'
      BY <1>t, <1>i, <2>a, <2>b, <2>x, ReplyStays DEF Discovery!RepliesAreOwn
    <2>e. x12' \subseteq {x6'.connection} \cup {x11'.of}
      BY <1>t, <1>i, <2>1, <2>2, DiscoveryNothing DEF Discovery!ConnectionsAreKnown, Becomes
    <2>f. \A s \in Requests : x4'[s].pc = "connect" => ~ x6'.receiver
              /\ x11' = Discovery!NoDisposal
      <3>1. "connect" \in Discovery!Turn
        BY DEF Discovery!Turn, Discovery!Awaiting
      <3>2. ASSUME NEW s \in Requests \ {r}, x4'[s].pc = "connect"
            PROVE  ~ x6'.receiver /\ x11' = Discovery!NoDisposal
        <4>1. x4[s].pc = "connect" /\ ~ x6.receiver /\ x11 = Discovery!NoDisposal
          BY <1>i, <2>1, <2>2, <3>2 DEF Discovery!ConnectionsAreKnown, Becomes
        <4>2. QED
          BY <1>i, <2>1, <2>2, <3>1, <4>1, AloneInTurn DEF Discovery!Turn, Discovery!Awaiting
      <3>3. x4'[r].pc = "connect" => ~ x6'.receiver /\ x11' = Discovery!NoDisposal
        BY <1>i, <2>1, <2>2, DiscoveryNothing
        DEF Discovery!ConnectionsAreKnown, Discovery!Asked, Becomes
      <3>4. QED
        BY <3>2, <3>3
    <2>g. x13'.close \in {"drop", "done"} =>
          \A s \in Requests : x4'[s].pc \notin Discovery!Awaiting
      BY <1>i, <2>1, <2>2, AloneInTurn
      DEF Discovery!ConnectionsAreKnown, Discovery!Awaiting, Discovery!Turn, Becomes
    <2>h. x13'.close = "done" => x12' = {}
      BY <1>i, <2>1, <2>2 DEF Discovery!ConnectionsAreKnown, Discovery!Awaiting, Becomes
    <2>8. Discovery!ConnectionsAreKnown'
      BY <2>e, <2>f, <2>g, <2>h
      DEF Discovery!ConnectionsAreKnown, Discovery!NoDisposal, Discovery!Awaiting
    <2>9. QED
      BY <2>3, <2>4, <2>5, <2>6, <2>7, <2>8 DEF Discovery!DiscoveryInv
  <1>14. ASSUME NEW r \in Requests, Discovery!Enter(r), x13.close = "none"
        PROVE  Discovery!DiscoveryInv'
    <2>1. UNCHANGED <<x1, x2, x3, x6, x7, x8, x9, x10, x11, x12, x13>> /\ x5 = Nobody /\ x5' = r
              /\ x4[r].pc = "queued" /\ x13.close = "none"
      BY <1>14 DEF Discovery!Enter
    <2>2. Becomes(r, "identity", x4[r].want, x4[r].since, x4[r].reply)
      BY <1>14, <1>t, RequestBecomes
      DEF Discovery!Enter, Discovery!Places, Discovery!Turn, Discovery!Awaiting
    <2>3. Discovery!DiscoveryTypes'
      BY <1>t, <2>1, <2>2, DiscoveryNothing DEF Discovery!DiscoveryTypes, Becomes
    <2>4. Discovery!LockIsHeld'
      BY <1>i, <2>1, <2>2, AloneInTurn, DiscoveryNothing
      DEF Discovery!LockIsHeld, Discovery!Turn, Discovery!Awaiting, Becomes
    <2>5. Discovery!OneConnection'
      BY <1>i, <2>1, <2>2, DiscoveryNothing
      DEF Discovery!OneConnection, Discovery!NoDisposal, Discovery!Nothing, Becomes
    <2>c. x8.by # r
      BY <1>i, <2>1, <2>2, DiscoveryNothing
      DEF Discovery!OneAnswer, Discovery!Asked, Discovery!Awaiting
    <2>6. Discovery!OneAnswer'
      BY <1>t, <1>i, <2>c, <2>1, <2>2, DiscoveryFields, AnswerOfOthers DEF Becomes
    <2>x. x2' \in Nat /\ x2' >= x2
      BY <1>t, <2>1, DiscoveryFields
    <2>a. Discovery!ReplyIsOwn(r)'
      BY <1>i, <1>t, <2>1, <2>2, DiscoveryFields, DiscoveryNothing
      DEF Discovery!RepliesAreOwn, Discovery!ReplyIsOwn, Discovery!Awaiting, Discovery!Asked,
          Discovery!NoAnswer, Becomes
    <2>b. \A s \in Requests \ {r} : x4'[s] = x4[s]
              /\ (x4[s].pc \in Discovery!Asked \cup {"recheck"} => x6' = x6)
      BY <1>i, <2>1, <2>2, AloneInTurn
      DEF Becomes, Discovery!Awaiting, Discovery!Turn, Discovery!Asked
    <2>7. Discovery!RepliesAreOwn'
      BY <1>t, <1>i, <2>a, <2>b, <2>x, ReplyStays DEF Discovery!RepliesAreOwn
    <2>e. x12' \subseteq {x6'.connection} \cup {x11'.of}
      BY <1>t, <1>i, <2>1, <2>2, DiscoveryNothing DEF Discovery!ConnectionsAreKnown, Becomes
    <2>f. \A s \in Requests : x4'[s].pc = "connect" => ~ x6'.receiver
              /\ x11' = Discovery!NoDisposal
      <3>1. "connect" \in Discovery!Turn
        BY DEF Discovery!Turn, Discovery!Awaiting
      <3>2. ASSUME NEW s \in Requests \ {r}, x4'[s].pc = "connect"
            PROVE  ~ x6'.receiver /\ x11' = Discovery!NoDisposal
        <4>1. x4[s].pc = "connect" /\ ~ x6.receiver /\ x11 = Discovery!NoDisposal
          BY <1>i, <2>1, <2>2, <3>2 DEF Discovery!ConnectionsAreKnown, Becomes
        <4>2. QED
          BY <1>i, <2>1, <2>2, <3>1, <4>1, AloneInTurn DEF Discovery!Turn, Discovery!Awaiting
      <3>3. x4'[r].pc = "connect" => ~ x6'.receiver /\ x11' = Discovery!NoDisposal
        BY <1>i, <2>1, <2>2, DiscoveryNothing
        DEF Discovery!ConnectionsAreKnown, Discovery!Asked, Becomes
      <3>4. QED
        BY <3>2, <3>3
    <2>g. x13'.close \in {"drop", "done"} =>
          \A s \in Requests : x4'[s].pc \notin Discovery!Awaiting
      BY <1>i, <2>1, <2>2, AloneInTurn
      DEF Discovery!ConnectionsAreKnown, Discovery!Awaiting, Discovery!Turn, Becomes
    <2>h. x13'.close = "done" => x12' = {}
      BY <1>i, <2>1, <2>2 DEF Discovery!ConnectionsAreKnown, Discovery!Awaiting, Becomes
    <2>8. Discovery!ConnectionsAreKnown'
      BY <2>e, <2>f, <2>g, <2>h
      DEF Discovery!ConnectionsAreKnown, Discovery!NoDisposal, Discovery!Awaiting
    <2>9. QED
      BY <2>3, <2>4, <2>5, <2>6, <2>7, <2>8 DEF Discovery!DiscoveryInv
  <1>15. ASSUME NEW r \in Requests, Discovery!Enter(r), x13.close # "none"
        PROVE  Discovery!DiscoveryInv'
    <2>1. UNCHANGED <<x1, x2, x3, x12, x13>> /\ x5 = Nobody /\ x5' = r /\ x4[r].pc = "queued"
      BY <1>15 DEF Discovery!Enter
    <2>2. Becomes(r, "drop", x4[r].want, x4[r].since, x4[r].reply)
      BY <1>15, <1>t, RequestBecomes
      DEF Discovery!Enter, Discovery!Places, Discovery!Turn, Discovery!Awaiting
    <2>3. DropsIt
      BY <1>15, DropEffect DEF Discovery!Enter
    <2>4. Discovery!DiscoveryTypes'
      BY <1>t, <2>1, <2>2, <2>3, DiscoveryNothing DEF Discovery!DiscoveryTypes, Becomes, DropsIt
    <2>5. Discovery!LockIsHeld'
      BY <1>i, <2>1, <2>2, <2>3, AloneInTurn, DiscoveryNothing
      DEF Discovery!LockIsHeld, Discovery!Turn, Discovery!Awaiting, Becomes, DropsIt
    <2>6. Discovery!OneConnection'
      BY <1>i, <2>1, <2>2, <2>3, DiscoveryNothing
      DEF Discovery!OneConnection, Discovery!NoDisposal, Discovery!Nothing, Becomes, DropsIt
    <2>7. Discovery!OneAnswer'
      BY <2>1, <2>2, <2>3 DEF Discovery!OneAnswer, DropsIt, Discovery!NoPending
    <2>x. x2' \in Nat /\ x2' >= x2
      BY <1>t, <2>1, DiscoveryFields
    <2>a. Discovery!ReplyIsOwn(r)'
      BY <1>i, <1>t, <2>1, <2>2, <2>3, DiscoveryFields, DiscoveryNothing
      DEF Discovery!RepliesAreOwn, Discovery!ReplyIsOwn, Discovery!Awaiting, Discovery!Asked,
          Discovery!NoAnswer, Becomes, DropsIt
    <2>b. \A s \in Requests \ {r} : x4'[s] = x4[s]
              /\ (x4[s].pc \in Discovery!Asked \cup {"recheck"} => x6' = x6)
      BY <1>i, <2>1, <2>2, <2>3, AloneInTurn
      DEF Becomes, Discovery!Awaiting, Discovery!Turn, Discovery!Asked
    <2>8. Discovery!RepliesAreOwn'
      BY <1>t, <1>i, <2>a, <2>b, <2>x, ReplyStays DEF Discovery!RepliesAreOwn
    <2>e. x12' \subseteq {x6'.connection} \cup {x11'.of}
      BY <1>t, <1>i, <2>1, <2>2, <2>3, DiscoveryNothing
      DEF Discovery!ConnectionsAreKnown, Becomes, DropsIt
    <2>f. \A s \in Requests : x4'[s].pc = "connect" => ~ x6'.receiver
              /\ x11' = Discovery!NoDisposal
      <3>1. "connect" \in Discovery!Turn
        BY DEF Discovery!Turn, Discovery!Awaiting
      <3>2. ASSUME NEW s \in Requests \ {r}, x4'[s].pc = "connect"
            PROVE  ~ x6'.receiver /\ x11' = Discovery!NoDisposal
        <4>1. x4[s].pc = "connect" /\ ~ x6.receiver /\ x11 = Discovery!NoDisposal
          BY <1>i, <2>1, <2>2, <2>3, <3>2 DEF Discovery!ConnectionsAreKnown, Becomes
        <4>2. QED
          BY <1>i, <2>1, <2>2, <2>3, <3>1, <4>1, AloneInTurn
          DEF Discovery!Turn, Discovery!Awaiting
      <3>3. x4'[r].pc = "connect" => ~ x6'.receiver /\ x11' = Discovery!NoDisposal
        BY <1>i, <2>1, <2>2, <2>3, DiscoveryNothing
        DEF Discovery!ConnectionsAreKnown, Discovery!Asked, Becomes, DropsIt
      <3>4. QED
        BY <3>2, <3>3
    <2>g. x13'.close \in {"drop", "done"} =>
          \A s \in Requests : x4'[s].pc \notin Discovery!Awaiting
      BY <1>i, <2>1, <2>2, <2>3, AloneInTurn
      DEF Discovery!ConnectionsAreKnown, Discovery!Awaiting, Discovery!Turn, Becomes, DropsIt
    <2>h. x13'.close = "done" => x12' = {}
      BY <1>i, <2>1, <2>2, <2>3
      DEF Discovery!ConnectionsAreKnown, Discovery!Awaiting, Becomes, DropsIt
    <2>9. Discovery!ConnectionsAreKnown'
      BY <2>e, <2>f, <2>g, <2>h
      DEF Discovery!ConnectionsAreKnown, Discovery!NoDisposal, Discovery!Awaiting
    <2>10. QED
      BY <2>4, <2>5, <2>6, <2>7, <2>8, <2>9 DEF Discovery!DiscoveryInv
  <1>16. ASSUME NEW r \in Requests, Discovery!Fail(r)
        PROVE  Discovery!DiscoveryInv'
    <2>1. UNCHANGED <<x1, x2, x3, x5, x12, x13>> /\ x4[r].pc \in Discovery!Awaiting
      BY <1>16 DEF Discovery!Fail
    <2>2. Becomes(r, "drop", x4[r].want, x4[r].since, x4[r].reply)
      BY <1>16, <1>t, RequestBecomes
      DEF Discovery!Fail, Discovery!Places, Discovery!Turn, Discovery!Awaiting
    <2>3. DropsIt
      BY <1>16, DropEffect DEF Discovery!Fail
    <2>4. Discovery!DiscoveryTypes'
      BY <1>t, <2>1, <2>2, <2>3, DiscoveryNothing DEF Discovery!DiscoveryTypes, Becomes, DropsIt
    <2>5. Discovery!LockIsHeld'
      BY <1>i, <2>1, <2>2, <2>3, AloneInTurn, DiscoveryNothing
      DEF Discovery!LockIsHeld, Discovery!Turn, Discovery!Awaiting, Becomes, DropsIt
    <2>6. Discovery!OneConnection'
      BY <1>i, <2>1, <2>2, <2>3, DiscoveryNothing
      DEF Discovery!OneConnection, Discovery!NoDisposal, Discovery!Nothing, Becomes, DropsIt
    <2>7. Discovery!OneAnswer'
      BY <2>1, <2>2, <2>3 DEF Discovery!OneAnswer, DropsIt, Discovery!NoPending
    <2>x. x2' \in Nat /\ x2' >= x2
      BY <1>t, <2>1, DiscoveryFields
    <2>a. Discovery!ReplyIsOwn(r)'
      BY <1>i, <1>t, <2>1, <2>2, <2>3, DiscoveryFields, DiscoveryNothing
      DEF Discovery!RepliesAreOwn, Discovery!ReplyIsOwn, Discovery!Awaiting, Discovery!Asked,
          Discovery!NoAnswer, Becomes, DropsIt
    <2>b. \A s \in Requests \ {r} : x4'[s] = x4[s]
              /\ (x4[s].pc \in Discovery!Asked \cup {"recheck"} => x6' = x6)
      BY <1>i, <2>1, <2>2, <2>3, AloneInTurn
      DEF Becomes, Discovery!Awaiting, Discovery!Turn, Discovery!Asked
    <2>8. Discovery!RepliesAreOwn'
      BY <1>t, <1>i, <2>a, <2>b, <2>x, ReplyStays DEF Discovery!RepliesAreOwn
    <2>e. x12' \subseteq {x6'.connection} \cup {x11'.of}
      BY <1>t, <1>i, <2>1, <2>2, <2>3, DiscoveryNothing
      DEF Discovery!ConnectionsAreKnown, Becomes, DropsIt
    <2>f. \A s \in Requests : x4'[s].pc = "connect" => ~ x6'.receiver
              /\ x11' = Discovery!NoDisposal
      <3>1. "connect" \in Discovery!Turn
        BY DEF Discovery!Turn, Discovery!Awaiting
      <3>2. ASSUME NEW s \in Requests \ {r}, x4'[s].pc = "connect"
            PROVE  ~ x6'.receiver /\ x11' = Discovery!NoDisposal
        <4>1. x4[s].pc = "connect" /\ ~ x6.receiver /\ x11 = Discovery!NoDisposal
          BY <1>i, <2>1, <2>2, <2>3, <3>2 DEF Discovery!ConnectionsAreKnown, Becomes
        <4>2. QED
          BY <1>i, <2>1, <2>2, <2>3, <3>1, <4>1, AloneInTurn
          DEF Discovery!Turn, Discovery!Awaiting
      <3>3. x4'[r].pc = "connect" => ~ x6'.receiver /\ x11' = Discovery!NoDisposal
        BY <1>i, <2>1, <2>2, <2>3, DiscoveryNothing
        DEF Discovery!ConnectionsAreKnown, Discovery!Asked, Becomes, DropsIt
      <3>4. QED
        BY <3>2, <3>3
    <2>g. x13'.close \in {"drop", "done"} =>
          \A s \in Requests : x4'[s].pc \notin Discovery!Awaiting
      BY <1>i, <2>1, <2>2, <2>3, AloneInTurn
      DEF Discovery!ConnectionsAreKnown, Discovery!Awaiting, Discovery!Turn, Becomes, DropsIt
    <2>h. x13'.close = "done" => x12' = {}
      BY <1>i, <2>1, <2>2, <2>3
      DEF Discovery!ConnectionsAreKnown, Discovery!Awaiting, Becomes, DropsIt
    <2>9. Discovery!ConnectionsAreKnown'
      BY <2>e, <2>f, <2>g, <2>h
      DEF Discovery!ConnectionsAreKnown, Discovery!NoDisposal, Discovery!Awaiting
    <2>10. QED
      BY <2>4, <2>5, <2>6, <2>7, <2>8, <2>9 DEF Discovery!DiscoveryInv
  <1>17. ASSUME NEW r \in Requests, Discovery!Dropped(r)
        PROVE  Discovery!DiscoveryInv'
    <2>1. UNCHANGED <<x1, x2, x3, x6, x7, x8, x9, x10, x12, x13>>
              /\ x4[r].pc \in {"drop", "leave"} /\ x5' = Nobody
      BY <1>17 DEF Discovery!Dropped
    <2>2. x11.st = "done" /\ x11' = Discovery!NoDisposal
      BY <1>17 DEF Discovery!Dropped, Discovery!Disposed
    <2>3. Becomes(r, "refused", NoIdentity, 0, Discovery!NoAnswer)
      BY <1>17, <1>t, RequestBecomes
      DEF Discovery!Dropped, Discovery!Places, Discovery!Turn, Discovery!Awaiting
    <2>4. x6 = Discovery!Nothing /\ x12 = {} /\ x7 = FALSE /\ x9 = <<>> /\ x10 = <<>>
      BY <2>2, NothingOpen
    <2>5. Discovery!DiscoveryTypes'
      BY <1>t, <2>1, <2>2, <2>3, <2>4, DiscoveryNothing DEF Discovery!DiscoveryTypes, Becomes
    <2>6. Discovery!LockIsHeld'
      BY <1>i, <2>1, <2>2, <2>3, <2>4, AloneInTurn, DiscoveryNothing
      DEF Discovery!LockIsHeld, Discovery!Turn, Discovery!Awaiting, Becomes
    <2>7. Discovery!OneConnection'
      BY <1>i, <2>1, <2>2, <2>3, <2>4, DiscoveryNothing
      DEF Discovery!OneConnection, Discovery!NoDisposal, Discovery!Nothing, Becomes
    <2>c. x8.by # r
      BY <1>i, <2>1, <2>2, <2>3, <2>4, DiscoveryNothing
      DEF Discovery!OneAnswer, Discovery!Asked, Discovery!Awaiting
    <2>8. Discovery!OneAnswer'
      BY <1>t, <1>i, <2>c, <2>1, <2>2, <2>3, <2>4, DiscoveryFields, AnswerOfOthers DEF Becomes
    <2>x. x2' \in Nat /\ x2' >= x2
      BY <1>t, <2>1, DiscoveryFields
    <2>a. Discovery!ReplyIsOwn(r)'
      BY <1>i, <1>t, <2>1, <2>3, DiscoveryFields, DiscoveryNothing
      DEF Discovery!RepliesAreOwn, Discovery!ReplyIsOwn, Discovery!Awaiting, Discovery!Asked,
          Discovery!NoAnswer, Becomes
    <2>b. \A s \in Requests \ {r} : x4'[s] = x4[s]
              /\ (x4[s].pc \in Discovery!Asked \cup {"recheck"} => x6' = x6)
      BY <1>i, <2>1, <2>2, <2>3, <2>4, AloneInTurn
      DEF Becomes, Discovery!Awaiting, Discovery!Turn, Discovery!Asked
    <2>9. Discovery!RepliesAreOwn'
      BY <1>t, <1>i, <2>a, <2>b, <2>x, ReplyStays DEF Discovery!RepliesAreOwn
    <2>e. x12' \subseteq {x6'.connection} \cup {x11'.of}
      BY <1>t, <1>i, <2>1, <2>2, <2>3, <2>4, DiscoveryNothing
      DEF Discovery!ConnectionsAreKnown, Becomes
    <2>f. \A s \in Requests : x4'[s].pc = "connect" => ~ x6'.receiver
              /\ x11' = Discovery!NoDisposal
      <3>1. "connect" \in Discovery!Turn
        BY DEF Discovery!Turn, Discovery!Awaiting
      <3>2. ASSUME NEW s \in Requests \ {r}, x4'[s].pc = "connect"
            PROVE  ~ x6'.receiver /\ x11' = Discovery!NoDisposal
        <4>1. x4[s].pc = "connect" /\ ~ x6.receiver /\ x11 = Discovery!NoDisposal
          BY <1>i, <2>1, <2>2, <2>3, <2>4, <3>2 DEF Discovery!ConnectionsAreKnown, Becomes
        <4>2. QED
          BY <1>i, <2>1, <2>2, <2>3, <2>4, <3>1, <4>1, AloneInTurn
          DEF Discovery!Turn, Discovery!Awaiting
      <3>3. x4'[r].pc = "connect" => ~ x6'.receiver /\ x11' = Discovery!NoDisposal
        BY <1>i, <2>1, <2>2, <2>3, <2>4, DiscoveryNothing
        DEF Discovery!ConnectionsAreKnown, Discovery!Asked, Becomes
      <3>4. QED
        BY <3>2, <3>3
    <2>g. x13'.close \in {"drop", "done"} =>
          \A s \in Requests : x4'[s].pc \notin Discovery!Awaiting
      BY <1>i, <2>1, <2>2, <2>3, <2>4, AloneInTurn
      DEF Discovery!ConnectionsAreKnown, Discovery!Awaiting, Discovery!Turn, Becomes
    <2>h. x13'.close = "done" => x12' = {}
      BY <1>i, <2>1, <2>2, <2>3, <2>4
      DEF Discovery!ConnectionsAreKnown, Discovery!Awaiting, Becomes
    <2>10. Discovery!ConnectionsAreKnown'
      BY <2>e, <2>f, <2>g, <2>h
      DEF Discovery!ConnectionsAreKnown, Discovery!NoDisposal, Discovery!Awaiting
    <2>11. QED
      BY <2>5, <2>6, <2>7, <2>8, <2>9, <2>10 DEF Discovery!DiscoveryInv
  <1>18. ASSUME NEW r \in Requests, Discovery!CancelledAgain(r), x4[r].pc = "drop"
        PROVE  Discovery!DiscoveryInv'
    <2>1. UNCHANGED <<x1, x2, x3, x5, x6, x7, x8, x9, x10, x11, x12, x13>> /\ x4[r].pc = "drop"
      BY <1>18 DEF Discovery!CancelledAgain
    <2>2. Becomes(r, "leave", x4[r].want, x4[r].since, x4[r].reply)
      BY <1>18, <1>t, RequestBecomes
      DEF Discovery!CancelledAgain, Discovery!Places, Discovery!Turn, Discovery!Awaiting
    <2>3. Discovery!DiscoveryTypes'
      BY <1>t, <2>1, <2>2, DiscoveryNothing DEF Discovery!DiscoveryTypes, Becomes
    <2>4. Discovery!LockIsHeld'
      BY <1>i, <2>1, <2>2, AloneInTurn, DiscoveryNothing
      DEF Discovery!LockIsHeld, Discovery!Turn, Discovery!Awaiting, Becomes
    <2>5. Discovery!OneConnection'
      BY <1>i, <2>1, <2>2, DiscoveryNothing
      DEF Discovery!OneConnection, Discovery!NoDisposal, Discovery!Nothing, Becomes
    <2>c. x8.by # r
      BY <1>i, <2>1, <2>2, DiscoveryNothing
      DEF Discovery!OneAnswer, Discovery!Asked, Discovery!Awaiting
    <2>6. Discovery!OneAnswer'
      BY <1>t, <1>i, <2>c, <2>1, <2>2, DiscoveryFields, AnswerOfOthers DEF Becomes
    <2>x. x2' \in Nat /\ x2' >= x2
      BY <1>t, <2>1, DiscoveryFields
    <2>a. Discovery!ReplyIsOwn(r)'
      BY <1>i, <1>t, <2>1, <2>2, DiscoveryFields, DiscoveryNothing
      DEF Discovery!RepliesAreOwn, Discovery!ReplyIsOwn, Discovery!Awaiting, Discovery!Asked,
          Discovery!NoAnswer, Becomes
    <2>b. \A s \in Requests \ {r} : x4'[s] = x4[s]
              /\ (x4[s].pc \in Discovery!Asked \cup {"recheck"} => x6' = x6)
      BY <1>i, <2>1, <2>2, AloneInTurn
      DEF Becomes, Discovery!Awaiting, Discovery!Turn, Discovery!Asked
    <2>7. Discovery!RepliesAreOwn'
      BY <1>t, <1>i, <2>a, <2>b, <2>x, ReplyStays DEF Discovery!RepliesAreOwn
    <2>e. x12' \subseteq {x6'.connection} \cup {x11'.of}
      BY <1>t, <1>i, <2>1, <2>2, DiscoveryNothing DEF Discovery!ConnectionsAreKnown, Becomes
    <2>f. \A s \in Requests : x4'[s].pc = "connect" => ~ x6'.receiver
              /\ x11' = Discovery!NoDisposal
      <3>1. "connect" \in Discovery!Turn
        BY DEF Discovery!Turn, Discovery!Awaiting
      <3>2. ASSUME NEW s \in Requests \ {r}, x4'[s].pc = "connect"
            PROVE  ~ x6'.receiver /\ x11' = Discovery!NoDisposal
        <4>1. x4[s].pc = "connect" /\ ~ x6.receiver /\ x11 = Discovery!NoDisposal
          BY <1>i, <2>1, <2>2, <3>2 DEF Discovery!ConnectionsAreKnown, Becomes
        <4>2. QED
          BY <1>i, <2>1, <2>2, <3>1, <4>1, AloneInTurn DEF Discovery!Turn, Discovery!Awaiting
      <3>3. x4'[r].pc = "connect" => ~ x6'.receiver /\ x11' = Discovery!NoDisposal
        BY <1>i, <2>1, <2>2, DiscoveryNothing
        DEF Discovery!ConnectionsAreKnown, Discovery!Asked, Becomes
      <3>4. QED
        BY <3>2, <3>3
    <2>g. x13'.close \in {"drop", "done"} =>
          \A s \in Requests : x4'[s].pc \notin Discovery!Awaiting
      BY <1>i, <2>1, <2>2, AloneInTurn
      DEF Discovery!ConnectionsAreKnown, Discovery!Awaiting, Discovery!Turn, Becomes
    <2>h. x13'.close = "done" => x12' = {}
      BY <1>i, <2>1, <2>2 DEF Discovery!ConnectionsAreKnown, Discovery!Awaiting, Becomes
    <2>8. Discovery!ConnectionsAreKnown'
      BY <2>e, <2>f, <2>g, <2>h
      DEF Discovery!ConnectionsAreKnown, Discovery!NoDisposal, Discovery!Awaiting
    <2>9. QED
      BY <2>3, <2>4, <2>5, <2>6, <2>7, <2>8 DEF Discovery!DiscoveryInv
  <1>19. ASSUME NEW r \in Requests, Discovery!CancelledAgain(r), x4[r].pc # "drop"
        PROVE  Discovery!DiscoveryInv'
    <2>1. UNCHANGED <<x1, x2, x3, x6, x7, x8, x9, x10, x11, x12, x13>> /\ x4[r].pc = "leave"
              /\ x5' = Nobody
      BY <1>19 DEF Discovery!CancelledAgain
    <2>2. Becomes(r, "refused", NoIdentity, 0, Discovery!NoAnswer)
      BY <1>19, <1>t, RequestBecomes
      DEF Discovery!CancelledAgain, Discovery!Places, Discovery!Turn, Discovery!Awaiting
    <2>3. Discovery!DiscoveryTypes'
      BY <1>t, <2>1, <2>2, DiscoveryNothing DEF Discovery!DiscoveryTypes, Becomes
    <2>4. Discovery!LockIsHeld'
      BY <1>i, <2>1, <2>2, AloneInTurn, DiscoveryNothing
      DEF Discovery!LockIsHeld, Discovery!Turn, Discovery!Awaiting, Becomes
    <2>5. Discovery!OneConnection'
      BY <1>i, <2>1, <2>2, DiscoveryNothing
      DEF Discovery!OneConnection, Discovery!NoDisposal, Discovery!Nothing, Becomes
    <2>c. x8.by # r
      BY <1>i, <2>1, <2>2, DiscoveryNothing
      DEF Discovery!OneAnswer, Discovery!Asked, Discovery!Awaiting
    <2>6. Discovery!OneAnswer'
      BY <1>t, <1>i, <2>c, <2>1, <2>2, DiscoveryFields, AnswerOfOthers DEF Becomes
    <2>x. x2' \in Nat /\ x2' >= x2
      BY <1>t, <2>1, DiscoveryFields
    <2>a. Discovery!ReplyIsOwn(r)'
      BY <1>i, <1>t, <2>1, <2>2, DiscoveryFields, DiscoveryNothing
      DEF Discovery!RepliesAreOwn, Discovery!ReplyIsOwn, Discovery!Awaiting, Discovery!Asked,
          Discovery!NoAnswer, Becomes
    <2>b. \A s \in Requests \ {r} : x4'[s] = x4[s]
              /\ (x4[s].pc \in Discovery!Asked \cup {"recheck"} => x6' = x6)
      BY <1>i, <2>1, <2>2, AloneInTurn
      DEF Becomes, Discovery!Awaiting, Discovery!Turn, Discovery!Asked
    <2>7. Discovery!RepliesAreOwn'
      BY <1>t, <1>i, <2>a, <2>b, <2>x, ReplyStays DEF Discovery!RepliesAreOwn
    <2>e. x12' \subseteq {x6'.connection} \cup {x11'.of}
      BY <1>t, <1>i, <2>1, <2>2, DiscoveryNothing DEF Discovery!ConnectionsAreKnown, Becomes
    <2>f. \A s \in Requests : x4'[s].pc = "connect" => ~ x6'.receiver
              /\ x11' = Discovery!NoDisposal
      <3>1. "connect" \in Discovery!Turn
        BY DEF Discovery!Turn, Discovery!Awaiting
      <3>2. ASSUME NEW s \in Requests \ {r}, x4'[s].pc = "connect"
            PROVE  ~ x6'.receiver /\ x11' = Discovery!NoDisposal
        <4>1. x4[s].pc = "connect" /\ ~ x6.receiver /\ x11 = Discovery!NoDisposal
          BY <1>i, <2>1, <2>2, <3>2 DEF Discovery!ConnectionsAreKnown, Becomes
        <4>2. QED
          BY <1>i, <2>1, <2>2, <3>1, <4>1, AloneInTurn DEF Discovery!Turn, Discovery!Awaiting
      <3>3. x4'[r].pc = "connect" => ~ x6'.receiver /\ x11' = Discovery!NoDisposal
        BY <1>i, <2>1, <2>2, DiscoveryNothing
        DEF Discovery!ConnectionsAreKnown, Discovery!Asked, Becomes
      <3>4. QED
        BY <3>2, <3>3
    <2>g. x13'.close \in {"drop", "done"} =>
          \A s \in Requests : x4'[s].pc \notin Discovery!Awaiting
      BY <1>i, <2>1, <2>2, AloneInTurn
      DEF Discovery!ConnectionsAreKnown, Discovery!Awaiting, Discovery!Turn, Becomes
    <2>h. x13'.close = "done" => x12' = {}
      BY <1>i, <2>1, <2>2 DEF Discovery!ConnectionsAreKnown, Discovery!Awaiting, Becomes
    <2>8. Discovery!ConnectionsAreKnown'
      BY <2>e, <2>f, <2>g, <2>h
      DEF Discovery!ConnectionsAreKnown, Discovery!NoDisposal, Discovery!Awaiting
    <2>9. QED
      BY <2>3, <2>4, <2>5, <2>6, <2>7, <2>8 DEF Discovery!DiscoveryInv
  <1>20. ASSUME NEW r \in Requests, Discovery!Identified(r), Discovery!Drop,
                Discovery!At(r, "renew")
        PROVE  Discovery!DiscoveryInv'
    <2>1. UNCHANGED <<x1, x2, x3, x5, x12, x13>> /\ x4[r].pc = "identity"
      BY <1>20 DEF Discovery!Identified, Discovery!Drop
    <2>2. Becomes(r, "renew", x4[r].want, x4[r].since, x4[r].reply)
      BY <1>20, <1>t, RequestBecomes DEF Discovery!Places, Discovery!Turn, Discovery!Awaiting
    <2>3. DropsIt
      BY <1>20, DropEffect
    <2>4. Discovery!DiscoveryTypes'
      BY <1>t, <2>1, <2>2, <2>3, DiscoveryNothing DEF Discovery!DiscoveryTypes, Becomes, DropsIt
    <2>5. Discovery!LockIsHeld'
      BY <1>i, <2>1, <2>2, <2>3, AloneInTurn, DiscoveryNothing
      DEF Discovery!LockIsHeld, Discovery!Turn, Discovery!Awaiting, Becomes, DropsIt
    <2>6. Discovery!OneConnection'
      BY <1>i, <2>1, <2>2, <2>3, DiscoveryNothing
      DEF Discovery!OneConnection, Discovery!NoDisposal, Discovery!Nothing, Becomes, DropsIt
    <2>7. Discovery!OneAnswer'
      BY <2>1, <2>2, <2>3 DEF Discovery!OneAnswer, DropsIt, Discovery!NoPending
    <2>x. x2' \in Nat /\ x2' >= x2
      BY <1>t, <2>1, DiscoveryFields
    <2>a. Discovery!ReplyIsOwn(r)'
      BY <1>i, <1>t, <2>1, <2>2, <2>3, DiscoveryFields, DiscoveryNothing
      DEF Discovery!RepliesAreOwn, Discovery!ReplyIsOwn, Discovery!Awaiting, Discovery!Asked,
          Discovery!NoAnswer, Becomes, DropsIt
    <2>b. \A s \in Requests \ {r} : x4'[s] = x4[s]
              /\ (x4[s].pc \in Discovery!Asked \cup {"recheck"} => x6' = x6)
      BY <1>i, <2>1, <2>2, <2>3, AloneInTurn
      DEF Becomes, Discovery!Awaiting, Discovery!Turn, Discovery!Asked
    <2>8. Discovery!RepliesAreOwn'
      BY <1>t, <1>i, <2>a, <2>b, <2>x, ReplyStays DEF Discovery!RepliesAreOwn
    <2>e. x12' \subseteq {x6'.connection} \cup {x11'.of}
      BY <1>t, <1>i, <2>1, <2>2, <2>3, DiscoveryNothing
      DEF Discovery!ConnectionsAreKnown, Becomes, DropsIt
    <2>f. \A s \in Requests : x4'[s].pc = "connect" => ~ x6'.receiver
              /\ x11' = Discovery!NoDisposal
      <3>1. "connect" \in Discovery!Turn
        BY DEF Discovery!Turn, Discovery!Awaiting
      <3>2. ASSUME NEW s \in Requests \ {r}, x4'[s].pc = "connect"
            PROVE  ~ x6'.receiver /\ x11' = Discovery!NoDisposal
        <4>1. x4[s].pc = "connect" /\ ~ x6.receiver /\ x11 = Discovery!NoDisposal
          BY <1>i, <2>1, <2>2, <2>3, <3>2 DEF Discovery!ConnectionsAreKnown, Becomes
        <4>2. QED
          BY <1>i, <2>1, <2>2, <2>3, <3>1, <4>1, AloneInTurn
          DEF Discovery!Turn, Discovery!Awaiting
      <3>3. x4'[r].pc = "connect" => ~ x6'.receiver /\ x11' = Discovery!NoDisposal
        BY <1>i, <2>1, <2>2, <2>3, DiscoveryNothing
        DEF Discovery!ConnectionsAreKnown, Discovery!Asked, Becomes, DropsIt
      <3>4. QED
        BY <3>2, <3>3
    <2>g. x13'.close \in {"drop", "done"} =>
          \A s \in Requests : x4'[s].pc \notin Discovery!Awaiting
      BY <1>i, <2>1, <2>2, <2>3, AloneInTurn
      DEF Discovery!ConnectionsAreKnown, Discovery!Awaiting, Discovery!Turn, Becomes, DropsIt
    <2>h. x13'.close = "done" => x12' = {}
      BY <1>i, <2>1, <2>2, <2>3
      DEF Discovery!ConnectionsAreKnown, Discovery!Awaiting, Becomes, DropsIt
    <2>9. Discovery!ConnectionsAreKnown'
      BY <2>e, <2>f, <2>g, <2>h
      DEF Discovery!ConnectionsAreKnown, Discovery!NoDisposal, Discovery!Awaiting
    <2>10. QED
      BY <2>4, <2>5, <2>6, <2>7, <2>8, <2>9 DEF Discovery!DiscoveryInv
  <1>21. ASSUME NEW r \in Requests, NEW kind \in Discovery!Asked, x4[r].pc = "identity",
               x6.profile = x4[r].want, ~ x7, Discovery!Send(r, kind),
                     UNCHANGED <<x1, x2, x3, x5, x6, x7, x10, x11, x12, x13>>
        PROVE  Discovery!DiscoveryInv'
    <2>1. UNCHANGED <<x1, x2, x3, x5, x6, x7, x10, x11, x12, x13>> /\ x4[r].pc = "identity"
              /\ ~ x7 /\ x6.profile = x4[r].want
      BY <1>21
    <2>2. x4[r].want \in Profiles /\ x4[r].reply = Discovery!NoAnswer
      BY <1>i, <2>1 DEF Discovery!RepliesAreOwn, Discovery!ReplyIsOwn, Discovery!Awaiting
    <2>3. x6.receiver
      BY <1>i, <2>1, <2>2, DiscoveryNothing DEF Discovery!OneConnection
    <2>4. x9 = <<>> /\ x10 = <<>>
      BY <1>i, <2>1, AloneInTurn
      DEF Discovery!OneAnswer, Discovery!Asked, Discovery!Turn, Discovery!Awaiting
    <2>5. x9' = <<kind>> /\ x8' = [by |-> r, kind |-> kind]
      BY <1>21, <2>4 DEF Discovery!Send
    <2>6. x8' \in Discovery!PendingRecords /\ x8'.by = r /\ x8'.kind = kind
      BY <2>5 DEF Discovery!PendingRecords
    <2>7. Becomes(r, kind, x4[r].want, x4[r].since, x4[r].reply)
      BY <1>21, <1>t, RequestBecomes
      DEF Discovery!Send, Discovery!Places, Discovery!Turn, Discovery!Awaiting, Discovery!Asked
    <2>8. Discovery!DiscoveryTypes'
      BY <1>t, <2>1, <2>2, <2>3, <2>4, <2>5, <2>6, <2>7, DiscoveryNothing
      DEF Discovery!DiscoveryTypes, Becomes
    <2>9. Discovery!LockIsHeld'
      BY <1>i, <2>1, <2>2, <2>3, <2>4, <2>5, <2>6, <2>7, AloneInTurn, DiscoveryNothing
      DEF Discovery!LockIsHeld, Discovery!Turn, Discovery!Awaiting, Becomes
    <2>10. Discovery!OneConnection'
      BY <1>i, <2>1, <2>2, <2>3, <2>4, <2>5, <2>6, <2>7, DiscoveryNothing
      DEF Discovery!OneConnection, Discovery!NoDisposal, Discovery!Nothing, Becomes
    <2>11. Discovery!OneAnswer'
      BY <2>1, <2>2, <2>3, <2>4, <2>5, <2>6, <2>7
      DEF Discovery!OneAnswer, Discovery!OnItsWay, Becomes
    <2>x. x2' \in Nat /\ x2' >= x2
      BY <1>t, <2>1, DiscoveryFields
    <2>a. Discovery!ReplyIsOwn(r)'
      BY <1>i, <1>t, <2>1, <2>2, <2>3, <2>4, <2>5, <2>6, <2>7, DiscoveryFields, DiscoveryNothing
      DEF Discovery!RepliesAreOwn, Discovery!ReplyIsOwn, Discovery!Awaiting, Discovery!Asked,
          Discovery!NoAnswer, Becomes
    <2>b. \A s \in Requests \ {r} : x4'[s] = x4[s]
              /\ (x4[s].pc \in Discovery!Asked \cup {"recheck"} => x6' = x6)
      BY <1>i, <2>1, <2>2, <2>3, <2>4, <2>5, <2>6, <2>7, AloneInTurn
      DEF Becomes, Discovery!Awaiting, Discovery!Turn, Discovery!Asked
    <2>12. Discovery!RepliesAreOwn'
      BY <1>t, <1>i, <2>a, <2>b, <2>x, ReplyStays DEF Discovery!RepliesAreOwn
    <2>e. x12' \subseteq {x6'.connection} \cup {x11'.of}
      BY <1>t, <1>i, <2>1, <2>2, <2>3, <2>4, <2>5, <2>6, <2>7, DiscoveryNothing
      DEF Discovery!ConnectionsAreKnown, Becomes
    <2>f. \A s \in Requests : x4'[s].pc = "connect" => ~ x6'.receiver
              /\ x11' = Discovery!NoDisposal
      <3>1. "connect" \in Discovery!Turn
        BY DEF Discovery!Turn, Discovery!Awaiting
      <3>2. ASSUME NEW s \in Requests \ {r}, x4'[s].pc = "connect"
            PROVE  ~ x6'.receiver /\ x11' = Discovery!NoDisposal
        <4>1. x4[s].pc = "connect" /\ ~ x6.receiver /\ x11 = Discovery!NoDisposal
          BY <1>i, <2>1, <2>2, <2>3, <2>4, <2>5, <2>6, <2>7, <3>2
          DEF Discovery!ConnectionsAreKnown, Becomes
        <4>2. QED
          BY <1>i, <2>1, <2>2, <2>3, <2>4, <2>5, <2>6, <2>7, <3>1, <4>1, AloneInTurn
          DEF Discovery!Turn, Discovery!Awaiting
      <3>3. x4'[r].pc = "connect" => ~ x6'.receiver /\ x11' = Discovery!NoDisposal
        BY <1>i, <2>1, <2>2, <2>3, <2>4, <2>5, <2>6, <2>7, DiscoveryNothing
        DEF Discovery!ConnectionsAreKnown, Discovery!Asked, Becomes
      <3>4. QED
        BY <3>2, <3>3
    <2>g. x13'.close \in {"drop", "done"} =>
          \A s \in Requests : x4'[s].pc \notin Discovery!Awaiting
      BY <1>i, <2>1, <2>2, <2>3, <2>4, <2>5, <2>6, <2>7, AloneInTurn
      DEF Discovery!ConnectionsAreKnown, Discovery!Awaiting, Discovery!Turn, Becomes
    <2>h. x13'.close = "done" => x12' = {}
      BY <1>i, <2>1, <2>2, <2>3, <2>4, <2>5, <2>6, <2>7
      DEF Discovery!ConnectionsAreKnown, Discovery!Awaiting, Becomes
    <2>13. Discovery!ConnectionsAreKnown'
      BY <2>e, <2>f, <2>g, <2>h
      DEF Discovery!ConnectionsAreKnown, Discovery!NoDisposal, Discovery!Awaiting
    <2>14. QED
      BY <2>8, <2>9, <2>10, <2>11, <2>12, <2>13 DEF Discovery!DiscoveryInv
  <1>22. ASSUME NEW r \in Requests, Discovery!Dial(r)
        PROVE  Discovery!DiscoveryInv'
    <2>1. UNCHANGED <<x1, x2, x3, x5, x7, x8, x9, x10, x13>> /\ x4[r].pc = "renew"
      BY <1>22 DEF Discovery!Dial
    <2>2. x11.st = "done" /\ x11' = Discovery!NoDisposal
      BY <1>22 DEF Discovery!Dial, Discovery!Disposed
    <2>3. PICK c \in Connections \ x12 : x6' = [x6 EXCEPT !.connection = c] /\ x12' = x12 \cup {c}
      BY <1>22 DEF Discovery!Dial
    <2>4. Becomes(r, "connect", x4[r].want, x4[r].since, x4[r].reply)
      BY <1>22, <1>t, RequestBecomes
      DEF Discovery!Dial, Discovery!Places, Discovery!Turn, Discovery!Awaiting
    <2>5. x6 = Discovery!Nothing /\ x12 = {} /\ x7 = FALSE /\ x9 = <<>> /\ x10 = <<>>
      BY <2>2, NothingOpen
    <2>6. /\ x6'.connection = c /\ ~ x6'.receiver /\ x6'.profile = NoIdentity
              /\ x6' \in Discovery!HeldRecords
      BY <2>3, <2>5 DEF Discovery!Nothing, Discovery!HeldRecords
    <2>7. Discovery!DiscoveryTypes'
      BY <1>t, <2>1, <2>2, <2>3, <2>4, <2>5, <2>6, DiscoveryNothing
      DEF Discovery!DiscoveryTypes, Becomes
    <2>8. Discovery!LockIsHeld'
      BY <1>i, <2>1, <2>2, <2>3, <2>4, <2>5, <2>6, AloneInTurn, DiscoveryNothing
      DEF Discovery!LockIsHeld, Discovery!Turn, Discovery!Awaiting, Becomes
    <2>9. Discovery!OneConnection'
      BY <1>i, <2>1, <2>2, <2>3, <2>4, <2>5, <2>6, DiscoveryNothing DEF Discovery!OneConnection
    <2>c. x8.by # r
      BY <1>i, <2>1, <2>2, <2>3, <2>4, <2>5, <2>6, DiscoveryNothing
      DEF Discovery!OneAnswer, Discovery!Asked, Discovery!Awaiting
    <2>10. Discovery!OneAnswer'
      BY <1>t, <1>i, <2>c, <2>1, <2>2, <2>3, <2>4, <2>5, <2>6, DiscoveryFields, AnswerOfOthers
      DEF Becomes
    <2>x. x2' \in Nat /\ x2' >= x2
      BY <1>t, <2>1, DiscoveryFields
    <2>a. Discovery!ReplyIsOwn(r)'
      BY <1>i, <1>t, <2>1, <2>2, <2>3, <2>4, <2>5, <2>6, DiscoveryFields, DiscoveryNothing
      DEF Discovery!RepliesAreOwn, Discovery!ReplyIsOwn, Discovery!Awaiting, Discovery!Asked,
          Discovery!NoAnswer, Becomes
    <2>b. \A s \in Requests \ {r} : x4'[s] = x4[s]
              /\ (x4[s].pc \in Discovery!Asked \cup {"recheck"} => x6' = x6)
      BY <1>i, <2>1, <2>2, <2>3, <2>4, <2>5, <2>6, AloneInTurn
      DEF Becomes, Discovery!Awaiting, Discovery!Turn, Discovery!Asked
    <2>11. Discovery!RepliesAreOwn'
      BY <1>t, <1>i, <2>a, <2>b, <2>x, ReplyStays DEF Discovery!RepliesAreOwn
    <2>e. x12' \subseteq {x6'.connection} \cup {x11'.of}
      BY <1>t, <1>i, <2>1, <2>2, <2>3, <2>4, <2>5, <2>6, DiscoveryNothing
      DEF Discovery!ConnectionsAreKnown, Becomes
    <2>f. \A s \in Requests : x4'[s].pc = "connect" => ~ x6'.receiver
              /\ x11' = Discovery!NoDisposal
      <3>1. "connect" \in Discovery!Turn
        BY DEF Discovery!Turn, Discovery!Awaiting
      <3>2. ASSUME NEW s \in Requests \ {r}, x4'[s].pc = "connect"
            PROVE  ~ x6'.receiver /\ x11' = Discovery!NoDisposal
        <4>1. x4[s].pc = "connect" /\ ~ x6.receiver /\ x11 = Discovery!NoDisposal
          BY <1>i, <2>1, <2>2, <2>3, <2>4, <2>5, <2>6, <3>2
          DEF Discovery!ConnectionsAreKnown, Becomes
        <4>2. QED
          BY <1>i, <2>1, <2>2, <2>3, <2>4, <2>5, <2>6, <3>1, <4>1, AloneInTurn
          DEF Discovery!Turn, Discovery!Awaiting
      <3>3. x4'[r].pc = "connect" => ~ x6'.receiver /\ x11' = Discovery!NoDisposal
        BY <1>i, <2>1, <2>2, <2>3, <2>4, <2>5, <2>6, DiscoveryNothing
        DEF Discovery!ConnectionsAreKnown, Discovery!Asked, Becomes
      <3>4. QED
        BY <3>2, <3>3
    <2>g. x13'.close \in {"drop", "done"} =>
          \A s \in Requests : x4'[s].pc \notin Discovery!Awaiting
      BY <1>i, <2>1, <2>2, <2>3, <2>4, <2>5, <2>6, AloneInTurn
      DEF Discovery!ConnectionsAreKnown, Discovery!Awaiting, Discovery!Turn, Becomes
    <2>h. x13'.close = "done" => x12' = {}
      BY <1>i, <2>1, <2>2, <2>3, <2>4, <2>5, <2>6
      DEF Discovery!ConnectionsAreKnown, Discovery!Awaiting, Becomes
    <2>12. Discovery!ConnectionsAreKnown'
      BY <2>e, <2>f, <2>g, <2>h
      DEF Discovery!ConnectionsAreKnown, Discovery!NoDisposal, Discovery!Awaiting
    <2>13. QED
      BY <2>7, <2>8, <2>9, <2>10, <2>11, <2>12 DEF Discovery!DiscoveryInv
  <1>23. ASSUME NEW r \in Requests, Discovery!Connected(r)
        PROVE  Discovery!DiscoveryInv'
    <2>1. UNCHANGED <<x1, x2, x3, x5, x7, x10, x11, x12>> /\ x4[r].pc = "connect"
      BY <1>23 DEF Discovery!Connected
    <2>2. PICK kind \in Discovery!Asked : kind = Discovery!First(r)
      BY DEF Discovery!First, Discovery!Asked
    <2>3. x4[r].want \in Profiles /\ x4[r].reply = Discovery!NoAnswer
      BY <1>i, <2>1 DEF Discovery!RepliesAreOwn, Discovery!ReplyIsOwn, Discovery!Awaiting
    <2>4. /\ x6' \in Discovery!HeldRecords /\ x6'.receiver /\ x6'.profile = x4[r].want
          /\ x6'.connection = x6.connection
      BY <1>23, <1>t, <2>3
      DEF Discovery!Connected, Discovery!DiscoveryTypes, Discovery!HeldRecords
    <2>5. /\ x13' \in Discovery!OwnerRecords /\ x13'.close = x13.close
          /\ x13'.idle \in {x13.idle, "asleep"}
      BY <1>23, <1>t DEF Discovery!Connected, Discovery!DiscoveryTypes, Discovery!OwnerRecords
    <2>6. x8' = [by |-> r, kind |-> kind] /\ x9' = Append(x9, kind)
      BY <1>23, <2>2 DEF Discovery!Connected, Discovery!Send
    <2>7. Becomes(r, kind, x4[r].want, x4[r].since, x4[r].reply)
      BY <1>23, <1>t, <2>2, RequestBecomes
      DEF Discovery!Connected, Discovery!Send, Discovery!Places, Discovery!Turn,
          Discovery!Awaiting, Discovery!Asked
    <2>8. x8' \in Discovery!PendingRecords /\ x8'.by = r /\ x8'.kind = kind
      BY <2>6 DEF Discovery!PendingRecords
    <2>9. ~ x6.receiver /\ x11 = Discovery!NoDisposal
      BY <1>i, <2>1 DEF Discovery!ConnectionsAreKnown
    <2>10. x9 = <<>> /\ x10 = <<>> /\ ~ x7
      BY <1>i, <2>9 DEF Discovery!OneConnection
    <2>11. x9' = <<kind>>
      BY <2>6, <2>10
    <2>12. Discovery!DiscoveryTypes'
      BY <1>t, <2>1, <2>2, <2>3, <2>4, <2>5, <2>6, <2>7, <2>8, <2>9, <2>10, <2>11,
         DiscoveryNothing DEF Discovery!DiscoveryTypes, Becomes
    <2>13. Discovery!LockIsHeld'
      BY <1>i, <2>1, <2>2, <2>3, <2>4, <2>5, <2>6, <2>7, <2>8, <2>9, <2>10, <2>11, AloneInTurn,
         DiscoveryNothing DEF Discovery!LockIsHeld, Discovery!Turn, Discovery!Awaiting, Becomes
    <2>14. Discovery!OneConnection'
      BY <1>i, <2>1, <2>2, <2>3, <2>4, <2>5, <2>6, <2>7, <2>8, <2>9, <2>10, <2>11,
         DiscoveryNothing
         DEF Discovery!OneConnection, Discovery!NoDisposal, Discovery!Nothing, Becomes
    <2>15. Discovery!OneAnswer'
      BY <2>1, <2>2, <2>3, <2>4, <2>5, <2>6, <2>7, <2>8, <2>9, <2>10, <2>11
      DEF Discovery!OneAnswer, Discovery!OnItsWay, Becomes
    <2>x. x2' \in Nat /\ x2' >= x2
      BY <1>t, <2>1, DiscoveryFields
    <2>a. Discovery!ReplyIsOwn(r)'
      BY <1>i, <1>t, <2>1, <2>2, <2>3, <2>4, <2>5, <2>6, <2>7, <2>8, <2>9, <2>10, <2>11,
         DiscoveryFields, DiscoveryNothing
         DEF Discovery!RepliesAreOwn, Discovery!ReplyIsOwn, Discovery!Awaiting, Discovery!Asked,
             Discovery!NoAnswer, Becomes
    <2>b. \A s \in Requests \ {r} : x4'[s] = x4[s]
              /\ (x4[s].pc \in Discovery!Asked \cup {"recheck"} => x6' = x6)
      BY <1>i, <2>1, <2>2, <2>3, <2>4, <2>5, <2>6, <2>7, <2>8, <2>9, <2>10, <2>11, AloneInTurn
      DEF Becomes, Discovery!Awaiting, Discovery!Turn, Discovery!Asked
    <2>16. Discovery!RepliesAreOwn'
      BY <1>t, <1>i, <2>a, <2>b, <2>x, ReplyStays DEF Discovery!RepliesAreOwn
    <2>e. x12' \subseteq {x6'.connection} \cup {x11'.of}
      BY <1>t, <1>i, <2>1, <2>2, <2>3, <2>4, <2>5, <2>6, <2>7, <2>8, <2>9, <2>10, <2>11,
         DiscoveryNothing DEF Discovery!ConnectionsAreKnown, Becomes
    <2>f. \A s \in Requests : x4'[s].pc = "connect" => ~ x6'.receiver
              /\ x11' = Discovery!NoDisposal
      <3>1. "connect" \in Discovery!Turn
        BY DEF Discovery!Turn, Discovery!Awaiting
      <3>2. ASSUME NEW s \in Requests \ {r}, x4'[s].pc = "connect"
            PROVE  ~ x6'.receiver /\ x11' = Discovery!NoDisposal
        <4>1. x4[s].pc = "connect" /\ ~ x6.receiver /\ x11 = Discovery!NoDisposal
          BY <1>i, <2>1, <2>2, <2>3, <2>4, <2>5, <2>6, <2>7, <2>8, <2>9, <2>10, <2>11, <3>2
          DEF Discovery!ConnectionsAreKnown, Becomes
        <4>2. QED
          BY <1>i, <2>1, <2>2, <2>3, <2>4, <2>5, <2>6, <2>7, <2>8, <2>9, <2>10, <2>11, <3>1, <4>1,
             AloneInTurn DEF Discovery!Turn, Discovery!Awaiting
      <3>3. x4'[r].pc = "connect" => ~ x6'.receiver /\ x11' = Discovery!NoDisposal
        BY <1>i, <2>1, <2>2, <2>3, <2>4, <2>5, <2>6, <2>7, <2>8, <2>9, <2>10, <2>11,
           DiscoveryNothing DEF Discovery!ConnectionsAreKnown, Discovery!Asked, Becomes
      <3>4. QED
        BY <3>2, <3>3
    <2>g. x13'.close \in {"drop", "done"} =>
          \A s \in Requests : x4'[s].pc \notin Discovery!Awaiting
      BY <1>i, <2>1, <2>2, <2>3, <2>4, <2>5, <2>6, <2>7, <2>8, <2>9, <2>10, <2>11, AloneInTurn
      DEF Discovery!ConnectionsAreKnown, Discovery!Awaiting, Discovery!Turn, Becomes
    <2>h. x13'.close = "done" => x12' = {}
      BY <1>i, <2>1, <2>2, <2>3, <2>4, <2>5, <2>6, <2>7, <2>8, <2>9, <2>10, <2>11
      DEF Discovery!ConnectionsAreKnown, Discovery!Awaiting, Becomes
    <2>17. Discovery!ConnectionsAreKnown'
      BY <2>e, <2>f, <2>g, <2>h
      DEF Discovery!ConnectionsAreKnown, Discovery!NoDisposal, Discovery!Awaiting
    <2>18. QED
      BY <2>12, <2>13, <2>14, <2>15, <2>16, <2>17 DEF Discovery!DiscoveryInv
  <1>24. ASSUME NEW r \in Requests, Discovery!Marked(r), x3 = x4[r].reply
        PROVE  Discovery!DiscoveryInv'
    <2>1. UNCHANGED <<x1, x2, x3, x5, x6, x7, x8, x9, x10, x11, x12, x13>> /\ x4[r].pc = "marker"
              /\ x4[r].reply # Discovery!NoAnswer
      BY <1>24 DEF Discovery!Marked
    <2>2. Becomes(r, "recheck", x4[r].want, x4[r].since, x4[r].reply)
      BY <1>24, <1>t, RequestBecomes
      DEF Discovery!Marked, Discovery!Places, Discovery!Turn, Discovery!Awaiting
    <2>3. Discovery!DiscoveryTypes'
      BY <1>t, <2>1, <2>2, DiscoveryNothing DEF Discovery!DiscoveryTypes, Becomes
    <2>4. Discovery!LockIsHeld'
      BY <1>i, <2>1, <2>2, AloneInTurn, DiscoveryNothing
      DEF Discovery!LockIsHeld, Discovery!Turn, Discovery!Awaiting, Becomes
    <2>5. Discovery!OneConnection'
      BY <1>i, <2>1, <2>2, DiscoveryNothing
      DEF Discovery!OneConnection, Discovery!NoDisposal, Discovery!Nothing, Becomes
    <2>c. x8.by # r
      BY <1>i, <2>1, <2>2, DiscoveryNothing
      DEF Discovery!OneAnswer, Discovery!Asked, Discovery!Awaiting
    <2>6. Discovery!OneAnswer'
      BY <1>t, <1>i, <2>c, <2>1, <2>2, DiscoveryFields, AnswerOfOthers DEF Becomes
    <2>x. x2' \in Nat /\ x2' >= x2
      BY <1>t, <2>1, DiscoveryFields
    <2>a. Discovery!ReplyIsOwn(r)'
      BY <1>i, <1>t, <2>1, <2>2, DiscoveryFields, DiscoveryNothing
      DEF Discovery!RepliesAreOwn, Discovery!ReplyIsOwn, Discovery!Awaiting, Discovery!Asked,
          Discovery!NoAnswer, Becomes
    <2>b. \A s \in Requests \ {r} : x4'[s] = x4[s]
              /\ (x4[s].pc \in Discovery!Asked \cup {"recheck"} => x6' = x6)
      BY <1>i, <2>1, <2>2, AloneInTurn
      DEF Becomes, Discovery!Awaiting, Discovery!Turn, Discovery!Asked
    <2>7. Discovery!RepliesAreOwn'
      BY <1>t, <1>i, <2>a, <2>b, <2>x, ReplyStays DEF Discovery!RepliesAreOwn
    <2>e. x12' \subseteq {x6'.connection} \cup {x11'.of}
      BY <1>t, <1>i, <2>1, <2>2, DiscoveryNothing DEF Discovery!ConnectionsAreKnown, Becomes
    <2>f. \A s \in Requests : x4'[s].pc = "connect" => ~ x6'.receiver
              /\ x11' = Discovery!NoDisposal
      <3>1. "connect" \in Discovery!Turn
        BY DEF Discovery!Turn, Discovery!Awaiting
      <3>2. ASSUME NEW s \in Requests \ {r}, x4'[s].pc = "connect"
            PROVE  ~ x6'.receiver /\ x11' = Discovery!NoDisposal
        <4>1. x4[s].pc = "connect" /\ ~ x6.receiver /\ x11 = Discovery!NoDisposal
          BY <1>i, <2>1, <2>2, <3>2 DEF Discovery!ConnectionsAreKnown, Becomes
        <4>2. QED
          BY <1>i, <2>1, <2>2, <3>1, <4>1, AloneInTurn DEF Discovery!Turn, Discovery!Awaiting
      <3>3. x4'[r].pc = "connect" => ~ x6'.receiver /\ x11' = Discovery!NoDisposal
        BY <1>i, <2>1, <2>2, DiscoveryNothing
        DEF Discovery!ConnectionsAreKnown, Discovery!Asked, Becomes
      <3>4. QED
        BY <3>2, <3>3
    <2>g. x13'.close \in {"drop", "done"} =>
          \A s \in Requests : x4'[s].pc \notin Discovery!Awaiting
      BY <1>i, <2>1, <2>2, AloneInTurn
      DEF Discovery!ConnectionsAreKnown, Discovery!Awaiting, Discovery!Turn, Becomes
    <2>h. x13'.close = "done" => x12' = {}
      BY <1>i, <2>1, <2>2 DEF Discovery!ConnectionsAreKnown, Discovery!Awaiting, Becomes
    <2>8. Discovery!ConnectionsAreKnown'
      BY <2>e, <2>f, <2>g, <2>h
      DEF Discovery!ConnectionsAreKnown, Discovery!NoDisposal, Discovery!Awaiting
    <2>9. QED
      BY <2>3, <2>4, <2>5, <2>6, <2>7, <2>8 DEF Discovery!DiscoveryInv
  <1>25. ASSUME NEW r \in Requests, Discovery!Marked(r), x3 # x4[r].reply
        PROVE  Discovery!DiscoveryInv'
    <2>1. UNCHANGED <<x1, x2, x3, x5, x6, x7, x10, x11, x12, x13>> /\ x4[r].pc = "marker"
              /\ x4[r].reply # Discovery!NoAnswer /\ ~ x7
          /\ x4' = [x4 EXCEPT ![r].pc = "structure", ![r].reply = Discovery!NoAnswer]
      BY <1>25 DEF Discovery!Marked
    <2>2. x9 = <<>> /\ x10 = <<>> /\ x6.receiver
      BY <1>i, <2>1, AloneInTurn
      DEF Discovery!OneAnswer, Discovery!RepliesAreOwn, Discovery!ReplyIsOwn, Discovery!Asked,
          Discovery!Turn, Discovery!Awaiting
    <2>3. x8' = [by |-> r, kind |-> "structure"] /\ x9' = <<"structure">>
      BY <1>25, <2>2 DEF Discovery!Marked
    <2>4. x8' \in Discovery!PendingRecords /\ x8'.by = r /\ x8'.kind = "structure"
              /\ x8'.kind \in Discovery!Asked
      BY <2>3 DEF Discovery!PendingRecords, Discovery!Asked
    <2>5. Becomes(r, "structure", x4[r].want, x4[r].since, Discovery!NoAnswer)
      <3> DEFINE new == [x4[r] EXCEPT !.pc = "structure", !.reply = Discovery!NoAnswer]
      <3>1. x4[r] \in Discovery!RequestRecords /\ x4 \in [Requests -> Discovery!RequestRecords]
        BY <1>t DEF Discovery!DiscoveryTypes
      <3>2. /\ new \in Discovery!RequestRecords /\ new.pc = "structure" /\ new.want = x4[r].want
            /\ new.since = x4[r].since /\ new.reply = Discovery!NoAnswer
        BY <3>1, DiscoveryNothing
        DEF Discovery!RequestRecords, Discovery!Places, Discovery!Turn, Discovery!Awaiting
      <3>3. x4' = [x4 EXCEPT ![r] = new]
        BY <2>1, <3>1
      <3> HIDE DEF new
      <3>4. QED
        BY <3>1, <3>2, <3>3 DEF Becomes
    <2>6. Discovery!DiscoveryTypes'
      BY <1>t, <2>1, <2>2, <2>3, <2>4, <2>5, DiscoveryNothing
      DEF Discovery!DiscoveryTypes, Becomes
    <2>7. Discovery!LockIsHeld'
      BY <1>i, <2>1, <2>2, <2>3, <2>4, <2>5, AloneInTurn, DiscoveryNothing
      DEF Discovery!LockIsHeld, Discovery!Turn, Discovery!Awaiting, Becomes
    <2>8. Discovery!OneConnection'
      BY <1>i, <2>1, <2>2, <2>3, <2>4, <2>5, DiscoveryNothing
      DEF Discovery!OneConnection, Discovery!NoDisposal, Discovery!Nothing, Becomes
    <2>9. Discovery!OneAnswer'
      BY <2>1, <2>2, <2>3, <2>4, <2>5 DEF Discovery!OneAnswer, Discovery!OnItsWay, Becomes
    <2>x. x2' \in Nat /\ x2' >= x2
      BY <1>t, <2>1, DiscoveryFields
    <2>a. Discovery!ReplyIsOwn(r)'
      BY <1>i, <1>t, <2>1, <2>2, <2>3, <2>4, <2>5, DiscoveryFields, DiscoveryNothing
      DEF Discovery!RepliesAreOwn, Discovery!ReplyIsOwn, Discovery!Awaiting, Discovery!Asked,
          Discovery!NoAnswer, Becomes
    <2>b. \A s \in Requests \ {r} : x4'[s] = x4[s]
              /\ (x4[s].pc \in Discovery!Asked \cup {"recheck"} => x6' = x6)
      BY <1>i, <2>1, <2>2, <2>3, <2>4, <2>5, AloneInTurn
      DEF Becomes, Discovery!Awaiting, Discovery!Turn, Discovery!Asked
    <2>10. Discovery!RepliesAreOwn'
      BY <1>t, <1>i, <2>a, <2>b, <2>x, ReplyStays DEF Discovery!RepliesAreOwn
    <2>e. x12' \subseteq {x6'.connection} \cup {x11'.of}
      BY <1>t, <1>i, <2>1, <2>2, <2>3, <2>4, <2>5, DiscoveryNothing
      DEF Discovery!ConnectionsAreKnown, Becomes
    <2>f. \A s \in Requests : x4'[s].pc = "connect" => ~ x6'.receiver
              /\ x11' = Discovery!NoDisposal
      <3>1. "connect" \in Discovery!Turn
        BY DEF Discovery!Turn, Discovery!Awaiting
      <3>2. ASSUME NEW s \in Requests \ {r}, x4'[s].pc = "connect"
            PROVE  ~ x6'.receiver /\ x11' = Discovery!NoDisposal
        <4>1. x4[s].pc = "connect" /\ ~ x6.receiver /\ x11 = Discovery!NoDisposal
          BY <1>i, <2>1, <2>2, <2>3, <2>4, <2>5, <3>2 DEF Discovery!ConnectionsAreKnown, Becomes
        <4>2. QED
          BY <1>i, <2>1, <2>2, <2>3, <2>4, <2>5, <3>1, <4>1, AloneInTurn
          DEF Discovery!Turn, Discovery!Awaiting
      <3>3. x4'[r].pc = "connect" => ~ x6'.receiver /\ x11' = Discovery!NoDisposal
        BY <1>i, <2>1, <2>2, <2>3, <2>4, <2>5, DiscoveryNothing
        DEF Discovery!ConnectionsAreKnown, Discovery!Asked, Becomes
      <3>4. QED
        BY <3>2, <3>3
    <2>g. x13'.close \in {"drop", "done"} =>
          \A s \in Requests : x4'[s].pc \notin Discovery!Awaiting
      BY <1>i, <2>1, <2>2, <2>3, <2>4, <2>5, AloneInTurn
      DEF Discovery!ConnectionsAreKnown, Discovery!Awaiting, Discovery!Turn, Becomes
    <2>h. x13'.close = "done" => x12' = {}
      BY <1>i, <2>1, <2>2, <2>3, <2>4, <2>5
      DEF Discovery!ConnectionsAreKnown, Discovery!Awaiting, Becomes
    <2>11. Discovery!ConnectionsAreKnown'
      BY <2>e, <2>f, <2>g, <2>h
      DEF Discovery!ConnectionsAreKnown, Discovery!NoDisposal, Discovery!Awaiting
    <2>12. QED
      BY <2>6, <2>7, <2>8, <2>9, <2>10, <2>11 DEF Discovery!DiscoveryInv
  <1>26. ASSUME NEW r \in Requests, Discovery!Loaded(r)
        PROVE  Discovery!DiscoveryInv'
    <2>1. UNCHANGED <<x1, x2, x3, x5, x6, x7, x8, x9, x10, x11, x12, x13>>
              /\ x4[r].pc = "structure" /\ x4[r].reply # Discovery!NoAnswer
      BY <1>26 DEF Discovery!Loaded
    <2>2. Becomes(r, "recheck", x4[r].want, x4[r].since, x4[r].reply)
      BY <1>26, <1>t, RequestBecomes
      DEF Discovery!Loaded, Discovery!Places, Discovery!Turn, Discovery!Awaiting
    <2>3. Discovery!DiscoveryTypes'
      BY <1>t, <2>1, <2>2, DiscoveryNothing DEF Discovery!DiscoveryTypes, Becomes
    <2>4. Discovery!LockIsHeld'
      BY <1>i, <2>1, <2>2, AloneInTurn, DiscoveryNothing
      DEF Discovery!LockIsHeld, Discovery!Turn, Discovery!Awaiting, Becomes
    <2>5. Discovery!OneConnection'
      BY <1>i, <2>1, <2>2, DiscoveryNothing
      DEF Discovery!OneConnection, Discovery!NoDisposal, Discovery!Nothing, Becomes
    <2>c. x8.by # r
      BY <1>i, <2>1, <2>2, DiscoveryNothing
      DEF Discovery!OneAnswer, Discovery!Asked, Discovery!Awaiting
    <2>6. Discovery!OneAnswer'
      BY <1>t, <1>i, <2>c, <2>1, <2>2, DiscoveryFields, AnswerOfOthers DEF Becomes
    <2>x. x2' \in Nat /\ x2' >= x2
      BY <1>t, <2>1, DiscoveryFields
    <2>a. Discovery!ReplyIsOwn(r)'
      BY <1>i, <1>t, <2>1, <2>2, DiscoveryFields, DiscoveryNothing
      DEF Discovery!RepliesAreOwn, Discovery!ReplyIsOwn, Discovery!Awaiting, Discovery!Asked,
          Discovery!NoAnswer, Becomes
    <2>b. \A s \in Requests \ {r} : x4'[s] = x4[s]
              /\ (x4[s].pc \in Discovery!Asked \cup {"recheck"} => x6' = x6)
      BY <1>i, <2>1, <2>2, AloneInTurn
      DEF Becomes, Discovery!Awaiting, Discovery!Turn, Discovery!Asked
    <2>7. Discovery!RepliesAreOwn'
      BY <1>t, <1>i, <2>a, <2>b, <2>x, ReplyStays DEF Discovery!RepliesAreOwn
    <2>e. x12' \subseteq {x6'.connection} \cup {x11'.of}
      BY <1>t, <1>i, <2>1, <2>2, DiscoveryNothing DEF Discovery!ConnectionsAreKnown, Becomes
    <2>f. \A s \in Requests : x4'[s].pc = "connect" => ~ x6'.receiver
              /\ x11' = Discovery!NoDisposal
      <3>1. "connect" \in Discovery!Turn
        BY DEF Discovery!Turn, Discovery!Awaiting
      <3>2. ASSUME NEW s \in Requests \ {r}, x4'[s].pc = "connect"
            PROVE  ~ x6'.receiver /\ x11' = Discovery!NoDisposal
        <4>1. x4[s].pc = "connect" /\ ~ x6.receiver /\ x11 = Discovery!NoDisposal
          BY <1>i, <2>1, <2>2, <3>2 DEF Discovery!ConnectionsAreKnown, Becomes
        <4>2. QED
          BY <1>i, <2>1, <2>2, <3>1, <4>1, AloneInTurn DEF Discovery!Turn, Discovery!Awaiting
      <3>3. x4'[r].pc = "connect" => ~ x6'.receiver /\ x11' = Discovery!NoDisposal
        BY <1>i, <2>1, <2>2, DiscoveryNothing
        DEF Discovery!ConnectionsAreKnown, Discovery!Asked, Becomes
      <3>4. QED
        BY <3>2, <3>3
    <2>g. x13'.close \in {"drop", "done"} =>
          \A s \in Requests : x4'[s].pc \notin Discovery!Awaiting
      BY <1>i, <2>1, <2>2, AloneInTurn
      DEF Discovery!ConnectionsAreKnown, Discovery!Awaiting, Discovery!Turn, Becomes
    <2>h. x13'.close = "done" => x12' = {}
      BY <1>i, <2>1, <2>2 DEF Discovery!ConnectionsAreKnown, Discovery!Awaiting, Becomes
    <2>8. Discovery!ConnectionsAreKnown'
      BY <2>e, <2>f, <2>g, <2>h
      DEF Discovery!ConnectionsAreKnown, Discovery!NoDisposal, Discovery!Awaiting
    <2>9. QED
      BY <2>3, <2>4, <2>5, <2>6, <2>7, <2>8 DEF Discovery!DiscoveryInv
  <1>27. ASSUME NEW r \in Requests, Discovery!Recheck(r)
        PROVE  Discovery!DiscoveryInv'
    <2>1. UNCHANGED <<x1, x2, x3, x6, x7, x8, x9, x10, x11, x12, x13>> /\ x4[r].pc = "recheck"
              /\ x5' = Nobody
      BY <1>27 DEF Discovery!Recheck
    <2>2. Becomes(r, "answered", x4[r].want, x4[r].since, x4[r].reply)
      BY <1>27, <1>t, RequestBecomes
      DEF Discovery!Recheck, Discovery!Places, Discovery!Turn, Discovery!Awaiting
    <2>3. Discovery!DiscoveryTypes'
      BY <1>t, <2>1, <2>2, DiscoveryNothing DEF Discovery!DiscoveryTypes, Becomes
    <2>4. Discovery!LockIsHeld'
      BY <1>i, <2>1, <2>2, AloneInTurn, DiscoveryNothing
      DEF Discovery!LockIsHeld, Discovery!Turn, Discovery!Awaiting, Becomes
    <2>5. Discovery!OneConnection'
      BY <1>i, <2>1, <2>2, DiscoveryNothing
      DEF Discovery!OneConnection, Discovery!NoDisposal, Discovery!Nothing, Becomes
    <2>c. x8.by # r
      BY <1>i, <2>1, <2>2, DiscoveryNothing
      DEF Discovery!OneAnswer, Discovery!Asked, Discovery!Awaiting
    <2>6. Discovery!OneAnswer'
      BY <1>t, <1>i, <2>c, <2>1, <2>2, DiscoveryFields, AnswerOfOthers DEF Becomes
    <2>x. x2' \in Nat /\ x2' >= x2
      BY <1>t, <2>1, DiscoveryFields
    <2>a. Discovery!ReplyIsOwn(r)'
      BY <1>i, <1>t, <2>1, <2>2, DiscoveryFields, DiscoveryNothing
      DEF Discovery!RepliesAreOwn, Discovery!ReplyIsOwn, Discovery!Awaiting, Discovery!Asked,
          Discovery!NoAnswer, Becomes
    <2>b. \A s \in Requests \ {r} : x4'[s] = x4[s]
              /\ (x4[s].pc \in Discovery!Asked \cup {"recheck"} => x6' = x6)
      BY <1>i, <2>1, <2>2, AloneInTurn
      DEF Becomes, Discovery!Awaiting, Discovery!Turn, Discovery!Asked
    <2>7. Discovery!RepliesAreOwn'
      BY <1>t, <1>i, <2>a, <2>b, <2>x, ReplyStays DEF Discovery!RepliesAreOwn
    <2>e. x12' \subseteq {x6'.connection} \cup {x11'.of}
      BY <1>t, <1>i, <2>1, <2>2, DiscoveryNothing DEF Discovery!ConnectionsAreKnown, Becomes
    <2>f. \A s \in Requests : x4'[s].pc = "connect" => ~ x6'.receiver
              /\ x11' = Discovery!NoDisposal
      <3>1. "connect" \in Discovery!Turn
        BY DEF Discovery!Turn, Discovery!Awaiting
      <3>2. ASSUME NEW s \in Requests \ {r}, x4'[s].pc = "connect"
            PROVE  ~ x6'.receiver /\ x11' = Discovery!NoDisposal
        <4>1. x4[s].pc = "connect" /\ ~ x6.receiver /\ x11 = Discovery!NoDisposal
          BY <1>i, <2>1, <2>2, <3>2 DEF Discovery!ConnectionsAreKnown, Becomes
        <4>2. QED
          BY <1>i, <2>1, <2>2, <3>1, <4>1, AloneInTurn DEF Discovery!Turn, Discovery!Awaiting
      <3>3. x4'[r].pc = "connect" => ~ x6'.receiver /\ x11' = Discovery!NoDisposal
        BY <1>i, <2>1, <2>2, DiscoveryNothing
        DEF Discovery!ConnectionsAreKnown, Discovery!Asked, Becomes
      <3>4. QED
        BY <3>2, <3>3
    <2>g. x13'.close \in {"drop", "done"} =>
          \A s \in Requests : x4'[s].pc \notin Discovery!Awaiting
      BY <1>i, <2>1, <2>2, AloneInTurn
      DEF Discovery!ConnectionsAreKnown, Discovery!Awaiting, Discovery!Turn, Becomes
    <2>h. x13'.close = "done" => x12' = {}
      BY <1>i, <2>1, <2>2 DEF Discovery!ConnectionsAreKnown, Discovery!Awaiting, Becomes
    <2>8. Discovery!ConnectionsAreKnown'
      BY <2>e, <2>f, <2>g, <2>h
      DEF Discovery!ConnectionsAreKnown, Discovery!NoDisposal, Discovery!Awaiting
    <2>9. QED
      BY <2>3, <2>4, <2>5, <2>6, <2>7, <2>8 DEF Discovery!DiscoveryInv
  <1>28. ASSUME NEW r \in Requests, Discovery!Remember(r)
        PROVE  Discovery!DiscoveryInv'
    <2>1. UNCHANGED <<x1, x2, x4, x5, x6, x7, x8, x9, x10, x11, x12, x13>>
      BY <1>28 DEF Discovery!Remember
    <2>2. Discovery!DiscoveryTypes'
      BY <1>t, <2>1, DiscoveryNothing DEF Discovery!DiscoveryTypes
    <2>3. Discovery!LockIsHeld'
      BY <1>i, <2>1 DEF Discovery!LockIsHeld
    <2>4. Discovery!OneConnection'
      BY <1>i, <2>1, DiscoveryNothing
      DEF Discovery!OneConnection, Discovery!NoDisposal, Discovery!Nothing
    <2>5. Discovery!OneAnswer'
      BY <1>t, <1>i, <2>1, DiscoveryFields, AnswerOfOthers
    <2>x. x2' \in Nat /\ x2' >= x2
      BY <1>t, <2>1, DiscoveryFields
    <2>b. \A s \in Requests : x4'[s] = x4[s] /\ (x4[s].pc \in Discovery!Asked \cup {"recheck"} =>
          x6' = x6)
      BY <1>i, <2>1, AloneInTurn
    <2>6. Discovery!RepliesAreOwn'
      BY <1>t, <1>i, <2>b, <2>x, ReplyStays DEF Discovery!RepliesAreOwn
    <2>e. x12' \subseteq {x6'.connection} \cup {x11'.of}
      BY <1>t, <1>i, <2>1, DiscoveryNothing DEF Discovery!ConnectionsAreKnown
    <2>7. Discovery!ConnectionsAreKnown'
      BY <1>i, <2>1 DEF Discovery!ConnectionsAreKnown, Discovery!NoDisposal, Discovery!Awaiting
    <2>8. QED
      BY <2>2, <2>3, <2>4, <2>5, <2>6, <2>7 DEF Discovery!DiscoveryInv
  <1>29. ASSUME NEW r \in Requests, Discovery!Identified(r)
        PROVE  Discovery!DiscoveryInv'
    <2>1. Discovery!First(r) \in Discovery!Asked
      BY DEF Discovery!First, Discovery!Asked
    <2>2. CASE Discovery!At(r, "renew") /\ Discovery!Drop
      BY <1>29, <2>2, <1>20
    <2>3. CASE /\ x6.profile = x4[r].want /\ ~ x7 /\ Discovery!Send(r, Discovery!First(r))
               /\ UNCHANGED <<x6, x7, x10, x11>>
      BY <1>29, <2>1, <2>3, <1>21 DEF Discovery!Identified
    <2>4. QED
      BY <1>29, <2>2, <2>3 DEF Discovery!Identified
  <1>30. QED
    BY <1>1, <1>2, <1>3, <1>4, <1>5, <1>6, <1>7, <1>8, <1>9, <1>10, <1>11, <1>12, <1>13, <1>14,
       <1>15, <1>16, <1>17, <1>18, <1>19, <1>20, <1>21, <1>22, <1>23, <1>24, <1>25, <1>26, <1>27,
       <1>28, <1>29 DEF Discovery!Next

LEMMA DiscoveryInit == Init => DiscoveryInv
  <1> SUFFICES ASSUME Init, part = "discovery" PROVE Discovery!DiscoveryInv
    BY DEF DiscoveryInv
  <1>1. Discovery!Init
    BY DEF Init
  <1>2. Discovery!Asks("none", NoIdentity, 0, FALSE) \in Discovery!RequestRecords
    BY DiscoveryNothing DEF Discovery!Asks, Discovery!RequestRecords, Discovery!Places
  <1>3. \A r \in Requests : /\ x4[r].pc = "none" /\ x4[r].since = 0
                            /\ x4[r].reply = Discovery!NoAnswer
    BY <1>1 DEF Discovery!Init, Discovery!Asks
  <1>4. Discovery!DiscoveryTypes
    BY <1>1, <1>2, DiscoveryNothing
    DEF Discovery!Init, Discovery!DiscoveryTypes, Discovery!OwnerRecords
  <1>5. x2 = 1 /\ x13.idle = "none" /\ x13.close = "none" /\ x12 = {}
    BY <1>1 DEF Discovery!Init
  <1>6. Discovery!LockIsHeld
    BY <1>3, <1>5 DEF Discovery!LockIsHeld, Discovery!Turn, Discovery!Awaiting
  <1>7. Discovery!OneConnection /\ Discovery!OneAnswer
    BY <1>1, DiscoveryNothing DEF Discovery!Init, Discovery!OneConnection, Discovery!OneAnswer
  <1>8. Discovery!RepliesAreOwn
    BY <1>3, <1>5
    DEF Discovery!RepliesAreOwn, Discovery!ReplyIsOwn, Discovery!Awaiting, Discovery!Asked
  <1>9. Discovery!ConnectionsAreKnown
    BY <1>3, <1>5 DEF Discovery!ConnectionsAreKnown
  <1>10. QED
    BY <1>4, <1>6, <1>7, <1>8, <1>9 DEF Discovery!DiscoveryInv

LEMMA DiscoveryKept == DiscoveryInv /\ [Next]_vars => DiscoveryInv'
  <1> SUFFICES ASSUME DiscoveryInv, [Next]_vars, part' = "discovery" PROVE Discovery!DiscoveryInv'
    BY DEF DiscoveryInv
  <1>1. CASE part = "discovery" /\ Discovery!Next
    BY <1>1, DiscoveryStep DEF DiscoveryInv
  <1>2. CASE part = "discovery" /\ UNCHANGED vars
    <2>1. Discovery!DiscoveryInv /\ UNCHANGED vars
      BY <1>2 DEF DiscoveryInv
    <2>2. Discovery!DiscoveryTypes' /\ Discovery!LockIsHeld' /\ Discovery!OneConnection'
      BY <2>1 DEF vars, Discovery!DiscoveryInv, Discovery!DiscoveryTypes, Discovery!LockIsHeld,
         Discovery!OneConnection, Discovery!NoDisposal,
         Discovery!Nothing
    <2>3. Discovery!OneAnswer' /\ Discovery!RepliesAreOwn' /\ Discovery!ConnectionsAreKnown'
      BY <2>1 DEF vars, Discovery!DiscoveryInv, Discovery!OneAnswer, Discovery!OnItsWay,
         Discovery!RepliesAreOwn, Discovery!ReplyIsOwn,
         Discovery!ConnectionsAreKnown, Discovery!NoPending, Discovery!NoAnswer,
         Discovery!NoDisposal
    <2>4. QED
      BY <2>2, <2>3 DEF Discovery!DiscoveryInv
  <1>3. QED
    BY <1>1, <1>2 DEF Next, vars, RunCache, RunProject, RunConfirmation, RunLogin, RunCorrections,
       RunHistory, RunApprovals, RunShift, RunStop, RunHealth, RunDiscovery

\* What a request is answered with was told to its own identity after it began, however
\* requests are cancelled, connections break and the configuration changes; and every
\* connection that is open is held or being closed, none after close.
THEOREM AnswersAreOwn == Spec => []AnswerIsOwn
  <1>1. DiscoveryInv => AnswerIsOwn
    BY DEF DiscoveryInv, AnswerIsOwn, Discovery!AnswerIsOwn, Discovery!DiscoveryInv,
       Discovery!RepliesAreOwn, Discovery!ReplyIsOwn,
       Discovery!ConnectionsAreKnown
  <1>2. QED
    BY <1>1, DiscoveryInit, DiscoveryKept, PTL DEF Spec
===============================================================================
