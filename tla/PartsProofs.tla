----------------------------- MODULE PartsProofs ------------------------------
(***************************************************************************)
(* Theorems about seven components of MCParts: the emergency stop,         *)
(* sign-in, messages, KNX corrections, health topics, load planning and    *)
(* the state cache. What the run of MCParts shows on a small instance      *)
(* holds for all values of the constants. The variables of MCParts are     *)
(* those of the component, in its order.                                   *)
(***************************************************************************)
EXTENDS MCParts, PartsDataProofs, Sequences, SequenceTheorems, TLAPS

-------------------------------------------------------------------------------
(***************************************************************************)
(* EmergencyStop: x1 is selected, x2 signal, x3 visible, x4 stage, x5      *)
(* session, x6 wire, x7 status, x8 heard and x9 call.                      *)
(***************************************************************************)

StopInv == part = "stop" => Stop!StopInv

\* A value of the signal enables, disables or says nothing.
LEMMA MeaningOf ==
  ASSUME NEW value
  PROVE  /\ Stop!Meaning(value) \in {"enabled", "disabled", "unknown"}
         /\ Stop!Meaning(value) = "enabled" <=> value = "one"
  BY DEF Stop!Meaning

LEMMA StopInit == Init => StopInv
  <1> SUFFICES ASSUME part = "stop", Init PROVE Stop!StopInv
    BY DEF StopInv
  <1>1. Stop!Init
    BY DEF Init
  <1>2. x6 = <<>> /\ x6 \in Seq(Stop!Signals) /\ Len(x6) = 0
    BY <1>1 DEF Stop!Init
  <1>3. Stop!TypeOK
    BY <1>1, <1>2, StopParameters
    DEF Stop!Init, Stop!TypeOK, Stop!Signals, Stop!Stages, Stop!Connected, Stop!NoCall,
        Stop!Parameters
  <1>4. QED
    BY <1>1, <1>3
    DEF Stop!Init, Stop!StopInv, Stop!SaysWhatItHeard, Stop!HearsSubscribed, Stop!LastIsSignal,
        Stop!LetInOnOne, Stop!NoCall

\* A step of the component, with what is known of the values on their way.
LEMMA StopStep ==
  ASSUME Stop!StopInv, Stop!Next
  PROVE  Stop!StopInv'
  <1> USE MeaningOf DEF Stop!StopInv, Stop!TypeOK, Stop!SaysWhatItHeard, Stop!HearsSubscribed,
              Stop!LastIsSignal, Stop!LetInOnOne, Stop!Signals, Stop!Stages, Stop!Connected,
              Stop!NoCall
  <1>1. CASE Stop!Change
    <2>1. x2' \in Stop!Signals
      BY <1>1 DEF Stop!Change
    <2>2. CASE x4 = "events" /\ x5 = "open"
      <3>1. x6' = Append(x6, x2') /\ Len(x6) < MaxWire
        BY <1>1, <2>2 DEF Stop!Change
      <3>2. /\ x6' \in Seq(Stop!Signals) /\ Len(x6') = Len(x6) + 1
            /\ x6'[Len(x6')] = x2' /\ x6' # <<>>
        BY <2>1, <3>1, AppendProperties
      <3>3. Len(x6') <= MaxWire
        BY <3>1, <3>2, StopParameters DEF Stop!Parameters
      <3>4. QED
        BY <1>1, <2>1, <2>2, <3>2, <3>3 DEF Stop!Change
    <2>3. CASE ~ (x4 = "events" /\ x5 = "open")
      BY <1>1, <2>1, <2>3 DEF Stop!Change
    <2>4. QED
      BY <2>2, <2>3
  <1>2. CASE Stop!Reload
    BY <1>2 DEF Stop!Reload
  <1>3. CASE Stop!Lose
    <2>1. PICK n \in 0..Len(x6) : x6' = SubSeq(x6, 1, n)
      BY <1>3 DEF Stop!Lose
    <2>2. x6' \in Seq(Stop!Signals) /\ Len(x6') <= Len(x6)
      BY <2>1, SubSeqProperties
    <2>3. x6 = <<>> => x6' = <<>>
      BY <2>2, EmptySeq
    <2>4. Len(x6') <= MaxWire
      BY <2>2, StopParameters DEF Stop!Parameters
    <2>5. QED
      BY <1>3, <2>2, <2>3, <2>4 DEF Stop!Lose
  <1>4. CASE Stop!Credentials \/ Stop!Connect \/ Stop!Select \/ Stop!Again
    BY <1>4 DEF Stop!Credentials, Stop!Connect, Stop!Select, Stop!Again
  <1>5. CASE Stop!Subscribe
    <2>1. x6' = <<x2>> /\ x6' \in Seq(Stop!Signals) /\ Len(x6') = 1 /\ x6'[1] = x2 /\ x6' # <<>>
      BY <1>5 DEF Stop!Subscribe
    <2>2. QED
      BY <1>5, <2>1, StopParameters DEF Stop!Subscribe, Stop!Parameters
  <1>6. CASE Stop!Events
    <2>1. PICK n \in 1..Len(x6) :
            x8' = x6[n] /\ x7' = Stop!Meaning(x6[n]) /\ x6' = SubSeq(x6, n + 1, Len(x6))
      BY <1>6 DEF Stop!Events
    <2>2. x6[n] \in Stop!Signals
      BY <2>1
    <2>3. /\ x6' \in Seq(Stop!Signals) /\ Len(x6') = Len(x6) - n /\ Len(x6') <= MaxWire
          /\ IF n = Len(x6) THEN x6' = <<>> ELSE x6' # <<>> /\ x6'[Len(x6')] = x6[Len(x6)]
      <3>1. /\ x6' \in Seq(Stop!Signals) /\ Len(x6') = Len(x6) - n
            /\ \A i \in 1..Len(x6') : x6'[i] = x6[n + i]
        BY <2>1, SubSeqProperties
      <3>2. Len(x6') <= MaxWire
        BY <2>1, <3>1, StopParameters DEF Stop!Parameters
      <3>3. n = Len(x6) => x6' = <<>>
        BY <3>1, EmptySeq
      <3>4. ASSUME n # Len(x6)
            PROVE  x6' # <<>> /\ x6'[Len(x6')] = x6[Len(x6)]
        <4>1. Len(x6) \in Nat /\ n \in Nat /\ n < Len(x6)
          BY <2>1, <3>4, LenProperties
        <4>2. Len(x6') \in 1..Len(x6') /\ n + Len(x6') = Len(x6)
          BY <3>1, <4>1
        <4>3. QED
          BY <3>1, <4>1, <4>2
      <3>5. QED
        BY <3>1, <3>2, <3>3, <3>4
    <2>4. x6 # <<>>
      BY <2>1
    <2>5. x5 = "open" => x2 = IF x6' = <<>> THEN x8' ELSE x6'[Len(x6')]
      BY <1>6, <2>1, <2>3, <2>4 DEF Stop!Events
    <2>6. QED
      BY <1>6, <2>1, <2>2, <2>3, <2>5 DEF Stop!Events
  <1>7. CASE Stop!Fail
    BY <1>7, StopParameters DEF Stop!Fail, Stop!Parameters
  <1>8. CASE Stop!Restart
    BY <1>8, StopParameters DEF Stop!Restart, Stop!Unheard, Stop!Parameters
  <1>9. ASSUME NEW c \in Posts, Stop!Post(c) \/ Stop!Body(c) \/ Stop!Answer(c)
        PROVE  Stop!StopInv'
    BY <1>9 DEF Stop!Post, Stop!Body, Stop!Answer, Stop!AllowsToolCalls
  <1>10. QED
    BY <1>1, <1>2, <1>3, <1>4, <1>5, <1>6, <1>7, <1>8, <1>9 DEF Stop!Next

LEMMA StopKept == StopInv /\ [Next]_vars => StopInv'
  <1> SUFFICES ASSUME StopInv, [Next]_vars, part' = "stop" PROVE Stop!StopInv'
    BY DEF StopInv
  <1>1. CASE part = "stop" /\ Stop!Next
    BY <1>1, StopStep DEF StopInv
  <1>2. CASE part = "stop" /\ UNCHANGED vars
    BY <1>2 DEF StopInv, vars, Stop!StopInv, Stop!TypeOK, Stop!SaysWhatItHeard,
       Stop!HearsSubscribed, Stop!LastIsSignal, Stop!LetInOnOne
  <1>3. QED
    BY <1>1, <1>2 DEF Next, vars, RunCache, RunProject, RunConfirmation, RunLogin, RunCorrections,
       RunHistory, RunApprovals, RunShift, RunStop, RunHealth, RunDiscovery

\* Whatever breaks and whenever, no tool call is let in but on a one that was heard over
\* the subscription of that time: for any number of calls and of values on their way.
THEOREM StopIsHonoured == Spec => []StopHonoured
  <1>1. StopInv => StopHonoured
    BY MeaningOf
    DEF StopInv, StopHonoured, Stop!TypeOK, Stop!Signals, Stop!StopInv, Stop!StopHonoured,
        Stop!SaysWhatItHeard,
       Stop!HearsSubscribed, Stop!LastIsSignal, Stop!LetInOnOne
  <1>2. QED
    BY <1>1, StopInit, StopKept, PTL DEF Spec

-------------------------------------------------------------------------------
(***************************************************************************)
(* LoginTransaction: x1 is login, x2 call, x3 issued, x4 records, x5       *)
(* queued, x6 granted and x7 lost.                                         *)
(***************************************************************************)

LoginInv == part = "login" => Login!LoginInv

LEMMA LoginInit == Init => LoginInv
  <1> SUFFICES ASSUME part = "login", Login!Init PROVE Login!LoginInv
    BY DEF Init, LoginInv
  <1>1. QED
    BY LoginParameters
    DEF Login!Parameters, Login!Init, Login!LoginInv, Login!LoginTypes, Login!AloneAtWork,
        Login!LeftIsNoted,
        Login!TokenHasOwner, Login!NewLogin, Login!NewCall, Login!Logins, Login!CallRecords,
        Login!Phases, Login!Open, Login!Tx, Login!AtWork, Login!Answering

\* One transaction t changes to e, for a call c that is at work in it or has its turn:
\* no token is dropped, and c keeps the transaction only while it waits.
LEMMA LoginTurn ==
  ASSUME Login!LoginInv, NEW c \in Calls, NEW t \in Transactions, Login!Tx(c) = t,
         NEW e \in Login!Logins, NEW pc \in {"done"} \cup Login!AtWork,
         x1' = [x1 EXCEPT ![t] = e],
         x2' = [x2 EXCEPT ![c].pc = pc],
         x2[c].pc \in {"waiting"} \cup Login!AtWork,
         x2[c].pc = "waiting" => Login!Unlocked(t),
         pc \in Login!AtWork => e.st = "open" /\ e.phase = "login_pending" /\ e.token = NoToken,
         e.token # NoToken => /\ e.st # "new" /\ (e.phase = "login" => e.cleanup)
                              /\ e.known \/ e.token \in x7',
         x3' = IF pc = "answering" THEN x3 \cup {c} ELSE x3,
         x4' \in [Calls -> Nat], \A k \in Calls : x4'[k] >= x4[k],
         x5 \subseteq x5', x7 \subseteq x7',
         x1[t].token # NoToken =>
           \/ e.st = "open" /\ e.token = x1[t].token /\ (x1[t].known => e.known)
           \/ x4'[x1[t].token] > 0 \/ x1[t].token \in x5',
         x2[c].pc \in Login!Answering =>
           \/ pc \in Login!Answering
           \/ e.st = "open" /\ e.known /\ e.token = c
           \/ c \in x5' \cup x7'
  PROVE  Login!LoginInv'
  <1> USE DEF Login!LoginInv, Login!Open, Login!Tx, Login!AtWork, Login!Answering
  <1>1. /\ x1' \in [Transactions -> Login!Logins] /\ x1'[t] = e
        /\ \A u \in Transactions \ {t} : x1'[u] = x1[u]
    BY DEF Login!LoginTypes
  <1>2. /\ x2' \in [Calls -> Login!CallRecords]
        /\ x2'[c].pc = pc /\ \A d \in Calls \ {c} : x2'[d] = x2[d]
        /\ \A d \in Calls : x2'[d].tx = x2[d].tx
    BY DEF Login!LoginTypes, Login!CallRecords
  <1>3. Login!LoginTypes'
    BY <1>1, <1>2 DEF Login!LoginTypes
  <1>4. Login!AloneAtWork'
    BY <1>1, <1>2 DEF Login!LoginTypes, Login!AloneAtWork, Login!Unlocked
  <1>5. Login!LeftIsNoted'
    BY <1>1 DEF Login!LeftIsNoted
  <1>6. Login!TokenHasOwner'
    <2> SUFFICES ASSUME NEW k \in x3'
                 PROVE  \/ x2'[k].pc \in Login!Answering
                        \/ \E u \in Transactions :
                             x1'[u].st = "open" /\ x1'[u].known /\ x1'[u].token = k
                        \/ x4'[k] > 0
                        \/ k \in x5' \cup x7'
      BY DEF Login!TokenHasOwner
    <2>1. k \in Calls
      BY <1>3 DEF Login!LoginTypes
    <2>2. CASE k = c /\ k \notin x3
      BY <1>2, <2>2
    <2>3. CASE k \in x3
      <3>1. CASE x2[k].pc \in Login!Answering
        BY <1>1, <1>2, <2>1, <3>1
      <3>2. CASE \E u \in Transactions : x1[u].st = "open" /\ x1[u].known /\ x1[u].token = k
        <4>1. PICK u \in Transactions : x1[u].st = "open" /\ x1[u].known /\ x1[u].token = k
          BY <3>2
        <4>2. k # NoToken
          BY <2>1, LoginParameters DEF Login!Parameters
        <4>3. QED
          BY <1>1, <4>1, <4>2
      <3>3. CASE x4[k] > 0
        <4>1. x4[k] \in Nat /\ x4'[k] \in Nat /\ x4'[k] >= x4[k]
          BY <2>1 DEF Login!LoginTypes
        <4>2. QED
          BY <3>3, <4>1
      <3>4. CASE k \in x5 \cup x7
        BY <3>4
      <3>5. QED
        BY <2>3, <3>1, <3>2, <3>3, <3>4 DEF Login!TokenHasOwner
    <2>4. QED
      BY <2>2, <2>3
  <1>7. QED
    BY <1>3, <1>4, <1>5, <1>6

LEMMA LoginStep ==
  ASSUME Login!LoginInv, Login!Next
  PROVE  Login!LoginInv'
  <1>p. /\ LoginTTL \in Nat /\ NoToken \notin Calls /\ NoTransaction \notin Transactions
    BY LoginParameters DEF Login!Parameters
  <1>i. /\ Login!LoginTypes
        /\ \A t \in Transactions : x1[t] \in Login!Logins
        /\ \A k \in Calls : x4[k] \in Nat
    BY DEF Login!LoginInv, Login!LoginTypes
  \* what a call finds that has its turn, or comes back from the Miniserver
  <1>c. ASSUME NEW c \in Calls, x2[c].pc \in {"waiting"} \cup Login!AtWork
        PROVE  /\ Login!Tx(c) \in Transactions /\ x1[Login!Tx(c)] \in Login!Logins
               /\ x2[c].pc # "waiting" => /\ x1[Login!Tx(c)].st = "open"
                                          /\ x1[Login!Tx(c)].phase = "login_pending"
                                          /\ x1[Login!Tx(c)].token = NoToken
               /\ LET l == x1[Login!Tx(c)]
                  IN  l.token # NoToken => /\ l.st # "new" /\ (l.phase = "login" => l.cleanup)
                                           /\ l.known \/ l.token \in x7
    BY <1>c, <1>i
    DEF Login!LoginInv, Login!LoginTypes, Login!AloneAtWork, Login!LeftIsNoted, Login!Open,
        Login!AtWork, Login!Answering
  <1>1. CASE Login!Tick
    BY <1>1 DEF Login!Tick, Login!LoginInv, Login!LoginTypes, Login!AloneAtWork,
       Login!LeftIsNoted, Login!TokenHasOwner, Login!Logins, Login!Open, Login!Tx
  <1>2. CASE Login!Restart
    <2>1. Login!LoginTypes'
      <3>1. Login!NewLogin \in Login!Logins
                /\ [Login!NewLogin EXCEPT !.st = "gone"] \in Login!Logins
        <4>1. LoginTTL \in Int
          BY <1>p
        <4>2. Login!NewLogin \in Login!Logins
          BY <4>1 DEF Login!NewLogin, Login!Logins, Login!Phases
        <4>3. QED
          BY <4>2 DEF Login!Logins
      <3>2. /\ Login!NewCall \in Login!CallRecords
            /\ [Login!NewCall EXCEPT !.pc = "done"] \in Login!CallRecords
            /\ Login!NewCall.pc = "new" /\ [Login!NewCall EXCEPT !.pc = "done"].pc = "done"
        BY DEF Login!NewCall, Login!CallRecords
      <3>3. QED
        BY <1>i, <1>2, <3>1, <3>2
        DEF Login!Restart, Login!LoginTypes, Login!Tx, Login!AtWork, Login!Answering
    <2>2. Login!AloneAtWork' /\ Login!LeftIsNoted'
      BY <1>2 DEF Login!Restart, Login!NewLogin, Login!NewCall, Login!AloneAtWork,
         Login!LeftIsNoted, Login!AtWork, Login!Answering
    <2>3. Login!TokenHasOwner'
      <3> SUFFICES ASSUME NEW k \in x3 PROVE x4[k] > 0 \/ k \in x5 \cup x7'
        BY <1>2 DEF Login!Restart, Login!TokenHasOwner
      <3>1. k # NoToken
        BY <1>p, <1>i DEF Login!LoginTypes
      <3>2. QED
        BY <1>2, <3>1
        DEF Login!Restart, Login!LoginInv, Login!TokenHasOwner, Login!Held, Login!Open
    <2>4. QED
      BY <2>1, <2>2, <2>3 DEF Login!LoginInv
  <1>3. ASSUME NEW t \in Transactions, Login!Start(t) PROVE Login!LoginInv'
    BY <1>3 DEF Login!Start, Login!LoginInv, Login!LoginTypes, Login!AloneAtWork,
       Login!LeftIsNoted, Login!TokenHasOwner, Login!Logins, Login!Open, Login!Tx
  <1>4. ASSUME NEW t \in Transactions, Login!Sweep(t) PROVE Login!LoginInv'
    <2>1. \E e \in Login!Logins :
            /\ x1' = [x1 EXCEPT ![t] = e]
            /\ \/ e.token = NoToken /\ (x1[t].token # NoToken => x1[t].token \in x5')
               \/ /\ e.st = "open" /\ e.token = x1[t].token /\ e.cleanup
                  /\ e.known = x1[t].known
            /\ x5 \subseteq x5'
      BY ZenonT(60), <1>p, <1>i, <1>4 DEF Login!Sweep, Login!Queue, Login!NotQueued,
         Login!Held, Login!Open, Login!Logins
    <2>2. PICK e \in Login!Logins :
            /\ x1' = [x1 EXCEPT ![t] = e]
            /\ \/ e.token = NoToken /\ (x1[t].token # NoToken => x1[t].token \in x5')
               \/ /\ e.st = "open" /\ e.token = x1[t].token /\ e.cleanup
                  /\ e.known = x1[t].known
            /\ x5 \subseteq x5'
      BY <2>1
    <2>3. /\ x1' \in [Transactions -> Login!Logins] /\ x1'[t] = e
          /\ \A u \in Transactions \ {t} : x1'[u] = x1[u]
      BY <1>i, <2>2 DEF Login!LoginTypes
    <2>4. UNCHANGED <<x2, x3, x4, x7>> /\ Login!Unlocked(t)
      BY <1>4 DEF Login!Sweep
    <2>5. Login!LoginTypes' /\ Login!AloneAtWork' /\ Login!LeftIsNoted'
      BY <2>2, <2>3, <2>4 DEF Login!LoginInv, Login!LoginTypes, Login!AloneAtWork,
         Login!LeftIsNoted, Login!Unlocked, Login!Open, Login!Tx, Login!AtWork, Login!Answering
    <2>6. Login!TokenHasOwner'
      <3> SUFFICES ASSUME NEW k \in x3
                   PROVE  \/ x2[k].pc \in Login!Answering
                          \/ \E u \in Transactions :
                               x1'[u].st = "open" /\ x1'[u].known /\ x1'[u].token = k
                          \/ x4[k] > 0
                          \/ k \in x5' \cup x7
        BY <2>4 DEF Login!TokenHasOwner, Login!Open
      <3>1. k # NoToken
        BY <1>p, <1>i DEF Login!LoginTypes
      <3>2. QED
        BY <2>2, <2>3, <3>1 DEF Login!LoginInv, Login!TokenHasOwner, Login!Open
    <2>7. QED
      BY <2>5, <2>6 DEF Login!LoginInv
  <1>5. ASSUME NEW c \in Calls, NEW t \in Transactions, NEW form \in Login!Forms,
               Login!Post(c, t, form)
        PROVE  Login!LoginInv'
    BY <1>5 DEF Login!Post, Login!LoginInv, Login!LoginTypes, Login!AloneAtWork,
       Login!LeftIsNoted, Login!TokenHasOwner, Login!CallRecords, Login!Open, Login!Tx,
       Login!AtWork, Login!Answering
  <1>d. ASSUME NEW c \in Calls, Login!Dismissed(c)
        PROVE  Login!LoginInv'
    BY ZenonT(60), <1>d DEF Login!Dismissed, Login!LoginInv, Login!LoginTypes, Login!AloneAtWork,
       Login!LeftIsNoted, Login!TokenHasOwner, Login!CallRecords, Login!Open, Login!Tx,
       Login!Over, Login!AtWork, Login!Answering
  <1>6. ASSUME NEW c \in Calls,
               \/ Login!CleanupFails(c) \/ Login!SignIn(c) \/ Login!NoTokenIssued(c)
               \/ Login!Issue(c) \/ Login!Answered(c) \/ Login!AnswerLost(c)
               \/ Login!SignInFails(c) \/ Login!RetainBreaks(c)
               \/ Login!SignedIn(c) \/ Login!NamingFails(c) \/ Login!ApprovalsUnread(c)
               \/ Login!Approve(c) \/ Login!ApproveRefused(c) \/ Login!ApproveBreaks(c)
               \/ Login!Deny(c)
        PROVE  Login!LoginInv'
    <2> DEFINE t == Login!Tx(c)
               l == x1[t]
               Turns(e, pc) ==
                 /\ e \in Login!Logins /\ pc \in {"done"} \cup Login!AtWork
                 /\ x1' = [x1 EXCEPT ![t] = e]
                 /\ x2' = [x2 EXCEPT ![c].pc = pc]
                 /\ pc \in Login!AtWork =>
                      e.st = "open" /\ e.phase = "login_pending" /\ e.token = NoToken
                 /\ e.token # NoToken => /\ e.st # "new" /\ (e.phase = "login" => e.cleanup)
                                         /\ e.known \/ e.token \in x7'
                 /\ x3' = IF pc = "answering" THEN x3 \cup {c} ELSE x3
                 /\ x4' \in [Calls -> Nat] /\ \A k \in Calls : x4'[k] >= x4[k]
                 /\ x5 \subseteq x5' /\ x7 \subseteq x7'
                 /\ l.token # NoToken =>
                      \/ e.st = "open" /\ e.token = l.token /\ (l.known => e.known)
                      \/ x4'[l.token] > 0 \/ l.token \in x5'
                 /\ x2[c].pc \in Login!Answering =>
                      \/ pc \in Login!Answering
                      \/ e.st = "open" /\ e.known /\ e.token = c
                      \/ c \in x5' \cup x7'
    <2>t. /\ x2[c].pc \in {"waiting"} \cup Login!AtWork
          /\ x2[c].pc = "waiting" => Login!Unlocked(t) /\ l.st = "open"
      BY <1>6 DEF Login!CleanupFails, Login!SignIn, Login!NoTokenIssued, Login!Issue,
         Login!Answered, Login!AnswerLost, Login!SignInFails, Login!RetainBreaks,
         Login!SignedIn, Login!NamingFails, Login!ApprovalsUnread, Login!Approve,
         Login!ApproveRefused, Login!ApproveBreaks, Login!Deny, Login!Turn, Login!Open,
         Login!AtWork, Login!Answering
    <2>l. /\ t \in Transactions /\ l \in Login!Logins /\ l.st = "open"
          /\ x2[c].pc # "waiting" => l.phase = "login_pending" /\ l.token = NoToken
          /\ l.token # NoToken => /\ l.phase = "login" => l.cleanup
                                  /\ l.known \/ l.token \in x7
      BY <1>c, <2>t
    <2>f. /\ l.phase \in Login!Phases /\ l.attempts \in Int /\ l.token \in Calls \cup {NoToken}
          /\ l.cleanup \in BOOLEAN /\ l.known \in BOOLEAN /\ l.left \in Int
      BY <2>l DEF Login!Logins
    <2>x. /\ x4 \in [Calls -> Nat]
          /\ UNCHANGED x4 => x4' \in [Calls -> Nat] /\ \A k \in Calls : x4'[k] >= x4[k]
      BY <1>i DEF Login!LoginTypes
    <2> HIDE DEF t
    <2> USE <1>p, <2>t, <2>l, <2>x DEF Login!Logins, Login!Phases, Login!AtWork, Login!Answering
    <2> DEFINE Turned == \E e \in Login!Logins, pc \in {"done"} \cup Login!AtWork : Turns(e, pc)
    <2>1. ASSUME Login!CleanupFails(c) PROVE Turned
      <3>1. Turns([l EXCEPT !.phase = "login_pending"], "done")
        BY <2>1 DEF Login!CleanupFails, Login!NotQueued, Login!Turn, Login!Over, Login!Held, t
      <3>2. QED
        BY <3>1
    <2>2. ASSUME Login!SignIn(c) PROVE Turned
      <3> DEFINE a == l.attempts + 1
                 n == [l EXCEPT !.attempts = a, !.token = NoToken, !.cleanup = FALSE]
      <3>1. /\ x5 \subseteq x5' /\ (l.token # NoToken => l.token \in x5')
            /\ UNCHANGED <<x3, x4, x7>>
            /\ x2[c].pc = "waiting"
        BY <2>2 DEF Login!SignIn, Login!Turn, Login!Held, t
      <3>2. n \in Login!Logins /\ n.token = NoToken /\ n.st = "open"
        <4>1. a \in Int
          BY <2>f
        <4> HIDE DEF a
        <4>2. QED
          BY <4>1
      <3>3. \/ /\ x1' = [x1 EXCEPT ![t] = [n EXCEPT !.st = "gone", !.phase = "finished"]]
               /\ x2' = [x2 EXCEPT ![c].pc = "done"]
            \/ x1' = [x1 EXCEPT ![t] = n] /\ x2' = [x2 EXCEPT ![c].pc = "done"]
            \/ /\ x1' = [x1 EXCEPT ![t] = [n EXCEPT !.phase = "login_pending"]]
               /\ x2' = [x2 EXCEPT ![c].pc = "signing"]
        BY <2>2 DEF Login!SignIn, Login!Over, t
      <3> HIDE DEF n
      <3>4. \/ Turns([n EXCEPT !.st = "gone", !.phase = "finished"], "done")
            \/ Turns(n, "done")
            \/ Turns([n EXCEPT !.phase = "login_pending"], "signing")
        BY <3>1, <3>2, <3>3
      <3>5. QED
        BY <3>4
    <2>3. ASSUME Login!NoTokenIssued(c) PROVE Turned
      <3>1. PICK n \in {l.attempts, l.attempts - 1} :
              x1' = [x1 EXCEPT ![t] = [@ EXCEPT !.attempts = n, !.phase = "login"]]
        BY <2>3 DEF Login!NoTokenIssued, Login!Unanswered, Login!Uncounted, t
      <3>a. n \in Int
        BY <2>f
      <3>2. Turns([l EXCEPT !.attempts = n, !.phase = "login"], "done")
        BY <2>3, <3>a, <3>1 DEF Login!NoTokenIssued, Login!Unanswered, Login!Over
      <3>3. QED
        BY <3>2
    <2>4. ASSUME Login!Issue(c) PROVE Turned
      <3>1. x1' = [x1 EXCEPT ![t] = l]
        BY <1>i, <2>4 DEF Login!Issue, Login!LoginTypes
      <3>2. Turns(l, "answering")
        BY <2>4, <3>1 DEF Login!Issue
      <3>3. QED
        BY <3>2
    <2>4a. ASSUME Login!Answered(c) PROVE Turned
      <3>1. x1' = [x1 EXCEPT ![t] = l]
        BY <1>i, <2>4a DEF Login!Answered, Login!LoginTypes
      <3>2. Turns(l, "issued")
        BY <2>4a, <3>1 DEF Login!Answered
      <3>3. QED
        BY <3>2
    <2>4b. ASSUME Login!AnswerLost(c) PROVE Turned
      <3>1. PICK n \in {l.attempts, l.attempts - 1} :
              x1' = [x1 EXCEPT ![t] = [@ EXCEPT !.attempts = n, !.phase = "login"]]
        BY <2>4b DEF Login!AnswerLost, Login!Unanswered, Login!Uncounted, t
      <3>a. n \in Int
        BY <2>f
      <3>2. Turns([l EXCEPT !.attempts = n, !.phase = "login"], "done")
        BY <2>4b, <3>a, <3>1 DEF Login!AnswerLost, Login!Unanswered, Login!Over
      <3>3. QED
        BY <3>2
    <2>5. ASSUME Login!SignInFails(c) PROVE Turned
      <3>1. PICK n \in {l.attempts, l.attempts - 1} :
              LET e == [l EXCEPT !.attempts = n, !.phase = "login", !.known = TRUE]
              IN  \/ x1' = [x1 EXCEPT ![t] = e] /\ x5' = x5 \cup {c}
                  \/ /\ x1' = [x1 EXCEPT ![t] = [e EXCEPT !.token = c, !.cleanup = TRUE]]
                     /\ x5' \in {x5, x5 \cup {c}}
        BY <2>5 DEF Login!SignInFails, Login!Uncounted, t
      <3> DEFINE e == [l EXCEPT !.attempts = n, !.phase = "login", !.known = TRUE]
      <3>2. /\ x2' = [x2 EXCEPT ![c].pc = "done"] /\ UNCHANGED <<x3, x4, x7>>
            /\ x2[c].pc = "issued"
        BY <2>5 DEF Login!SignInFails, Login!Over
      <3>a. n \in Int
        BY <2>f
      <3>3. /\ e \in Login!Logins /\ e.token = NoToken /\ e.st = "open"
            /\ [e EXCEPT !.token = c, !.cleanup = TRUE] \in Login!Logins
            /\ [e EXCEPT !.token = c, !.cleanup = TRUE].token = c
            /\ [e EXCEPT !.token = c, !.cleanup = TRUE].cleanup
            /\ [e EXCEPT !.token = c, !.cleanup = TRUE].st = "open"
        BY <3>a, <3>2
      <3>4. Turns(e, "done") \/ Turns([e EXCEPT !.token = c, !.cleanup = TRUE], "done")
        <4>k. e.known /\ [e EXCEPT !.token = c, !.cleanup = TRUE].known
          OBVIOUS
        <4> HIDE DEF e
        <4>1. \/ x1' = [x1 EXCEPT ![t] = e] /\ x5' = x5 \cup {c}
              \/ /\ x1' = [x1 EXCEPT ![t] = [e EXCEPT !.token = c, !.cleanup = TRUE]]
                 /\ x5' \in {x5, x5 \cup {c}}
          BY <3>1 DEF e
        <4>2. QED
          BY <3>2, <3>3, <4>1, <4>k
      <3>5. QED
        BY <3>4
    <2>5a. ASSUME Login!RetainBreaks(c) PROVE Turned
      <3>1. Turns([l EXCEPT !.token = c, !.cleanup = TRUE], "done")
        BY <2>5a DEF Login!RetainBreaks, Login!Over, t
      <3>2. QED
        BY <3>1
    <2>6. ASSUME Login!SignedIn(c) PROVE Turned
      <3>1. Turns([l EXCEPT !.token = c, !.known = TRUE, !.phase = "consent"], "done")
        BY <2>6 DEF Login!SignedIn, Login!Over, t
      <3>2. QED
        BY <3>1
    <2>6a. ASSUME Login!NamingFails(c) PROVE Turned
      <3>1. x1' = [x1 EXCEPT ![t] = l]
        BY <1>i, <2>6a DEF Login!NamingFails, Login!LoginTypes
      <3>2. Turns(l, "done")
        BY <2>6a, <3>1 DEF Login!NamingFails, Login!Over
      <3>3. QED
        BY <3>2
    <2>6b. ASSUME Login!ApprovalsUnread(c) PROVE Turned
      <3>1. Turns([l EXCEPT !.token = c, !.known = TRUE], "done")
        BY <2>6b DEF Login!ApprovalsUnread, Login!Over, t
      <3>2. QED
        BY <3>1
    <2>7. ASSUME Login!Approve(c) PROVE Turned
      <3>1. /\ x4' = [x4 EXCEPT ![l.token] = @ + 1] /\ l.token # NoToken
            /\ UNCHANGED <<x3, x5, x7>> /\ x2[c].pc = "waiting"
        BY <2>7 DEF Login!Approve, Login!Turn, t
      <3>2. x4' \in [Calls -> Nat] /\ (\A k \in Calls : x4'[k] >= x4[k]) /\ x4'[l.token] > 0
        BY <3>1
      <3>3. Turns([l EXCEPT !.st = "gone", !.phase = "finished", !.token = NoToken], "done")
        BY <2>7, <3>1, <3>2 DEF Login!Approve, Login!Closed, Login!Over, t
      <3>4. QED
        BY <3>3
    <2>8. ASSUME Login!ApproveRefused(c) PROVE Turned
      <3>1. x4' \in {x4, [x4 EXCEPT ![l.token] = @ + 1]} /\ l.token # NoToken
        BY <2>8 DEF Login!ApproveRefused, t
      <3>2. x4' \in [Calls -> Nat] /\ \A k \in Calls : x4'[k] >= x4[k]
        BY <3>1
      <3>3. x1' = [x1 EXCEPT ![t] = l]
        BY <1>i, <2>8 DEF Login!ApproveRefused, Login!LoginTypes
      <3>4. Turns(l, "done")
        BY <2>8, <3>2, <3>3 DEF Login!ApproveRefused, Login!Turn, Login!Over
      <3>5. QED
        BY <3>4
    <2>9. ASSUME Login!ApproveBreaks(c) PROVE Turned
      <3>1. x4' \in {x4, [x4 EXCEPT ![l.token] = @ + 1]} /\ l.token # NoToken
        BY <2>9 DEF Login!ApproveBreaks, t
      <3>2. x4' \in [Calls -> Nat] /\ \A k \in Calls : x4'[k] >= x4[k]
        BY <3>1
      <3>3. Turns([l EXCEPT !.phase = "approving"], "done")
        BY <2>9, <3>2 DEF Login!ApproveBreaks, Login!Turn, Login!Over, t
      <3>4. QED
        BY <3>3
    <2>10. ASSUME Login!Deny(c) PROVE Turned
      <3> DEFINE d == [l EXCEPT !.st = "gone", !.phase = "finished", !.token = NoToken,
                                !.cleanup = FALSE]
                 k == [l EXCEPT !.phase = IF l.known THEN "consent" ELSE "login",
                                !.cleanup = TRUE]
      <3>1. /\ \/ x1' = [x1 EXCEPT ![t] = d] /\ x5' = x5 \cup ({l.token} \ {NoToken})
               \/ x1' = [x1 EXCEPT ![t] = k] /\ x5 \subseteq x5'
            /\ x2' = [x2 EXCEPT ![c].pc = "done"] /\ UNCHANGED <<x3, x4, x7>>
            /\ x2[c].pc = "waiting"
        BY <2>10 DEF Login!Deny, Login!Turn, Login!Queue, Login!NotQueued, Login!Closed,
           Login!Held, Login!Over, t
      <3>2. /\ d \in Login!Logins /\ d.token = NoToken
            /\ k \in Login!Logins /\ k.token = l.token /\ k.st = "open" /\ k.cleanup
            /\ k.known = l.known
        OBVIOUS
      <3> HIDE DEF d, k
      <3>3. Turns(d, "done") \/ Turns(k, "done")
        BY <3>1, <3>2
      <3>4. QED
        BY <3>3
    <2>11. Turned
      <3> HIDE DEF Turned
      <3>1. QED
        BY <1>6, <2>1, <2>2, <2>3, <2>4, <2>4a, <2>4b, <2>5, <2>5a, <2>6, <2>6a, <2>6b, <2>7,
           <2>8, <2>9, <2>10
    <2>12. PICK e \in Login!Logins, pc \in {"done"} \cup Login!AtWork : Turns(e, pc)
      BY <2>11
    <2>13. QED
      BY <2>12, LoginTurn, ZenonT(60) DEF t
  <1>7. QED
    BY <1>1, <1>2, <1>3, <1>4, <1>5, <1>6, <1>d DEF Login!Next

LEMMA LoginKept == LoginInv /\ [Next]_vars => LoginInv'
  <1> SUFFICES ASSUME LoginInv, [Next]_vars, part' = "login" PROVE Login!LoginInv'
    BY DEF LoginInv
  <1>1. CASE part = "login" /\ Login!Next
    BY <1>1, LoginStep DEF LoginInv
  <1>2. CASE part = "login" /\ UNCHANGED vars
    BY <1>2 DEF LoginInv, vars, Login!LoginInv, Login!LoginTypes, Login!AloneAtWork,
       Login!LeftIsNoted, Login!TokenHasOwner, Login!Open, Login!Tx, Login!AtWork,
       Login!Answering
  <1>3. QED
    BY <1>1, <1>2 DEF Next, vars, RunCache, RunProject, RunConfirmation, RunLogin, RunCorrections,
       RunHistory, RunApprovals, RunShift, RunStop, RunHealth, RunDiscovery

\* However the calls of a sign-in interleave, fail, are cancelled or expire, and in how
\* many transactions: a token that the Miniserver has issued is with a call, with a
\* transaction that can queue it, or in the store, unless it is one of those the code lets
\* go: in memory at a restart, never answered for, or to be named while the auth document
\* cannot be read.
THEOREM TokenIsOwned == Spec => []TokenHasOwner
  <1>1. LoginInv => TokenHasOwner
    BY DEF LoginInv, TokenHasOwner, Login!LoginInv
  <1>2. QED
    BY <1>1, LoginInit, LoginKept, PTL DEF Spec

-------------------------------------------------------------------------------
(***************************************************************************)
(* MessageConfirmation: x1 is message, x2 ticket, x3 approval, x4 claim,   *)
(* x5 inflight, x6 attempts and x7 shown.                                  *)
(***************************************************************************)

ConfirmationInv == part = "confirmation" => Confirmation!ConfirmationInv

\* Names of nothing are not names, and a used ticket, a missing approval and a missing
\* claim are tickets, approvals and claims.
LEMMA ConfirmationNothing ==
  /\ NoClaim \notin Previews /\ NoCaller \notin Callers /\ NoEntry \notin Entries
  /\ TicketTTL \in Nat /\ 0 \in Confirmation!Times /\ TicketTTL \in Confirmation!Times
  /\ Confirmation!Used \in Confirmation!Tickets /\ Confirmation!Used.st = "over"
  /\ Confirmation!NoApproval \in Confirmation!ApprovalRecords
  /\ Confirmation!NoApproval.st = "none"
  /\ Confirmation!NoClaimed \in Confirmation!Claims
  /\ Confirmation!NoClaimed.by = NoClaim /\ Confirmation!NoClaimed.left = 0
  BY ConfirmationParameters
  DEF Confirmation!Parameters, Confirmation!Times, Confirmation!Used, Confirmation!NoTicket,
      Confirmation!Tickets,
      Confirmation!TicketStates, Confirmation!NoApproval, Confirmation!ApprovalRecords,
      Confirmation!NoClaimed, Confirmation!Claims

\* What pruning does to tickets, claims and approvals: each stays or goes.
LEMMA ConfirmationPrunes ==
  ASSUME Confirmation!ConfirmationTypes, NEW t \in [Previews -> Confirmation!Tickets],
         NEW p \in Previews
  PROVE  /\ Confirmation!Unexpired(t) \in [Previews -> Confirmation!Tickets]
         /\ \A q \in Previews : Confirmation!Unexpired(t)[q] \in {t[q], Confirmation!Used}
         /\ \A q \in Previews : t[q].st # "held" => Confirmation!Unexpired(t)[q] = t[q]
         /\ Confirmation!ClaimsKept(t) \in [Entries -> Confirmation!Claims]
         /\ \A e \in Entries : \/ Confirmation!ClaimsKept(t)[e] = x4[e]
                               \/ /\ x4[e].left = 0
                                  /\ Confirmation!ClaimsKept(t)[e] = Confirmation!NoClaimed
         /\ Confirmation!Filed \in [Previews -> Confirmation!ApprovalRecords]
         /\ \A q \in Previews : Confirmation!Filed[q] \in {x3[q], Confirmation!NoApproval}
         /\ Confirmation!Staged(p) \in [Previews -> Confirmation!ApprovalRecords]
         /\ \A q \in Previews : \/ Confirmation!Staged(p)[q] \in {x3[q], Confirmation!NoApproval}
                                \/ q = p /\ Confirmation!Staged(p)[q].st = "staged"
  <1>1. /\ Confirmation!Unexpired(t) \in [Previews -> Confirmation!Tickets]
        /\ \A q \in Previews : Confirmation!Unexpired(t)[q] \in {t[q], Confirmation!Used}
        /\ \A q \in Previews : t[q].st # "held" => Confirmation!Unexpired(t)[q] = t[q]
    BY ConfirmationNothing DEF Confirmation!Unexpired
  <1>2. \A e \in Entries : x4[e] \in Confirmation!Claims /\ x4[e].left \in Nat
    BY DEF Confirmation!ConfirmationTypes, Confirmation!Claims
  <1>3. /\ Confirmation!ClaimsKept(t) \in [Entries -> Confirmation!Claims]
        /\ \A e \in Entries : \/ Confirmation!ClaimsKept(t)[e] = x4[e]
                              \/ /\ x4[e].left = 0
                                 /\ Confirmation!ClaimsKept(t)[e] = Confirmation!NoClaimed
    BY <1>2, ConfirmationNothing DEF Confirmation!ClaimsKept
  <1>4. /\ Confirmation!Filed \in [Previews -> Confirmation!ApprovalRecords]
        /\ \A q \in Previews : Confirmation!Filed[q] \in {x3[q], Confirmation!NoApproval}
    BY ConfirmationNothing DEF Confirmation!ConfirmationTypes, Confirmation!Filed
  <1>5. [st |-> "staged", left |-> TicketTTL] \in Confirmation!ApprovalRecords
    BY ConfirmationNothing DEF Confirmation!ApprovalRecords
  <1>6. /\ Confirmation!Staged(p) \in [Previews -> Confirmation!ApprovalRecords]
        /\ \A q \in Previews : \/ Confirmation!Staged(p)[q] \in {x3[q], Confirmation!NoApproval}
                               \/ q = p /\ Confirmation!Staged(p)[q].st = "staged"
    BY <1>4, <1>5, ConfirmationNothing DEF Confirmation!Staged
  <1>7. QED
    BY <1>1, <1>3, <1>4, <1>6

\* What a preview does: others' tickets stay or go, its own is made or used up.
LEMMA PreviewEffect ==
  ASSUME Confirmation!ConfirmationTypes, NEW p \in Previews, Confirmation!Preview(p)
  PROVE  /\ x2[p].st = "reading" /\ x2[p].entry \in Entries
         /\ \A q \in Previews \ {p} : x2'[q] \in {x2[q], Confirmation!Used}
         /\ \A q \in Previews \ {p} : x2[q].st # "held" => x2'[q] = x2[q]
         /\ x2' \in [Previews -> Confirmation!Tickets]
         /\ \/ x2'[p] = Confirmation!Used
            \/ /\ x2'[p].st = "held" /\ x2'[p].entry = x2[p].entry
               /\ x2'[p].claim = x4'[x2[p].entry].by /\ x2'[p].seen = x6[x2[p].entry]
         /\ x4' \in [Entries -> Confirmation!Claims]
         /\ \A e \in Entries : \/ x4'[e] = x4[e]
                               \/ x4[e].left = 0 /\ x4'[e] = Confirmation!NoClaimed
         /\ x3' \in [Previews -> Confirmation!ApprovalRecords]
         /\ \A q \in Previews : \/ x3'[q] \in {x3[q], Confirmation!NoApproval}
                                \/ q = p /\ x3'[q].st = "staged"
         /\ UNCHANGED <<x1, x5, x6, x7>>
  <1> DEFINE t == Confirmation!Unexpired(x2)
             kept == [q \in Previews |->
                       IF q \in Confirmation!Siblings(p) /\ t[q].st = "held"
                       THEN Confirmation!Used ELSE t[q]]
             new == [x2[p] EXCEPT !.st = "held", !.left = TicketTTL,
                       !.claim = Confirmation!ClaimsKept(t)[x2[p].entry].by,
                       !.seen = x6[x2[p].entry]]
  <1>1. /\ x2[p].st = "reading" /\ x2[p].entry \in Entries /\ x2[p] \in Confirmation!Tickets
        /\ x6[x2[p].entry] \in Nat /\ x2 \in [Previews -> Confirmation!Tickets]
        /\ x3 \in [Previews -> Confirmation!ApprovalRecords]
    BY DEF Confirmation!Preview, Confirmation!ConfirmationTypes
  <1>2. /\ t \in [Previews -> Confirmation!Tickets]
        /\ \A q \in Previews : t[q] \in {x2[q], Confirmation!Used}
        /\ \A q \in Previews : x2[q].st # "held" => t[q] = x2[q]
    BY <1>1, ConfirmationPrunes
  <1>3. /\ Confirmation!ClaimsKept(t) \in [Entries -> Confirmation!Claims]
        /\ \A e \in Entries : \/ Confirmation!ClaimsKept(t)[e] = x4[e]
                              \/ /\ x4[e].left = 0
                                 /\ Confirmation!ClaimsKept(t)[e] = Confirmation!NoClaimed
        /\ Confirmation!Staged(p) \in [Previews -> Confirmation!ApprovalRecords]
        /\ \A q \in Previews : \/ Confirmation!Staged(p)[q] \in {x3[q], Confirmation!NoApproval}
                               \/ q = p /\ Confirmation!Staged(p)[q].st = "staged"
    BY <1>2, ConfirmationPrunes
  <1>4. /\ x4' = Confirmation!ClaimsKept(t)
        /\ x2' \in {[kept EXCEPT ![p] = [@ EXCEPT !.st = "held", !.left = TicketTTL,
                                  !.claim = Confirmation!ClaimsKept(t)[x2[p].entry].by,
                                  !.seen = x6[x2[p].entry]]],
                    [kept EXCEPT ![p] = Confirmation!Used], [t EXCEPT ![p] = Confirmation!Used]}
        /\ x3' \in {x3, Confirmation!Staged(p)}
        /\ UNCHANGED <<x1, x5, x6, x7>>
    BY DEF Confirmation!Preview
  <1> HIDE DEF t
  <1>5. /\ kept \in [Previews -> Confirmation!Tickets] /\ kept[p] = x2[p]
        /\ \A q \in Previews : kept[q] \in {x2[q], Confirmation!Used}
        /\ \A q \in Previews : x2[q].st # "held" => kept[q] = x2[q]
    BY <1>1, <1>2, ConfirmationNothing
  <1>6. /\ new \in Confirmation!Tickets /\ new.st = "held" /\ new.entry = x2[p].entry
        /\ new.claim = Confirmation!ClaimsKept(t)[x2[p].entry].by
        /\ new.seen = x6[x2[p].entry]
    <2>1. Confirmation!ClaimsKept(t)[x2[p].entry].by \in Previews \cup {NoClaim}
      BY <1>1, <1>3 DEF Confirmation!Claims
    <2>2. QED
      BY <1>1, <2>1, ConfirmationNothing DEF Confirmation!Tickets, Confirmation!TicketStates
  <1>7. x2' \in {[kept EXCEPT ![p] = new], [kept EXCEPT ![p] = Confirmation!Used],
                 [t EXCEPT ![p] = Confirmation!Used]}
    BY <1>4, <1>5
  <1> HIDE DEF kept, new
  <1>8. /\ \A q \in Previews \ {p} : x2'[q] \in {kept[q], t[q]}
        /\ x2'[p] \in {new, Confirmation!Used}
        /\ x2' \in [Previews -> Confirmation!Tickets]
    BY <1>2, <1>5, <1>6, <1>7, ConfirmationNothing
  <1>9. QED
    BY <1>1, <1>2, <1>3, <1>4, <1>5, <1>6, <1>8

\* The fields of a ticket, an approval and a claim.
LEMMA ConfirmationFields ==
  ASSUME Confirmation!ConfirmationTypes
  PROVE  /\ \A p \in Previews :
              /\ x2[p] \in Confirmation!Tickets /\ x2[p].left \in 0..TicketTTL
              /\ x2[p].seen \in Nat
              /\ x2[p].claim \in Previews \cup {NoClaim} /\ x2[p].st \in Confirmation!TicketStates
              /\ x3[p].st \in {"none", "staged", "approved"}
         /\ \A e \in Entries : /\ x4[e] \in Confirmation!Claims /\ x4[e].left \in Nat
                               /\ x4[e].by \in Previews \cup {NoClaim}
                               /\ x6[e] \in Nat
  BY DEF Confirmation!ConfirmationTypes, Confirmation!Tickets, Confirmation!ApprovalRecords,
     Confirmation!Claims, Confirmation!Times

\* Steps that send nothing and make no ticket: tickets stay, are used up, or get on
\* towards the dispatch; approvals stay, go, or are given where nothing is sent; claims
\* stay or lapse.
LEMMA ConfirmationQuiet ==
  ASSUME Confirmation!ConfirmationInv,
         x2' \in [Previews -> Confirmation!Tickets],
         \A q \in Previews :
           \/ x2'[q] = x2[q]
           \/ x2[q].st # "sent" /\ x2'[q] = Confirmation!Used
           \/ /\ x2[q].st \in {"held", "preflight"} /\ x2'[q].st \in {"preflight", "checked"}
              /\ x2'[q].entry = x2[q].entry /\ x2'[q].claim = x2[q].claim
              /\ x2'[q].seen = x2[q].seen /\ x2'[q].left = x2[q].left,
         x3' \in [Previews -> Confirmation!ApprovalRecords],
         \A q \in Previews : \/ x3'[q].st \in {x3[q].st, "none"}
                             \/ x3[q].st = "staged" /\ x3'[q].st = "approved" /\ q \in x7',
         x4' \in [Entries -> Confirmation!Claims],
         \A e \in Entries : \/ x4'[e] = x4[e]
                            \/ x4[e].left = 0 /\ x4'[e] = Confirmation!NoClaimed,
         UNCHANGED <<x1, x5, x6>>, x7 \subseteq x7'
  PROVE  Confirmation!ConfirmationInv'
  <1> USE ConfirmationNothing DEF Confirmation!ConfirmationInv
  <1>1. Confirmation!ConfirmationTypes'
    BY DEF Confirmation!ConfirmationTypes
  <1>2. Confirmation!GivenAndTaken'
    BY ConfirmationFields DEF Confirmation!GivenAndTaken
  <1>3. Confirmation!OneOnItsWay'
    BY DEF Confirmation!OneOnItsWay
  <1>4. \A q \in Previews : x2[q].st \in {"sent", "over"} => x2'[q].st \in {"sent", "over"}
    OBVIOUS
  <1>5. Confirmation!ClaimsAreUsed'
    BY <1>4, ConfirmationFields DEF Confirmation!ClaimsAreUsed
  <1>6. Confirmation!TriedSince'
    <2> SUFFICES ASSUME NEW p \in Previews, x2'[p].st \in {"held", "preflight", "checked"}
                 PROVE  /\ x2'[p].claim # NoClaim => x2'[x2'[p].claim].st \in {"sent", "over"}
                        /\ x6'[x2'[p].entry] # x2'[p].seen =>
                             IF x2'[p].claim = NoClaim THEN x4'[x2'[p].entry].left >= x2'[p].left
                             ELSE x4'[x2'[p].entry].by # x2'[p].claim
      BY DEF Confirmation!TriedSince
    <2>1. /\ x2[p].st \in {"held", "preflight", "checked"}
          /\ x2'[p].entry = x2[p].entry /\ x2'[p].claim = x2[p].claim
          /\ x2'[p].seen = x2[p].seen /\ x2'[p].left = x2[p].left
      OBVIOUS
    <2>2. x2[p].entry \in Entries
      BY <2>1 DEF Confirmation!ConfirmationTypes
    <2>3. x2'[p].claim # NoClaim => x2'[x2'[p].claim].st \in {"sent", "over"}
      BY <1>4, <2>1, ConfirmationFields DEF Confirmation!TriedSince
    <2>4. ASSUME x6[x2[p].entry] # x2[p].seen
          PROVE  IF x2[p].claim = NoClaim THEN x4'[x2[p].entry].left >= x2[p].left
                 ELSE x4'[x2[p].entry].by # x2[p].claim
      <3>1. IF x2[p].claim = NoClaim THEN x4[x2[p].entry].left >= x2[p].left
            ELSE x4[x2[p].entry].by # x2[p].claim
        BY <2>1, <2>4 DEF Confirmation!TriedSince
      <3>2. QED
        BY <2>2, <3>1, ConfirmationFields
    <2>5. QED
      BY <2>1, <2>3, <2>4
  <1>7. QED
    BY <1>1, <1>2, <1>3, <1>5, <1>6

LEMMA ConfirmationStep ==
  ASSUME Confirmation!ConfirmationInv, Confirmation!Next
  PROVE  Confirmation!ConfirmationInv'
  <1>t. /\ Confirmation!ConfirmationTypes
        /\ x2 \in [Previews -> Confirmation!Tickets]
        /\ x3 \in [Previews -> Confirmation!ApprovalRecords]
        /\ x4 \in [Entries -> Confirmation!Claims] /\ x6 \in [Entries -> Nat]
    BY DEF Confirmation!ConfirmationInv, Confirmation!ConfirmationTypes
  <1> USE ConfirmationNothing, <1>t
  <1>1. ASSUME NEW p \in Previews,
               Confirmation!ReadRefused(p) \/ Confirmation!NotAdmitted(p)
                 \/ Confirmation!PreflightFails(p)
        PROVE  Confirmation!ConfirmationInv'
    <2>1. UNCHANGED <<x1, x3, x4, x5, x6, x7>> /\ x2' = [x2 EXCEPT ![p] = Confirmation!Used]
              /\ x2[p].st # "sent"
      BY <1>1 DEF Confirmation!ReadRefused, Confirmation!NotAdmitted, Confirmation!PreflightFails,
         Confirmation!Over
    <2>2. QED
      BY <2>1, ConfirmationQuiet
  <1>2. ASSUME NEW p \in Previews, Confirmation!Approve(p)
        PROVE  Confirmation!ConfirmationInv'
    <2>1. /\ UNCHANGED <<x1, x2, x4, x5, x6>> /\ x7' = x7 \cup {p}
          /\ x3' = [Confirmation!Filed EXCEPT ![p].st = "approved"]
          /\ Confirmation!Filed[p].st = "staged"
      BY <1>2 DEF Confirmation!Approve
    <2>2. /\ Confirmation!Filed \in [Previews -> Confirmation!ApprovalRecords]
          /\ \A q \in Previews : Confirmation!Filed[q] \in {x3[q], Confirmation!NoApproval}
      BY ConfirmationPrunes
    <2>3. /\ x3' \in [Previews -> Confirmation!ApprovalRecords] /\ x3'[p].st = "approved"
          /\ \A q \in Previews \ {p} : x3'[q] = Confirmation!Filed[q]
      BY <2>1, <2>2 DEF Confirmation!ApprovalRecords
    <2>4. x3[p].st = "staged"
      BY <2>1, <2>2
    <2>5. QED
      BY <2>1, <2>2, <2>3, <2>4, ConfirmationQuiet
  <1>3. ASSUME NEW p \in Previews, Confirmation!Confirm(p)
        PROVE  Confirmation!ConfirmationInv'
    <2> DEFINE used == IF x2[p].left > 0 THEN [x2 EXCEPT ![p].st = "preflight"]
                       ELSE Confirmation!Over(p)
    <2>1. /\ UNCHANGED <<x1, x3, x5, x6, x7>> /\ x2[p].st = "held"
          /\ x2' = Confirmation!Unexpired(used)
          /\ x4' = Confirmation!ClaimsKept(Confirmation!Unexpired(used))
      BY <1>3 DEF Confirmation!Confirm
    <2>2. /\ used \in [Previews -> Confirmation!Tickets]
          /\ \A q \in Previews \ {p} : used[q] = x2[q]
          /\ \/ used[p] = Confirmation!Used
             \/ /\ used[p].st = "preflight" /\ used[p].entry = x2[p].entry
                /\ used[p].claim = x2[p].claim /\ used[p].seen = x2[p].seen
                /\ used[p].left = x2[p].left
      BY DEF Confirmation!Over, Confirmation!Tickets, Confirmation!TicketStates
    <2> HIDE DEF used
    <2>3. /\ x2' \in [Previews -> Confirmation!Tickets]
          /\ \A q \in Previews : x2'[q] \in {used[q], Confirmation!Used}
          /\ \A q \in Previews : used[q].st # "held" => x2'[q] = used[q]
      BY <2>1, <2>2, ConfirmationPrunes
    <2>4. /\ x4' \in [Entries -> Confirmation!Claims]
          /\ \A e \in Entries : \/ x4'[e] = x4[e]
                                \/ x4[e].left = 0 /\ x4'[e] = Confirmation!NoClaimed
      BY <2>1, <2>3, ConfirmationPrunes
    <2>5. \A q \in Previews :
           \/ x2'[q] = x2[q]
           \/ x2[q].st # "sent" /\ x2'[q] = Confirmation!Used
           \/ /\ x2[q].st \in {"held", "preflight"} /\ x2'[q].st \in {"preflight", "checked"}
              /\ x2'[q].entry = x2[q].entry /\ x2'[q].claim = x2[q].claim
              /\ x2'[q].seen = x2[q].seen /\ x2'[q].left = x2[q].left
      BY <2>1, <2>2, <2>3
    <2>6. QED
      BY <2>1, <2>3, <2>4, <2>5, ConfirmationQuiet
  <1>4. ASSUME NEW p \in Previews, Confirmation!LookAgain(p)
        PROVE  Confirmation!ConfirmationInv'
    <2>1. /\ UNCHANGED <<x1, x3, x4, x5, x6, x7>> /\ x2[p].st = "preflight"
          /\ x2' = [x2 EXCEPT ![p].st = "checked"]
      BY <1>4 DEF Confirmation!LookAgain
    <2>2. /\ x2' \in [Previews -> Confirmation!Tickets]
          /\ \A q \in Previews \ {p} : x2'[q] = x2[q]
          /\ x2'[p].st = "checked" /\ x2'[p].entry = x2[p].entry /\ x2'[p].claim = x2[p].claim
          /\ x2'[p].seen = x2[p].seen /\ x2'[p].left = x2[p].left
      BY <2>1 DEF Confirmation!Tickets, Confirmation!TicketStates
    <2>3. QED
      BY <2>1, <2>2, ConfirmationQuiet
  <1>5. ASSUME NEW p \in Previews, Confirmation!NotApproved(p)
        PROVE  Confirmation!ConfirmationInv'
    <2>1. /\ UNCHANGED <<x1, x4, x5, x6, x7>> /\ x2[p].st = "checked"
          /\ x2' = [x2 EXCEPT ![p] = Confirmation!Used]
          /\ x3' \in {x3, [Confirmation!Filed EXCEPT ![p] = Confirmation!NoApproval]}
      BY <1>5 DEF Confirmation!NotApproved, Confirmation!Over
    <2>2. /\ Confirmation!Filed \in [Previews -> Confirmation!ApprovalRecords]
          /\ \A q \in Previews : Confirmation!Filed[q] \in {x3[q], Confirmation!NoApproval}
      BY ConfirmationPrunes
    <2>3. /\ x3' \in [Previews -> Confirmation!ApprovalRecords]
          /\ \A q \in Previews : x3'[q] \in {x3[q], Confirmation!NoApproval}
      BY <2>1, <2>2
    <2>4. QED
      BY <2>1, <2>3, ConfirmationQuiet
  <1> USE DEF Confirmation!ConfirmationInv
  <1>6. ASSUME NEW e \in Entries, Confirmation!Change(e)
        PROVE  Confirmation!ConfirmationInv'
    BY <1>6 DEF Confirmation!Change, Confirmation!ConfirmationTypes, Confirmation!GivenAndTaken,
       Confirmation!OneOnItsWay, Confirmation!ClaimsAreUsed, Confirmation!TriedSince
  <1>7. CASE Confirmation!Tick
    <2>1. /\ UNCHANGED <<x1, x5, x6, x7>>
          /\ x2' \in [Previews -> Confirmation!Tickets]
          /\ \A p \in Previews :
               /\ x2'[p].st = x2[p].st /\ x2'[p].entry = x2[p].entry
               /\ x2'[p].claim = x2[p].claim /\ x2'[p].seen = x2[p].seen
               /\ x2'[p].left = Confirmation!Less(x2[p].left)
      <3>a. \A n \in 0..TicketTTL : Confirmation!Less(n) \in Confirmation!Times
        BY DEF Confirmation!Less, Confirmation!Times
      <3>1. \A p \in Previews : Confirmation!Less(x2[p].left) \in Confirmation!Times
        BY <3>a, ConfirmationFields
      <3>2. QED
        BY <1>7, <3>1 DEF Confirmation!Tick, Confirmation!Tickets
    <2>2. /\ x3' \in [Previews -> Confirmation!ApprovalRecords]
          /\ \A p \in Previews : x3'[p].st = x3[p].st
      <3>1. \A p \in Previews : Confirmation!Less(x3[p].left) \in Nat
        BY DEF Confirmation!Less, Confirmation!ApprovalRecords
      <3>2. QED
        BY <1>7, <3>1 DEF Confirmation!Tick, Confirmation!ApprovalRecords
    <2>3. /\ x4' \in [Entries -> Confirmation!Claims]
          /\ \A e \in Entries : x4'[e].by = x4[e].by
                 /\ x4'[e].left = Confirmation!Less(x4[e].left)
      <3>1. \A e \in Entries : Confirmation!Less(x4[e].left) \in Nat
        BY ConfirmationFields DEF Confirmation!Less
      <3>2. QED
        BY <1>7, <3>1 DEF Confirmation!Tick, Confirmation!Claims
    <2>a. Confirmation!ConfirmationTypes'
      BY <2>1, <2>2, <2>3 DEF Confirmation!ConfirmationTypes
    <2>b. Confirmation!GivenAndTaken'
      BY <2>1, <2>2 DEF Confirmation!GivenAndTaken
    <2>c. Confirmation!OneOnItsWay'
      BY <2>1 DEF Confirmation!OneOnItsWay
    <2>5. Confirmation!ClaimsAreUsed'
      BY <2>1, <2>3, ConfirmationFields DEF Confirmation!ClaimsAreUsed, Confirmation!Less
    <2>6. Confirmation!TriedSince'
      <3>1. \A m, n \in Nat : m >= n => Confirmation!Less(m) >= Confirmation!Less(n)
        BY DEF Confirmation!Less
      <3>2. \A p \in Previews : x2[p].st \in {"held", "preflight", "checked"} =>
            x2[p].entry \in Entries
        BY DEF Confirmation!ConfirmationTypes
      <3>3. QED
        BY <2>1, <2>3, <3>1, <3>2, ConfirmationFields DEF Confirmation!TriedSince
    <2>7. QED
      BY <2>a, <2>b, <2>c, <2>5, <2>6
  <1>8. CASE Confirmation!Restart
    <2>1. Confirmation!NoTicket \in Confirmation!Tickets /\ Confirmation!NoTicket.st = "none"
      BY DEF Confirmation!NoTicket, Confirmation!Tickets, Confirmation!TicketStates
    <2>2. /\ UNCHANGED <<x1, x3, x6, x7>> /\ x2' \in [Previews -> Confirmation!Tickets]
          /\ \A p \in Previews : x2'[p].st \in {"none", "over"}
          /\ x4' = [e \in Entries |-> Confirmation!NoClaimed]
      BY <1>8, <2>1 DEF Confirmation!Restart
    <2>3. QED
      BY <2>2 DEF Confirmation!ConfirmationTypes, Confirmation!GivenAndTaken,
         Confirmation!OneOnItsWay, Confirmation!ClaimsAreUsed, Confirmation!TriedSince
  <1>9. ASSUME NEW p \in Previews, NEW c \in Callers,
               NEW e \in Entries, Confirmation!Read(p, c, e)
        PROVE  Confirmation!ConfirmationInv'
    <2>1. /\ UNCHANGED <<x1, x3, x4, x5, x6, x7>> /\ x2[p].st = "none"
          /\ x2' = [x2 EXCEPT ![p] = [Confirmation!NoTicket EXCEPT !.st = "reading", !.caller = c,
                                        !.entry = e, !.rev = x1[e].rev]]
      BY <1>9 DEF Confirmation!Read
    <2> DEFINE new == [Confirmation!NoTicket EXCEPT !.st = "reading", !.caller = c,
                                        !.entry = e, !.rev = x1[e].rev]
    <2>2. new \in Confirmation!Tickets /\ new.st = "reading" /\ new.entry = e
      <3>1. x1[e].rev \in Int
        BY DEF Confirmation!ConfirmationTypes
      <3>2. QED
        BY <3>1 DEF Confirmation!NoTicket, Confirmation!Tickets, Confirmation!TicketStates
    <2> HIDE DEF new
    <2>3. /\ x2' \in [Previews -> Confirmation!Tickets] /\ x2'[p] = new
          /\ \A q \in Previews \ {p} : x2'[q] = x2[q]
      BY <2>1, <2>2 DEF new
    <2>4. QED
      BY <2>1, <2>2, <2>3, ConfirmationFields
      DEF Confirmation!ConfirmationTypes, Confirmation!GivenAndTaken,
         Confirmation!OneOnItsWay, Confirmation!ClaimsAreUsed, Confirmation!TriedSince
  <1>10. ASSUME NEW p \in Previews, Confirmation!Preview(p)
         PROVE  Confirmation!ConfirmationInv'
    <2>1. Confirmation!ConfirmationTypes'
      BY <1>10, PreviewEffect DEF Confirmation!ConfirmationTypes
    <2>2. \A q \in Previews : x2[q].st \in {"sent", "over"} => x2'[q] = x2[q]
      BY <1>10, PreviewEffect
    <2>3. Confirmation!GivenAndTaken'
      BY <1>10, <2>2, PreviewEffect DEF Confirmation!GivenAndTaken
    <2>4. Confirmation!OneOnItsWay'
      BY <1>10, <2>2, PreviewEffect DEF Confirmation!OneOnItsWay
    <2>5. Confirmation!ClaimsAreUsed'
      BY <1>10, <2>2, PreviewEffect, ConfirmationFields DEF Confirmation!ClaimsAreUsed
    <2>6. Confirmation!TriedSince'
      <3>1. ASSUME NEW q \in Previews, x2'[q].st \in {"held", "preflight", "checked"}, q # p
            PROVE  /\ x2'[q].claim # NoClaim => x2'[x2'[q].claim].st \in {"sent", "over"}
                   /\ x6'[x2'[q].entry] # x2'[q].seen =>
                        IF x2'[q].claim = NoClaim THEN x4'[x2'[q].entry].left >= x2'[q].left
                        ELSE x4'[x2'[q].entry].by # x2'[q].claim
        <4>1. x2'[q] = x2[q] /\ x2[q].entry \in Entries
          BY <1>10, <3>1, PreviewEffect DEF Confirmation!ConfirmationTypes
        <4>2. x2[q].claim # NoClaim => x2'[x2[q].claim].st \in {"sent", "over"}
          BY <2>2, <3>1, <4>1, ConfirmationFields DEF Confirmation!TriedSince
        <4>3. x4'[x2[q].entry] = x4[x2[q].entry] \/ (x4[x2[q].entry].left = 0
                  /\ x4'[x2[q].entry] = Confirmation!NoClaimed)
          BY <1>10, <4>1, PreviewEffect
        <4>4. x6' = x6
          BY <1>10, PreviewEffect
        <4>5. QED
          BY <3>1, <4>1, <4>2, <4>3, <4>4, ConfirmationFields DEF Confirmation!TriedSince
      <3>2. ASSUME x2'[p].st \in {"held", "preflight", "checked"}
            PROVE  /\ x2'[p].claim # NoClaim => x2'[x2'[p].claim].st \in {"sent", "over"}
                   /\ x6'[x2'[p].entry] = x2'[p].seen
        <4>1. /\ x2'[p].entry = x2[p].entry /\ x2[p].entry \in Entries
              /\ x2'[p].claim = x4'[x2[p].entry].by /\ x2'[p].seen = x6[x2[p].entry] /\ x6' = x6
          BY <1>10, <3>2, PreviewEffect
        <4>2. QED
          BY <2>5, <4>1 DEF Confirmation!ClaimsAreUsed
      <3>3. QED
        BY <3>1, <3>2 DEF Confirmation!TriedSince
    <2>7. QED
      BY <2>1, <2>3, <2>4, <2>5, <2>6
  <1>11. ASSUME NEW p \in Previews, Confirmation!Dispatch(p)
         PROVE  Confirmation!ConfirmationInv'
    <2> DEFINE e == x2[p].entry
    <2>1. /\ e \in Entries /\ x2[p].st = "checked" /\ e \notin x5
          /\ Confirmation!Filed[p].st = "approved"
          /\ x3' = [Confirmation!Filed EXCEPT ![p] = Confirmation!NoApproval]
          /\ x5' = x5 \cup {e} /\ UNCHANGED <<x1, x7>>
          /\ x4' = [x4 EXCEPT ![e] = [by |-> p, left |-> TicketTTL]]
          /\ x6' = [x6 EXCEPT ![e] = @ + 1]
      BY <1>11 DEF Confirmation!Dispatch, Confirmation!Current, Confirmation!ConfirmationTypes
    <2>2. /\ x2' \in [Previews -> Confirmation!Tickets]
          /\ x2'[p].st = "sent" /\ x2'[p].entry = e
          /\ \A q \in Previews \ {p} :
               x2'[q] = IF x2[q].entry = e /\ x2[q].st = "held" THEN Confirmation!Used ELSE x2[q]
      BY <1>11 DEF Confirmation!Dispatch, Confirmation!Tickets, Confirmation!TicketStates
    <2>a. /\ Confirmation!Filed \in [Previews -> Confirmation!ApprovalRecords]
          /\ \A q \in Previews : Confirmation!Filed[q] \in {x3[q], Confirmation!NoApproval}
      BY ConfirmationPrunes
    <2>3. /\ x3' \in [Previews -> Confirmation!ApprovalRecords] /\ x3'[p].st = "none"
          /\ \A q \in Previews : x3'[q] \in {x3[q], Confirmation!NoApproval}
          /\ x3[p].st = "approved"
      BY <2>1, <2>a
    <2>4. /\ x4' \in [Entries -> Confirmation!Claims] /\ x4'[e].by = p /\ x4'[e].left = TicketTTL
          /\ \A f \in Entries \ {e} : x4'[f] = x4[f]
      BY <2>1 DEF Confirmation!Claims
    <2>5. /\ x6' \in [Entries -> Nat] /\ \A f \in Entries \ {e} : x6'[f] = x6[f]
      BY <2>1
    <2>6. \A q \in Previews : x2[q].st \in {"sent", "over"} => x2'[q] = x2[q]
      BY <2>1, <2>2
    <2> HIDE DEF e
    <2>7. Confirmation!ConfirmationTypes'
      BY <2>1, <2>2, <2>3, <2>4, <2>5 DEF Confirmation!ConfirmationTypes
    <2>8. Confirmation!GivenAndTaken'
      BY <2>1, <2>2, <2>3 DEF Confirmation!GivenAndTaken
    <2>9. Confirmation!OneOnItsWay'
      BY <2>1, <2>2 DEF Confirmation!OneOnItsWay
    <2>10. Confirmation!ClaimsAreUsed'
      BY <2>2, <2>4, <2>6, ConfirmationFields DEF Confirmation!ClaimsAreUsed
    <2>11. Confirmation!TriedSince'
      <3> SUFFICES ASSUME NEW q \in Previews, x2'[q].st \in {"held", "preflight", "checked"}
                   PROVE  /\ x2'[q].claim # NoClaim => x2'[x2'[q].claim].st \in {"sent", "over"}
                          /\ x6'[x2'[q].entry] # x2'[q].seen =>
                               IF x2'[q].claim = NoClaim THEN x4'[x2'[q].entry].left >= x2'[q].left
                               ELSE x4'[x2'[q].entry].by # x2'[q].claim
        BY DEF Confirmation!TriedSince
      <3>1. q # p /\ x2'[q] = x2[q] /\ x2[q].entry \in Entries
        BY <2>2 DEF Confirmation!ConfirmationTypes
      <3>2. x2[q].claim # NoClaim => x2'[x2[q].claim].st \in {"sent", "over"} /\ x2[q].claim # p
        BY <2>1, <2>6, <3>1, ConfirmationFields DEF Confirmation!TriedSince
      <3>3. CASE x2[q].entry = e
        <4>1. x2[q].left <= TicketTTL
          BY <3>1, ConfirmationFields
        <4>2. QED
          BY <2>4, <3>1, <3>2, <3>3, <4>1
      <3>4. CASE x2[q].entry # e
        BY <2>4, <2>5, <3>1, <3>2, <3>4 DEF Confirmation!TriedSince
      <3>5. QED
        BY <3>3, <3>4
    <2>12. QED
      BY <2>7, <2>8, <2>9, <2>10, <2>11
  <1>12. ASSUME NEW p \in Previews, Confirmation!Answer(p)
         PROVE  Confirmation!ConfirmationInv'
    <2>1. /\ x2[p].st = "sent" /\ UNCHANGED <<x1, x3, x4, x6, x7>>
          /\ x5' = x5 \ {x2[p].entry}
          /\ x2' \in [Previews -> Confirmation!Tickets] /\ x2'[p] = Confirmation!Used
          /\ \A q \in Previews \ {p} : x2'[q] = x2[q]
      BY <1>12 DEF Confirmation!Answer, Confirmation!Over
    <2>2. Confirmation!ConfirmationTypes'
      BY <2>1 DEF Confirmation!ConfirmationTypes
    <2>3. Confirmation!GivenAndTaken'
      BY <2>1 DEF Confirmation!GivenAndTaken
    <2>4. Confirmation!OneOnItsWay'
      BY <2>1 DEF Confirmation!OneOnItsWay
    <2>5. \A q \in Previews : x2[q].st \in {"sent", "over"} => x2'[q].st \in {"sent", "over"}
      BY <2>1
    <2>6. Confirmation!ClaimsAreUsed'
      BY <2>1, <2>5, ConfirmationFields DEF Confirmation!ClaimsAreUsed
    <2>7. Confirmation!TriedSince'
      BY <2>1, <2>5, ConfirmationFields DEF Confirmation!TriedSince
    <2>8. QED
      BY <2>2, <2>3, <2>4, <2>6, <2>7
  <1>13. QED
    BY <1>1, <1>2, <1>3, <1>4, <1>5, <1>6, <1>7, <1>8, <1>9, <1>10, <1>11, <1>12
    DEF Confirmation!Next

LEMMA ConfirmationInit == Init => ConfirmationInv
  <1> SUFFICES ASSUME Init, part = "confirmation" PROVE Confirmation!ConfirmationInv
    BY DEF ConfirmationInv
  <1>1. Confirmation!Init
    BY DEF Init
  <1>2. Confirmation!NoTicket \in Confirmation!Tickets /\ Confirmation!NoTicket.st = "none"
    BY ConfirmationNothing DEF Confirmation!NoTicket, Confirmation!Tickets,
       Confirmation!TicketStates
  <1>3. QED
    BY <1>1, <1>2, ConfirmationNothing
    DEF Confirmation!Init, Confirmation!ConfirmationInv, Confirmation!ConfirmationTypes,
        Confirmation!GivenAndTaken, Confirmation!OneOnItsWay, Confirmation!ClaimsAreUsed,
        Confirmation!TriedSince

LEMMA ConfirmationKept == ConfirmationInv /\ [Next]_vars => ConfirmationInv'
  <1> SUFFICES ASSUME ConfirmationInv, [Next]_vars, part' = "confirmation"
               PROVE  Confirmation!ConfirmationInv'
    BY DEF ConfirmationInv
  <1>1. CASE part = "confirmation" /\ Confirmation!Next
    BY <1>1, ConfirmationStep DEF ConfirmationInv
  <1>2. CASE part = "confirmation" /\ UNCHANGED vars
    BY <1>2 DEF ConfirmationInv, vars, Confirmation!ConfirmationInv,
       Confirmation!ConfirmationTypes, Confirmation!GivenAndTaken, Confirmation!OneOnItsWay,
       Confirmation!ClaimsAreUsed, Confirmation!TriedSince
  <1>3. QED
    BY <1>1, <1>2 DEF Next, vars, RunCache, RunProject, RunConfirmation, RunLogin, RunCorrections,
       RunHistory, RunApprovals, RunShift, RunStop, RunHealth, RunDiscovery

\* What goes out was approved, as this very preview, by the administrator; its approval
\* is used up, whatever restarts follow; and no other command for its message is out.
THEOREM SentOnceApproved == Spec => []ApprovedOnce
  <1>1. ConfirmationInv => ApprovedOnce
    BY DEF ConfirmationInv, ApprovedOnce, Confirmation!ApprovedOnce,
       Confirmation!ConfirmationInv, Confirmation!GivenAndTaken, Confirmation!OneOnItsWay
  <1>2. QED
    BY <1>1, ConfirmationInit, ConfirmationKept, PTL DEF Spec

\* A dispatch is the first since its preview: the claim that it finds is the one the
\* ticket knew, so nobody has tried the message since.
LEMMA DispatchIsFirst ==
  ASSUME Confirmation!ConfirmationInv, NEW p \in Previews, Confirmation!Dispatch(p)
  PROVE  x6[x2[p].entry] = x2[p].seen /\ x2[p].entry \notin x5
  <1>1. /\ x2[p].st = "checked" /\ x2[p].left > 0 /\ x2[p].entry \notin x5
        /\ x2[p].claim = x4[x2[p].entry].by
    BY DEF Confirmation!Dispatch, Confirmation!Current
  <1>2. x2[p].entry \in Entries
    BY <1>1 DEF Confirmation!ConfirmationInv, Confirmation!ConfirmationTypes
  <1>3. ASSUME x6[x2[p].entry] # x2[p].seen PROVE FALSE
    <2>1. IF x2[p].claim = NoClaim THEN x4[x2[p].entry].left >= x2[p].left
          ELSE x4[x2[p].entry].by # x2[p].claim
      BY <1>1, <1>3 DEF Confirmation!ConfirmationInv, Confirmation!TriedSince
    <2>2. x2[p].claim = NoClaim /\ x4[x2[p].entry].left >= x2[p].left
      BY <1>1, <2>1
    <2>3. x4[x2[p].entry].left = 0
      BY <1>1, <1>2, <2>2 DEF Confirmation!ConfirmationInv, Confirmation!ClaimsAreUsed
    <2>4. x2[p].left \in 0..TicketTTL
      BY ConfirmationFields DEF Confirmation!ConfirmationInv
    <2>5. QED
      BY <1>1, <2>2, <2>3, <2>4, ConfirmationNothing
  <1>4. QED
    BY <1>1, <1>3

\* Only a dispatch sends.
LEMMA OnlyDispatchSends ==
  ASSUME Confirmation!ConfirmationInv, Confirmation!Next, NEW p \in Previews,
         Confirmation!Sends(p)
  PROVE  Confirmation!Dispatch(p)
  <1>t. Confirmation!ConfirmationTypes /\ x2 \in [Previews -> Confirmation!Tickets]
    BY DEF Confirmation!ConfirmationInv, Confirmation!ConfirmationTypes
  <1>s. x2[p].st # "sent" /\ x2'[p].st = "sent"
    BY DEF Confirmation!Sends
  <1> USE <1>t, <1>s, ConfirmationNothing
  <1>1. CASE Confirmation!Tick
    BY <1>1, ConfirmationFields DEF Confirmation!Tick, Confirmation!Tickets
  <1>2. CASE Confirmation!Restart
    BY <1>2 DEF Confirmation!Restart, Confirmation!NoTicket
  <1>3. ASSUME NEW e \in Entries, Confirmation!Change(e) PROVE FALSE
    BY <1>3 DEF Confirmation!Change
  <1>4. ASSUME NEW q \in Previews, NEW c \in Callers, NEW e \in Entries,
               Confirmation!Read(q, c, e)
        PROVE  FALSE
    BY <1>4 DEF Confirmation!Read, Confirmation!NoTicket
  <1>5. ASSUME NEW q \in Previews, \/ Confirmation!ReadRefused(q) \/ Confirmation!NotAdmitted(q)
                                   \/ Confirmation!PreflightFails(q)
                                   \/ Confirmation!NotApproved(q) \/ Confirmation!Answer(q)
        PROVE  FALSE
    BY <1>5 DEF Confirmation!ReadRefused, Confirmation!NotAdmitted, Confirmation!PreflightFails,
       Confirmation!NotApproved, Confirmation!Answer, Confirmation!Over
  <1>6. ASSUME NEW q \in Previews, Confirmation!Preview(q) PROVE FALSE
    BY <1>6, PreviewEffect
  <1>7. ASSUME NEW q \in Previews, Confirmation!Approve(q) PROVE FALSE
    BY <1>7 DEF Confirmation!Approve
  <1>8. ASSUME NEW q \in Previews, Confirmation!Confirm(q) PROVE FALSE
    <2> DEFINE used == IF x2[q].left > 0 THEN [x2 EXCEPT ![q].st = "preflight"]
                       ELSE Confirmation!Over(q)
    <2>1. x2' = Confirmation!Unexpired(used)
      BY <1>8 DEF Confirmation!Confirm
    <2>2. used \in [Previews -> Confirmation!Tickets] /\ used[p].st # "sent"
      BY DEF Confirmation!Over, Confirmation!Tickets, Confirmation!TicketStates
    <2> HIDE DEF used
    <2>3. QED
      BY <2>1, <2>2, ConfirmationPrunes
  <1>9. ASSUME NEW q \in Previews, Confirmation!LookAgain(q) PROVE FALSE
    BY <1>9 DEF Confirmation!LookAgain
  <1>10. ASSUME NEW q \in Previews, Confirmation!Dispatch(q) PROVE q = p
    BY <1>10 DEF Confirmation!Dispatch
  <1>11. QED
    BY <1>1, <1>2, <1>3, <1>4, <1>5, <1>6, <1>7, <1>8, <1>9, <1>10 DEF Confirmation!Next

\* Nobody has tried the message between a preview and its dispatch, whatever the calls
\* and their order: the second of two tickets finds another claim, or its time is over.
THEOREM FirstSinceThePreview == Spec => NoSecondAttempt
  <1>1. ConfirmationInv /\ [Next]_vars =>
          [part = "confirmation" => Confirmation!SendsFirst]_vars
    <2> SUFFICES ASSUME ConfirmationInv, Next, part = "confirmation", ~UNCHANGED vars,
                        NEW p \in Previews, Confirmation!Sends(p)
                 PROVE  x6[x2[p].entry] = x2[p].seen /\ x2[p].entry \notin x5
      BY DEF Confirmation!SendsFirst
    <2>1. Confirmation!Next
      BY DEF Next, RunCache, RunProject, RunConfirmation, RunLogin, RunCorrections,
         RunHistory, RunApprovals, RunShift, RunStop, RunHealth, RunDiscovery
    <2>2. QED
      BY <2>1, OnlyDispatchSends, DispatchIsFirst DEF ConfirmationInv
  <1>2. QED
    BY <1>1, ConfirmationInit, ConfirmationKept, PTL DEF Spec, NoSecondAttempt

-------------------------------------------------------------------------------
(***************************************************************************)
(* KnxCorrections: x1 is field, x2 catalog, x3 draft, x4 receipt, x5       *)
(* agreed, x6 quiet and x7 wrote.                                          *)
(***************************************************************************)

CorrectionsInv == part = "corrections" => Corrections!CorrectionsInv

LEMMA CorrectionsInit == Init => CorrectionsInv
  <1> SUFFICES ASSUME part = "corrections", Corrections!Init PROVE Corrections!CorrectionsInv
    BY DEF Init, CorrectionsInv
  <1>1. PICK v \in Values : x1 = [c \in Corrections!Changes |-> v]
    BY DEF Corrections!Init
  <1>2. Corrections!CorrectionTypes
    BY <1>1 DEF Corrections!Init, Corrections!CorrectionTypes, Corrections!ChangeValues,
       Corrections!DraftRecords, Corrections!Receipts, Corrections!NoReceipt,
       Corrections!Storages
  <1>3. Corrections!AcceptedIsAgreed
    BY DEF Corrections!Init, Corrections!AcceptedIsAgreed
  <1>4. Corrections!PromiseIsKept
    BY DEF Corrections!Init, Corrections!PromiseIsKept, Corrections!Storages
  <1>5. Corrections!WrittenBefore
    BY DEF Corrections!Init, Corrections!WrittenBefore
  <1>6. QED
    BY <1>2, <1>3, <1>4, <1>5 DEF Corrections!CorrectionsInv

LEMMA LiveDraft ==
  ASSUME Corrections!CorrectionTypes, NEW d \in Drafts, x3[d].st = "live"
  PROVE  x3[d] \in Corrections!LiveDrafts
  <1>1. x3[d] \in [st : {"none", "gone"}] \cup Corrections!LiveDrafts
    BY DEF Corrections!CorrectionTypes, Corrections!DraftRecords
  <1>2. QED
    BY <1>1

\* A draft becomes another, and so does what its user has agreed to.
LEMMA DraftBecomes ==
  ASSUME Corrections!CorrectionsInv, NEW d \in Drafts, NEW new \in Corrections!DraftRecords,
         NEW now \in SUBSET (Corrections!Changes \X Values),
         new.st = "live" =>
           \A c \in Corrections!Changes : new.decision[c] = "accepted" =>
                 <<c, new.value[c]>> \in now,
         x3' = [x3 EXCEPT ![d] = new], x5' = [x5 EXCEPT ![d] = now],
         UNCHANGED <<x1, x2, x4, x6, x7>>
  PROVE  Corrections!CorrectionsInv'
  <1>1. Corrections!CorrectionTypes /\ Corrections!AcceptedIsAgreed /\ Corrections!PromiseIsKept
            /\ Corrections!WrittenBefore
    BY DEF Corrections!CorrectionsInv
  <1>2. Corrections!CorrectionTypes'
    BY <1>1 DEF Corrections!CorrectionTypes
  <1>3. Corrections!AcceptedIsAgreed'
    BY <1>1 DEF Corrections!CorrectionTypes, Corrections!AcceptedIsAgreed
  <1>4. Corrections!PromiseIsKept' /\ Corrections!WrittenBefore'
    BY <1>1 DEF Corrections!PromiseIsKept, Corrections!WrittenBefore
  <1>5. QED
    BY <1>2, <1>3, <1>4 DEF Corrections!CorrectionsInv

\* A revision keeps the draft alive, and its choices apart from those that it makes.
LEMMA DraftRevised ==
  ASSUME NEW new \in Corrections!LiveDrafts, NEW n \in Nat
  PROVE  /\ [new EXCEPT !.rev = n] \in Corrections!LiveDrafts
         /\ [new EXCEPT !.rev = n].value = new.value
         /\ [new EXCEPT !.rev = n].decision = new.decision
  BY DEF Corrections!LiveDrafts, Corrections!ChangeValues

\* Live drafts are revised, when what they have as accepted is agreed to.
LEMMA ReviseStep ==
  ASSUME Corrections!CorrectionsInv, NEW d \in Drafts, x3[d] \in Corrections!LiveDrafts,
        NEW new \in Corrections!LiveDrafts,
         NEW now \in SUBSET (Corrections!Changes \X Values),
         \A c \in Corrections!Changes : new.decision[c] = "accepted" =>
               <<c, new.value[c]>> \in now,
         Corrections!Revise(d, new), x5' = [x5 EXCEPT ![d] = now],
         UNCHANGED <<x1, x2, x4, x6, x7>>
  PROVE  Corrections!CorrectionsInv'
  <1> DEFINE revised == [new EXCEPT !.rev = x3[d].rev + 1]
  <1>1. x3[d].rev + 1 \in Nat
    BY DEF Corrections!LiveDrafts
  <1>2. revised \in Corrections!LiveDrafts /\ revised.value = new.value
            /\ revised.decision = new.decision
    BY <1>1, DraftRevised
  <1>3. x3' = [x3 EXCEPT ![d] = revised]
    BY DEF Corrections!Revise
  <1> HIDE DEF revised
  <1>4. QED
    BY <1>2, <1>3, DraftBecomes DEF Corrections!DraftRecords

\* Drafts are created, reviewed, edited and put away.
LEMMA DraftStep ==
  ASSUME Corrections!CorrectionsInv, NEW d \in Drafts,
         \/ \E value \in [Corrections!Changes -> Values] : Corrections!Create(d, value)
              \/ Corrections!Update(d, value)
         \/ \E c \in Corrections!Changes :
              \/ \E decision \in {"proposed", "accepted", "rejected"} : Corrections!Review(d, c, decision)
              \/ \E v \in Values : Corrections!Edit(d, c, v)
         \/ Corrections!Extend(d) \/ Corrections!Archive(d) \/ Corrections!Restore(d)
              \/ Corrections!Delete(d)
  PROVE  Corrections!CorrectionsInv'
  <1>t. Corrections!CorrectionTypes /\ Corrections!AcceptedIsAgreed
    BY DEF Corrections!CorrectionsInv
  <1>a. /\ x5[d] \in SUBSET (Corrections!Changes \X Values)
        /\ UNCHANGED x5 => x5' = [x5 EXCEPT ![d] = x5[d]]
        /\ x1 \in [Corrections!Changes -> Values] /\ x2 \in Nat
    BY <1>t DEF Corrections!CorrectionTypes, Corrections!ChangeValues
  <1>l. Corrections!Live(d) =>
          /\ x3[d] \in Corrections!LiveDrafts
          /\ \A c \in Corrections!Changes :
               x3[d].decision[c] = "accepted" => <<c, x3[d].value[c]>> \in x5[d]
    BY <1>t, LiveDraft DEF Corrections!AcceptedIsAgreed, Corrections!Live
  <1>p. /\ Corrections!Proposed \in [Corrections!Changes -> Corrections!Decisions]
        /\ \A c \in Corrections!Changes : Corrections!Proposed[c] # "accepted"
    BY DEF Corrections!Proposed, Corrections!Decisions
  <1>1. ASSUME NEW value \in [Corrections!Changes -> Values], Corrections!Create(d, value)
        PROVE  Corrections!CorrectionsInv'
    <2> DEFINE new == [st |-> "live", rev |-> 1, catalog |-> x2, manual |-> Corrections!Labels,
                       archived |-> FALSE, value |-> value, decision |-> Corrections!Proposed,
                       left |-> DraftTTL]
    <2>1. Corrections!Labels \in [Prefixes -> Values] /\ DraftTTL \in Nat
      BY <1>a, CorrectionsParameters
      DEF Corrections!Labels, Corrections!Changes, Corrections!Parameters
    <2>2. new \in Corrections!DraftRecords /\ new.decision = Corrections!Proposed
      BY <1>a, <1>p, <2>1
      DEF Corrections!DraftRecords, Corrections!LiveDrafts, Corrections!ChangeValues
    <2>3. /\ x3' = [x3 EXCEPT ![d] = new]
          /\ UNCHANGED <<x1, x2, x4, x5, x6, x7>>
      BY <1>1 DEF Corrections!Create
    <2> HIDE DEF new
    <2>4. QED
      BY <1>a, <1>p, <2>2, <2>3, DraftBecomes
  <1>2. ASSUME NEW value \in [Corrections!Changes -> Values], Corrections!Update(d, value)
        PROVE  Corrections!CorrectionsInv'
    <2> DEFINE new == [x3[d] EXCEPT !.value = value, !.decision = Corrections!Proposed]
    <2>1. /\ Corrections!Live(d) /\ Corrections!Revise(d, new)
          /\ x5' = [x5 EXCEPT ![d] = {}]
          /\ UNCHANGED <<x1, x2, x4, x6, x7>>
      BY <1>2 DEF Corrections!Update, Corrections!Editable
    <2>2. x3[d] \in Corrections!LiveDrafts
      BY <1>l, <2>1
    <2>3. new \in Corrections!LiveDrafts /\ new.decision = Corrections!Proposed
      BY <1>p, <2>2 DEF Corrections!LiveDrafts, Corrections!ChangeValues, Corrections!Decisions
    <2>4. \A e \in Corrections!Changes : new.decision[e] = "accepted" =>
          <<e, new.value[e]>> \in {}
      BY <1>a, <1>l, <1>p, <2>1, <2>2, <2>3
    <2> HIDE DEF new
    <2>5. QED
      BY <2>1, <2>2, <2>3, <2>4, ReviseStep
  <1>3. ASSUME NEW c \in Corrections!Changes,
               NEW decision \in {"proposed", "accepted", "rejected"},
               Corrections!Review(d, c, decision)
        PROVE  Corrections!CorrectionsInv'
    <2> DEFINE new == [x3[d] EXCEPT !.decision[c] = decision]
               now == {a \in x5[d] : a[1] # c} \cup
                        (IF decision = "accepted" THEN {<<c, x3[d].value[c]>>} ELSE {})
    <2>1. /\ Corrections!Live(d) /\ Corrections!Revise(d, new)
          /\ x5' = [x5 EXCEPT ![d] = now]
          /\ UNCHANGED <<x1, x2, x4, x6, x7>>
      BY <1>3 DEF Corrections!Review, Corrections!Editable
    <2>2. x3[d] \in Corrections!LiveDrafts
      BY <1>l, <2>1
    <2>3. /\ new \in Corrections!LiveDrafts /\ new.value = x3[d].value
          /\ x3[d].value \in [Corrections!Changes -> Values]
          /\ \A e \in Corrections!Changes :
               new.decision[e] = IF e = c THEN decision ELSE x3[d].decision[e]
      BY <1>p, <2>2 DEF Corrections!LiveDrafts, Corrections!ChangeValues, Corrections!Decisions
    <2>4. /\ now \in SUBSET (Corrections!Changes \X Values)
          /\ \A e \in Corrections!Changes : new.decision[e] = "accepted" =>
             <<e, new.value[e]>> \in now
      BY <1>a, <1>l, <1>p, <2>1, <2>2, <2>3
    <2> HIDE DEF new, now
    <2>5. QED
      BY <2>1, <2>2, <2>3, <2>4, ReviseStep
  <1>4. ASSUME NEW c \in Corrections!Changes, NEW v \in Values, Corrections!Edit(d, c, v)
        PROVE  Corrections!CorrectionsInv'
    <2> DEFINE new == [x3[d] EXCEPT !.value[c] = v, !.decision[c] = "proposed"]
               now == {a \in x5[d] : a[1] # c}
    <2>1. /\ Corrections!Live(d) /\ Corrections!Revise(d, new)
          /\ x5' = [x5 EXCEPT ![d] = now]
          /\ UNCHANGED <<x1, x2, x4, x6, x7>>
      BY <1>4 DEF Corrections!Edit, Corrections!Editable
    <2>2. x3[d] \in Corrections!LiveDrafts
      BY <1>l, <2>1
    <2>3. /\ new \in Corrections!LiveDrafts
          /\ \A e \in Corrections!Changes :
               /\ e # c => new.value[e] = x3[d].value[e]
               /\ new.decision[e] = IF e = c THEN "proposed" ELSE x3[d].decision[e]
      BY <1>p, <2>2 DEF Corrections!LiveDrafts, Corrections!ChangeValues, Corrections!Decisions
    <2>4. /\ now \in SUBSET (Corrections!Changes \X Values)
          /\ \A e \in Corrections!Changes : new.decision[e] = "accepted" =>
             <<e, new.value[e]>> \in now
      BY <1>a, <1>l, <1>p, <2>1, <2>2, <2>3
    <2> HIDE DEF new, now
    <2>5. QED
      BY <2>1, <2>2, <2>3, <2>4, ReviseStep
  <1>5. CASE Corrections!Extend(d)
    <2> DEFINE new == [x3[d] EXCEPT !.left = DraftTTL]
    <2>1. /\ Corrections!Live(d) /\ Corrections!Revise(d, new)
          /\ UNCHANGED x5
          /\ UNCHANGED <<x1, x2, x4, x6, x7>>
      BY <1>5 DEF Corrections!Extend, Corrections!Managed
    <2>2. x3[d] \in Corrections!LiveDrafts
      BY <1>l, <2>1
    <2>3. /\ new \in Corrections!LiveDrafts /\ new.value = x3[d].value
          /\ new.decision = x3[d].decision
      BY <2>2, CorrectionsParameters DEF Corrections!LiveDrafts, Corrections!Parameters
    <2>4. \A e \in Corrections!Changes : new.decision[e] = "accepted" =>
          <<e, new.value[e]>> \in x5[d]
      BY <1>a, <1>l, <1>p, <2>1, <2>2, <2>3
    <2> HIDE DEF new
    <2>5. QED
      BY <1>a, <2>1, <2>2, <2>3, <2>4, ReviseStep
  <1>6. CASE Corrections!Archive(d)
    <2> DEFINE new == [x3[d] EXCEPT !.archived = TRUE]
    <2>1. /\ Corrections!Live(d) /\ Corrections!Revise(d, new)
          /\ UNCHANGED x5
          /\ UNCHANGED <<x1, x2, x4, x6, x7>>
      BY <1>6 DEF Corrections!Archive, Corrections!Managed
    <2>2. x3[d] \in Corrections!LiveDrafts
      BY <1>l, <2>1
    <2>3. /\ new \in Corrections!LiveDrafts /\ new.value = x3[d].value
          /\ new.decision = x3[d].decision
      BY <1>p, <2>2 DEF Corrections!LiveDrafts, Corrections!ChangeValues, Corrections!Decisions
    <2>4. \A e \in Corrections!Changes : new.decision[e] = "accepted" =>
          <<e, new.value[e]>> \in x5[d]
      BY <1>a, <1>l, <1>p, <2>1, <2>2, <2>3
    <2> HIDE DEF new
    <2>5. QED
      BY <1>a, <2>1, <2>2, <2>3, <2>4, ReviseStep
  <1>7. CASE Corrections!Restore(d)
    <2> DEFINE new == [x3[d] EXCEPT !.archived = FALSE, !.decision = Corrections!Proposed]
    <2>1. /\ Corrections!Live(d) /\ Corrections!Revise(d, new)
          /\ x5' = [x5 EXCEPT ![d] = {}]
          /\ UNCHANGED <<x1, x2, x4, x6, x7>>
      BY <1>7 DEF Corrections!Restore, Corrections!Managed
    <2>2. x3[d] \in Corrections!LiveDrafts
      BY <1>l, <2>1
    <2>3. new \in Corrections!LiveDrafts /\ new.decision = Corrections!Proposed
      BY <1>p, <2>2 DEF Corrections!LiveDrafts, Corrections!ChangeValues, Corrections!Decisions
    <2>4. \A e \in Corrections!Changes : new.decision[e] = "accepted" =>
          <<e, new.value[e]>> \in {}
      BY <1>a, <1>l, <1>p, <2>1, <2>2, <2>3
    <2> HIDE DEF new
    <2>5. QED
      BY <2>1, <2>2, <2>3, <2>4, ReviseStep
  <1>8. CASE Corrections!Delete(d)
    <2>1. [st |-> "gone"] \in Corrections!DraftRecords /\ [st |-> "gone"].st # "live"
      BY DEF Corrections!DraftRecords
    <2>2. /\ x3' = [x3 EXCEPT ![d] = [st |-> "gone"]]
          /\ x5' = [x5 EXCEPT ![d] = {}]
          /\ UNCHANGED <<x1, x2, x4, x6, x7>>
      BY <1>8 DEF Corrections!Delete
    <2>3. QED
      BY <2>1, <2>2, DraftBecomes
  <1>9. QED
    BY <1>1, <1>2, <1>3, <1>4, <1>5, <1>6, <1>7, <1>8

LEMMA ApplyStep ==
  ASSUME Corrections!CorrectionsInv, NEW s \in Corrections!Storages, NEW r \in Requests,
        NEW d \in Drafts,
         NEW selected \in SUBSET Corrections!Changes, Corrections!Apply(s, r, d, selected)
  PROVE  Corrections!CorrectionsInv'
  <1>t. Corrections!CorrectionTypes /\ Corrections!AcceptedIsAgreed /\ Corrections!PromiseIsKept
            /\ Corrections!WrittenBefore
    BY DEF Corrections!CorrectionsInv
  <1> DEFINE new == [held |-> TRUE, left |-> ReceiptTTL]
  <1>1. /\ x1' = Corrections!Merged(d, selected) /\ x3[d].st = "live" /\ UNCHANGED <<x3, x5>>
        /\ x4' = [x4 EXCEPT ![s] = [Corrections!Retained(s) EXCEPT ![r] = new]]
        /\ x6' = [x6 EXCEPT ![s][r] = ReceiptTTL]
        /\ \/ /\ x2' = x2 + 1
              /\ x7' = x7 \cup {<<r, Corrections!Operation(d, selected)>>}
           \/ UNCHANGED <<x2, x7>>
    BY DEF Corrections!Apply, Corrections!Live
  <1>2. x3[d] \in Corrections!LiveDrafts
    BY <1>t, <1>1, LiveDraft
  <1>3. x1' \in Corrections!ChangeValues
    BY <1>t, <1>1, <1>2
    DEF Corrections!Merged, Corrections!LiveDrafts, Corrections!CorrectionTypes,
        Corrections!ChangeValues
  <1>4. new \in Corrections!Receipts /\ ReceiptTTL \in Nat /\ new.held /\ new.left = ReceiptTTL
    BY CorrectionsParameters DEF Corrections!Parameters, Corrections!Receipts
  <1>5. /\ Corrections!Retained(s) \in [Requests -> Corrections!Receipts]
        /\ \A q \in Requests : x6[s][q] # 0 => Corrections!Retained(s)[q] = x4[s][q]
    <2>1. \A q \in Requests : x4[s][q] \in Corrections!Receipts /\ x6[s][q] \in Nat
      BY <1>t DEF Corrections!CorrectionTypes
    <2>2. Corrections!NoReceipt \in Corrections!Receipts
      BY DEF Corrections!NoReceipt, Corrections!Receipts
    <2>3. \A q \in Requests : x6[s][q] # 0 => x4[s][q].left # 0
      BY <1>t, <2>1 DEF Corrections!PromiseIsKept, Corrections!Receipts
    <2>4. QED
      BY <2>1, <2>2, <2>3 DEF Corrections!Retained
  <1>6. /\ x4' \in [Corrections!Storages -> [Requests -> Corrections!Receipts]]
        /\ x6' \in [Corrections!Storages -> [Requests -> Nat]]
        /\ x4'[s][r] = new /\ x6'[s][r] = ReceiptTTL
        /\ \A q \in Requests \ {r} : x4'[s][q] = Corrections!Retained(s)[q]
               /\ x6'[s][q] = x6[s][q]
        /\ \A u \in Corrections!Storages \ {s} : x4'[u] = x4[u] /\ x6'[u] = x6[u]
    BY <1>t, <1>1, <1>4, <1>5 DEF Corrections!CorrectionTypes
  <1> HIDE DEF new
  <1>7. x2' \in Nat
    BY <1>t, <1>1 DEF Corrections!CorrectionTypes
  <1>8. Corrections!CorrectionTypes'
    BY <1>t, <1>1, <1>3, <1>6, <1>7 DEF Corrections!CorrectionTypes
  <1>9. Corrections!AcceptedIsAgreed'
    BY <1>t, <1>1 DEF Corrections!AcceptedIsAgreed
  <1>10. Corrections!PromiseIsKept'
    <2> SUFFICES ASSUME NEW u \in Corrections!Storages, NEW q \in Requests, x6'[u][q] # 0
                 PROVE  x4'[u][q].held /\ x6'[u][q] <= x4'[u][q].left
      BY DEF Corrections!PromiseIsKept
    <2>1. CASE u = s /\ q = r
      BY <1>4, <1>6, <2>1
    <2>2. CASE u = s /\ q # r
      BY <1>t, <1>5, <1>6, <2>2 DEF Corrections!PromiseIsKept
    <2>3. CASE u # s
      BY <1>t, <1>6, <2>3 DEF Corrections!PromiseIsKept
    <2>4. QED
      BY <2>1, <2>2, <2>3
  <1>11. Corrections!WrittenBefore'
    <2>1. <<r, Corrections!Operation(d, selected)>>[2].catalog = x2
      BY DEF Corrections!Operation
    <2>2. \A w \in x7 : w[2].catalog \in Nat /\ w[2].catalog < x2
      BY <1>t DEF Corrections!WrittenBefore
    <2>3. CASE UNCHANGED <<x2, x7>>
      BY <2>2, <2>3 DEF Corrections!WrittenBefore
    <2>4. CASE x2' = x2 + 1 /\ x7' = x7 \cup {<<r, Corrections!Operation(d, selected)>>}
      <3> SUFFICES ASSUME NEW w \in x7' PROVE w[2].catalog \in Nat /\ w[2].catalog < x2'
        BY DEF Corrections!WrittenBefore
      <3>1. x2 \in Nat
        BY <1>t DEF Corrections!CorrectionTypes
      <3>2. CASE w \in x7
        <4>1. w[2].catalog \in Nat /\ w[2].catalog < x2
          BY <2>2, <3>2
        <4>2. QED
          BY <4>1, <3>1, <2>4
      <3>3. CASE w = <<r, Corrections!Operation(d, selected)>>
        BY <2>1, <2>4, <3>1, <3>3
      <3>4. QED
        BY <2>4, <3>2, <3>3
    <2>5. QED
      BY <1>1, <2>3, <2>4
  <1>12. QED
    BY <1>8, <1>9, <1>10, <1>11 DEF Corrections!CorrectionsInv

LEMMA CorrectionsStep ==
  ASSUME Corrections!CorrectionsInv, Corrections!Next
  PROVE  Corrections!CorrectionsInv'
  <1>t. Corrections!CorrectionTypes /\ Corrections!AcceptedIsAgreed /\ Corrections!PromiseIsKept
            /\ Corrections!WrittenBefore
    BY DEF Corrections!CorrectionsInv
  <1>1. CASE Corrections!Tick
    <2>1. \A d \in Drafts :
            /\ x3'[d] \in Corrections!DraftRecords
            /\ x3'[d].st = "live" =>
                 /\ x3[d].st = "live" /\ x3'[d].value = x3[d].value
                 /\ x3'[d].decision = x3[d].decision
      <3> TAKE d \in Drafts
      <3>1. CASE Corrections!Live(d)
        <4>1. x3[d] \in Corrections!LiveDrafts /\ x3[d].st = "live" /\ x3[d].left > 0
          BY <1>t, <3>1, LiveDraft DEF Corrections!Live
        <4>2. x3'[d] = [x3[d] EXCEPT !.left = @ - 1]
          BY <1>1, <3>1 DEF Corrections!Tick
        <4>3. QED
          BY <4>1, <4>2 DEF Corrections!LiveDrafts, Corrections!DraftRecords
      <3>2. CASE ~ Corrections!Live(d)
        BY <1>t, <1>1, <3>2 DEF Corrections!Tick, Corrections!CorrectionTypes
      <3>3. QED
        BY <3>1, <3>2
    <2>2. \A s \in Corrections!Storages, r \in Requests :
            /\ x4[s][r] \in Corrections!Receipts /\ x6[s][r] \in Nat
            /\ x4'[s][r] = [x4[s][r] EXCEPT !.left = Corrections!Less(x4[s][r].left)]
            /\ x6'[s][r] = Corrections!Less(x6[s][r])
      BY <1>t, <1>1 DEF Corrections!Tick, Corrections!CorrectionTypes
    <2>3. \A s \in Corrections!Storages, r \in Requests :
            /\ x4'[s][r] \in Corrections!Receipts /\ x6'[s][r] \in Nat
            /\ x4'[s][r].held = x4[s][r].held
            /\ x4'[s][r].left = Corrections!Less(x4[s][r].left)
      <3> TAKE s \in Corrections!Storages, r \in Requests
      <3>1. Corrections!Less(x4[s][r].left) \in Nat /\ Corrections!Less(x6[s][r]) \in Nat
        <4>1. x4[s][r].left \in Nat /\ x6[s][r] \in Nat
          BY <2>2 DEF Corrections!Receipts
        <4>2. \A n \in Nat : Corrections!Less(n) \in Nat
          BY DEF Corrections!Less
        <4>3. QED
          BY <4>1, <4>2
      <3>2. x4'[s][r] = [x4[s][r] EXCEPT !.left = Corrections!Less(x4[s][r].left)]
        BY <2>2
      <3>3. x4[s][r] \in Corrections!Receipts
        BY <2>2
      <3>4. x6'[s][r] \in Nat
        BY <2>2, <3>1
      <3>5. QED
        BY <3>1, <3>2, <3>3, <3>4 DEF Corrections!Receipts
    <2>4. Corrections!CorrectionTypes'
      <3>1. x3' \in [Drafts -> Corrections!DraftRecords]
        BY <1>1, <2>1 DEF Corrections!Tick
      <3>2. x4' \in [Corrections!Storages -> [Requests -> Corrections!Receipts]]
        BY <1>1, <2>3 DEF Corrections!Tick
      <3>3. x6' \in [Corrections!Storages -> [Requests -> Nat]]
        BY <1>1, <2>3 DEF Corrections!Tick
      <3>4. QED
        BY <1>t, <1>1, <3>1, <3>2, <3>3 DEF Corrections!Tick, Corrections!CorrectionTypes
    <2>5. Corrections!AcceptedIsAgreed'
      BY <1>t, <1>1, <2>1 DEF Corrections!AcceptedIsAgreed, Corrections!Tick
    <2>6. Corrections!PromiseIsKept'
      <3> SUFFICES ASSUME NEW s \in Corrections!Storages, NEW r \in Requests, x6'[s][r] # 0
                   PROVE  x4'[s][r].held /\ x6'[s][r] <= x4'[s][r].left
        BY DEF Corrections!PromiseIsKept
      <3>1. x6[s][r] # 0 /\ x4[s][r].left \in Nat /\ x6[s][r] \in Nat
        BY <2>2 DEF Corrections!Less, Corrections!Receipts
      <3>2. x4[s][r].held /\ x6[s][r] <= x4[s][r].left
        BY <1>t, <3>1 DEF Corrections!PromiseIsKept
      <3>3. /\ x4'[s][r].held = x4[s][r].held
            /\ x4'[s][r].left = Corrections!Less(x4[s][r].left)
            /\ x6'[s][r] = Corrections!Less(x6[s][r])
        BY <2>2, <2>3
      <3>4. QED
        BY <3>1, <3>2, <3>3 DEF Corrections!Less
    <2>7. Corrections!WrittenBefore'
      BY <1>t, <1>1 DEF Corrections!WrittenBefore, Corrections!Tick
    <2>8. QED
      BY <2>4, <2>5, <2>6, <2>7 DEF Corrections!CorrectionsInv
  <1>2. ASSUME NEW new \in [Corrections!Changes -> Values], Corrections!WriteCatalog(new)
                 \/ Corrections!WriteLabels(new)
        PROVE  Corrections!CorrectionsInv'
    <2>1. x2 \in Nat /\ x2' \in {x2, x2 + 1} /\ x1' = new
          /\ UNCHANGED <<x3, x4, x5, x6, x7>>
      BY <1>t, <1>2
      DEF Corrections!WriteCatalog, Corrections!WriteLabels, Corrections!CorrectionTypes
    <2>2. Corrections!CorrectionTypes'
      BY <1>t, <2>1 DEF Corrections!CorrectionTypes, Corrections!ChangeValues
    <2>3. Corrections!AcceptedIsAgreed' /\ Corrections!PromiseIsKept'
      BY <1>t, <2>1 DEF Corrections!AcceptedIsAgreed, Corrections!PromiseIsKept
    <2>4. Corrections!WrittenBefore'
      <3> SUFFICES ASSUME NEW w \in x7 PROVE w[2].catalog \in Nat /\ w[2].catalog < x2'
        BY <2>1 DEF Corrections!WrittenBefore
      <3>1. w[2].catalog \in Nat /\ w[2].catalog < x2
        BY <1>t DEF Corrections!WrittenBefore
      <3>2. QED
        BY <2>1, <3>1
    <2>5. QED
      BY <2>2, <2>3, <2>4 DEF Corrections!CorrectionsInv
  <1>3. ASSUME NEW d \in Drafts,
               \/ \E value \in [Corrections!Changes -> Values] : Corrections!Create(d, value)
                    \/ Corrections!Update(d, value)
               \/ \E c \in Corrections!Changes :
                    \/ \E decision \in {"proposed", "accepted", "rejected"} :
                         Corrections!Review(d, c, decision)
                    \/ \E v \in Values : Corrections!Edit(d, c, v)
               \/ Corrections!Extend(d) \/ Corrections!Archive(d) \/ Corrections!Restore(d)
                    \/ Corrections!Delete(d)
        PROVE  Corrections!CorrectionsInv'
    BY <1>3, DraftStep
  <1>4. ASSUME NEW d \in Drafts, NEW s \in Corrections!Storages, NEW r \in Requests,
               NEW selected \in SUBSET Corrections!Changes, Corrections!Apply(s, r, d, selected)
        PROVE  Corrections!CorrectionsInv'
    BY <1>4, ApplyStep
  <1>5. QED
    BY <1>1, <1>2, <1>3, <1>4 DEF Corrections!Next

LEMMA CorrectionsKept == CorrectionsInv /\ [Next]_vars => CorrectionsInv'
  <1> SUFFICES ASSUME CorrectionsInv, [Next]_vars, part' = "corrections"
               PROVE  Corrections!CorrectionsInv'
    BY DEF CorrectionsInv
  <1>1. CASE part = "corrections" /\ Corrections!Next
    BY <1>1, CorrectionsStep DEF CorrectionsInv
  <1>2. CASE part = "corrections" /\ UNCHANGED vars
    BY <1>2 DEF CorrectionsInv, vars, Corrections!CorrectionsInv, Corrections!CorrectionTypes,
       Corrections!AcceptedIsAgreed,
       Corrections!PromiseIsKept, Corrections!WrittenBefore
  <1>3. QED
    BY <1>1, <1>2 DEF Next, vars, RunCache, RunProject, RunConfirmation, RunLogin, RunCorrections,
       RunHistory, RunApprovals, RunShift, RunStop, RunHealth, RunDiscovery

\* Whatever is drafted, edited, archived and restored, and however requests are repeated:
\* what apply writes the user has accepted with that value, a request whose receipt is
\* promised still writes nothing, and no operation on addresses is done twice.
THEOREM WritesWhatWasAgreed == Spec => AppliedAsAgreed
  <1>1. CorrectionsInv /\ [Next]_vars => [part = "corrections" =>
        Corrections!AppliesAsAgreed]_vars
    <2> SUFFICES ASSUME Corrections!CorrectionsInv, NEW s \in Corrections!Storages,
                        NEW r \in Requests,
                        NEW d \in Drafts, NEW selected \in SUBSET Corrections!Changes,
                        Corrections!Apply(s, r, d, selected)
                 PROVE  /\ \A c \in selected : <<c, x1'[c]>> \in x5[d]
                        /\ x6[s][r] = 0
                        /\ <<r, Corrections!Operation(d, selected)>> \notin x7
      BY DEF CorrectionsInv, Corrections!AppliesAsAgreed
    <2>t. Corrections!CorrectionTypes /\ Corrections!AcceptedIsAgreed
              /\ Corrections!PromiseIsKept /\ Corrections!WrittenBefore
      BY DEF Corrections!CorrectionsInv
    <2>1. \A c \in selected : <<c, x1'[c]>> \in x5[d]
      BY <2>t DEF Corrections!Apply, Corrections!Live, Corrections!Merged,
         Corrections!AcceptedIsAgreed
    <2>2. x6[s][r] = 0
      BY <2>t DEF Corrections!Apply, Corrections!Fresh, Corrections!PromiseIsKept
    <2>3. <<r, Corrections!Operation(d, selected)>> \notin x7
      <3>1. <<r, Corrections!Operation(d, selected)>>[2].catalog = x2 /\ x2 \in Nat
        BY <2>t DEF Corrections!Operation, Corrections!CorrectionTypes
      <3>2. QED
        BY <2>t, <3>1 DEF Corrections!WrittenBefore
    <2>4. QED
      BY <2>1, <2>2, <2>3
  <1>2. QED
    BY <1>1, CorrectionsInit, CorrectionsKept, PTL DEF Spec, AppliedAsAgreed

-------------------------------------------------------------------------------
(***************************************************************************)
(* MqttHealth: x1 is service, x2 turn, x3 library, x4 connected, x5        *)
(* thread, x6 out, x7 session, x8 retained and x9 overlap.                 *)
(***************************************************************************)

HealthInv == part = "health" => Health!HealthInv

HealthWords == {"live", "final"}

LEMMA HealthClients ==
  /\ LastClient \in Nat /\ Health!Clients = 0 .. LastClient /\ Health!Idle = LastClient + 1
  /\ Health!Idle \notin Health!Clients /\ 0 \in Health!Clients
  BY HealthParameters DEF Health!Parameters, Health!Clients, Health!Idle

\* What is put into a queue is last in it.
LEMMA QueuedFacts ==
  ASSUME NEW q \in Seq(HealthWords), NEW v \in HealthWords
  PROVE  /\ Health!Queued(q, v) \in Seq(HealthWords) /\ Health!Queued(q, v) # <<>>
         /\ Health!Last(Health!Queued(q, v)) = v
  <1>1. CASE q # <<>> /\ Health!Last(q) = v
    BY <1>1 DEF Health!Queued
  <1>2. CASE ~ (q # <<>> /\ Health!Last(q) = v)
    <2>1. Health!Queued(q, v) = Append(q, v)
      BY <1>2 DEF Health!Queued
    <2>2. QED
      BY <2>1 DEF Health!Last
  <1>3. QED
    BY <1>1, <1>2

LEMMA PublishedFacts ==
  ASSUME Health!HealthTypes, NEW c \in Health!Clients, NEW v \in HealthWords
  PROVE  /\ Health!Published(c, v) \in [Health!Clients -> Seq(HealthWords)]
         /\ \A d \in Health!Clients : d # c => Health!Published(c, v)[d] = x6[d]
         /\ c \in x4 /\ x3[c] # "off" =>
              Health!Published(c, v)[c] # <<>> /\ Health!Last(Health!Published(c, v)[c]) = v
  <1>1. x6 \in [Health!Clients -> Seq(HealthWords)]
    BY DEF Health!HealthTypes, HealthWords
  <1>2. PICK q : q = Health!Queued(x6[c], v)
    OBVIOUS
  <1>3. q \in Seq(HealthWords) /\ q # <<>> /\ Health!Last(q) = v
    BY <1>1, <1>2, QueuedFacts
  <1>4. CASE c \in x4 /\ x3[c] # "off"
    <2>1. Health!Published(c, v) = [x6 EXCEPT ![c] = q]
      BY <1>2, <1>4 DEF Health!Published
    <2>2. /\ Health!Published(c, v) \in [Health!Clients -> Seq(HealthWords)]
          /\ \A d \in Health!Clients : d # c => Health!Published(c, v)[d] = x6[d]
          /\ Health!Published(c, v)[c] = q
      BY <1>1, <1>3, <2>1
    <2>3. QED
      BY <1>3, <2>2
  <1>5. CASE ~ (c \in x4 /\ x3[c] # "off")
    BY <1>1, <1>5 DEF Health!Published
  <1>6. QED
    BY <1>4, <1>5

LEMMA HealthInit == Init => HealthInv
  <1> SUFFICES ASSUME Health!Init PROVE Health!HealthInv
    BY DEF Init, HealthInv
  <1>1. Health!HealthTypes
    <2>1. <<>> \in Seq(HealthWords)
      OBVIOUS
    <2>2. QED
      BY <2>1, HealthClients DEF Health!Init, Health!HealthTypes, HealthWords
  <1>2. Health!PublishedFor /\ Health!BeforeTheEnd /\ Health!QuietThreads /\ Health!TheirLastWord
            /\ Health!NoneLeft
    BY DEF Health!Init, Health!PublishedFor, Health!BeforeTheEnd, Health!QuietThreads,
       Health!TheirLastWord, Health!NoneLeft, Health!Running, Health!Stopping,
       Health!Announced
  <1>3. QED
    BY <1>1, <1>2 DEF Health!HealthInv

LEMMA WillStep ==
  ASSUME Health!HealthInv, NEW c \in Health!Clients, Health!Will(c)
  PROVE  Health!HealthInv'
  <1>1. Health!HealthTypes'
    BY DEF Health!HealthInv, Health!HealthTypes, Health!Will
  <1>2. Health!PublishedFor' /\ Health!BeforeTheEnd' /\ Health!QuietThreads'
    BY DEF Health!HealthInv, Health!PublishedFor, Health!BeforeTheEnd, Health!QuietThreads,
       Health!Will
  <1>3. \A d \in Health!Clients : Health!Told(d) => Health!Told(d)'
    BY DEF Health!HealthInv, Health!HealthTypes, Health!Told, Health!Will
  <1>4. Health!TheirLastWord'
    BY <1>3 DEF Health!HealthInv, Health!TheirLastWord, Health!Announced, Health!Will
  <1>5. Health!NoneLeft'
    BY DEF Health!HealthInv, Health!HealthTypes, Health!NoneLeft, Health!Will
  <1>6. QED
    BY <1>1, <1>2, <1>4, <1>5 DEF Health!HealthInv

LEMMA DeliverStep ==
  ASSUME Health!HealthInv, NEW c \in Health!Clients, Health!Deliver(c)
  PROVE  Health!HealthInv'
  <1> PICK q \in Seq(HealthWords) : q = x6[c] /\ q # <<>>
    BY DEF Health!HealthInv, Health!HealthTypes, Health!Deliver, HealthWords
  <1>q. Head(q) \in HealthWords /\ Tail(q) \in Seq(HealthWords)
    OBVIOUS
  <1>d. x8' = [x8 EXCEPT ![c] = Head(q)] /\ x6' = [x6 EXCEPT ![c] = Tail(q)]
    BY DEF Health!Deliver
  <1>1. Health!HealthTypes'
    <2>1. x8' \in [Health!Clients -> {"nothing", "live", "final", "unknown"}]
      BY <1>q, <1>d DEF Health!HealthInv, Health!HealthTypes, HealthWords
    <2>2. x6' \in [Health!Clients -> Seq(HealthWords)]
      BY <1>q, <1>d DEF Health!HealthInv, Health!HealthTypes, HealthWords
    <2>3. QED
      BY <2>1, <2>2 DEF Health!HealthInv, Health!HealthTypes, Health!Deliver, HealthWords
  <1>2. Health!PublishedFor' /\ Health!BeforeTheEnd' /\ Health!QuietThreads'
    BY DEF Health!HealthInv, Health!PublishedFor, Health!BeforeTheEnd, Health!QuietThreads,
       Health!Deliver
  <1>3. ASSUME NEW d \in Health!Clients, Health!Told(d)
        PROVE  Health!Told(d)'
    <2>1. CASE d # c
      <3>1. x8'[d] = x8[d] /\ x6'[d] = x6[d]
        BY <1>d, <2>1 DEF Health!HealthInv, Health!HealthTypes
      <3>2. QED
        BY <1>3, <3>1 DEF Health!Told, Health!Deliver
    <2>2. CASE d = c
      <3>1. Health!Last(q) = "final"
        BY <1>3, <2>2 DEF Health!Told, Health!Deliver
      <3>2. x8'[d] = Head(q) /\ x6'[d] = Tail(q)
        BY <1>d, <2>2 DEF Health!HealthInv, Health!HealthTypes
      <3>3. CASE Tail(q) = <<>>
        <4>1. Len(q) = 1
          <5>1. Len(Tail(q)) = 0
            BY <3>3
          <5>2. Len(Tail(q)) = Len(q) - 1
            OBVIOUS
          <5>3. QED
            BY <5>1, <5>2
        <4>2. Head(q) = "final"
          BY <3>1, <4>1 DEF Health!Last
        <4>3. QED
          BY <3>2, <3>3, <4>2 DEF Health!Told
      <3>4. CASE Tail(q) # <<>>
        <4>1. Health!Last(Tail(q)) = Health!Last(q)
          BY <3>4 DEF Health!Last
        <4>2. QED
          BY <3>1, <3>2, <3>4, <4>1 DEF Health!Told
      <3>5. QED
        BY <3>3, <3>4
    <2>3. QED
      BY <2>1, <2>2
  <1>4. Health!TheirLastWord'
    BY <1>3 DEF Health!HealthInv, Health!TheirLastWord, Health!Announced, Health!Deliver
  <1>5. Health!NoneLeft'
    BY <1>d DEF Health!HealthInv, Health!HealthTypes, Health!NoneLeft, Health!Deliver
  <1>6. QED
    BY <1>1, <1>2, <1>4, <1>5 DEF Health!HealthInv

LEMMA OnConnectStep ==
  ASSUME Health!HealthInv, NEW c \in Health!Clients, Health!OnConnect(c) \/ Health!OnRefused(c)
  PROVE  Health!HealthInv'
  <1>1. Health!HealthTypes'
    <2>1. CASE Health!OnConnect(c)
      BY <2>1, HealthClients DEF Health!HealthInv, Health!HealthTypes, Health!OnConnect
    <2>2. CASE Health!OnRefused(c)
      BY <2>2, HealthClients DEF Health!HealthInv, Health!HealthTypes, Health!OnRefused
    <2>3. QED
      BY <2>1, <2>2
  <1>2. /\ x1 \in Health!Running /\ UNCHANGED <<x1, x2>>
        /\ x9' = (x9 \/ x1 # "run")
        /\ \E w \in {"up", "refused"} : x3' = [x3 EXCEPT ![c] = w]
        /\ x4' = x4 \cup {c}
    BY DEF Health!OnConnect, Health!OnRefused
  <1>3. Health!PublishedFor'
    BY <1>2 DEF Health!HealthInv, Health!HealthTypes, Health!PublishedFor
  <1>4. Health!BeforeTheEnd' /\ Health!QuietThreads' /\ Health!TheirLastWord'
    BY <1>2 DEF Health!HealthInv, Health!BeforeTheEnd, Health!QuietThreads, Health!TheirLastWord,
       Health!Announced, Health!Running, Health!Stopping
  <1>5. Health!NoneLeft'
    BY DEF Health!HealthInv, Health!HealthTypes, Health!NoneLeft, Health!OnConnect,
       Health!OnRefused
  <1>6. QED
    BY <1>1, <1>3, <1>4, <1>5 DEF Health!HealthInv

LEMMA OnDisconnectStep ==
  ASSUME Health!HealthInv, NEW c \in Health!Clients, Health!OnDisconnect(c)
  PROVE  Health!HealthInv'
  <1>1. Health!HealthTypes'
    BY DEF Health!HealthInv, Health!HealthTypes, Health!OnDisconnect
  <1>2. Health!PublishedFor'
    BY DEF Health!HealthInv, Health!HealthTypes, Health!PublishedFor, Health!OnDisconnect
  <1>3. Health!BeforeTheEnd' /\ Health!QuietThreads' /\ Health!NoneLeft'
    BY DEF Health!HealthInv, Health!BeforeTheEnd, Health!QuietThreads, Health!NoneLeft,
       Health!OnDisconnect
  <1>4. \A d \in Health!Clients : Health!Told(d) => Health!Told(d)'
    BY DEF Health!HealthInv, Health!HealthTypes, Health!Told, Health!OnDisconnect
  <1>5. Health!TheirLastWord'
    BY <1>4 DEF Health!HealthInv, Health!TheirLastWord, Health!Announced, Health!OnDisconnect
  <1>6. QED
    BY <1>1, <1>2, <1>3, <1>5 DEF Health!HealthInv

\* A callback that publishes does so before the shutdown, or beside it.
LEMMA StartupStateStep ==
  ASSUME Health!HealthInv, NEW c \in Health!Clients, Health!StartupState(c)
  PROVE  Health!HealthInv'
  <1>t. x5[c] \in Health!Clients /\ x5[c] + 1 \in Health!Clients \cup {Health!Idle}
    <2>1. x5[c] \in Health!Clients
      BY DEF Health!HealthInv, Health!HealthTypes, Health!StartupState
    <2>2. QED
      BY <2>1, HealthClients
  <1>1. Health!HealthTypes'
    <2>1. x6' \in [Health!Clients -> Seq(HealthWords)]
      BY <1>t, PublishedFacts DEF Health!HealthInv, Health!StartupState, HealthWords
    <2>2. x5' \in [Health!Clients -> Health!Clients \cup {Health!Idle}]
      BY <1>t DEF Health!HealthInv, Health!HealthTypes, Health!StartupState
    <2>3. QED
      BY <2>1, <2>2 DEF Health!HealthInv, Health!HealthTypes, Health!StartupState, HealthWords
  <1>2. Health!PublishedFor' /\ Health!BeforeTheEnd' /\ Health!NoneLeft'
    BY DEF Health!HealthInv, Health!PublishedFor, Health!BeforeTheEnd, Health!NoneLeft,
       Health!StartupState
  <1>3. x9 \/ x1 = "run"
    BY DEF Health!HealthInv, Health!QuietThreads, Health!StartupState, Health!Running,
       Health!Stopping
  <1>4. Health!QuietThreads' /\ Health!TheirLastWord'
    BY <1>3 DEF Health!QuietThreads, Health!TheirLastWord, Health!Announced, Health!Running,
       Health!Stopping, Health!StartupState
  <1>5. QED
    BY <1>1, <1>2, <1>4 DEF Health!HealthInv

LEMMA BeatStep ==
  ASSUME Health!HealthInv, Health!Connect \/ Health!Publish \/ Health!Close
  PROVE  Health!HealthInv'
  <1>1. CASE Health!Connect
    <2>1. Health!HealthTypes' /\ Health!NoneLeft'
      BY <1>1 DEF Health!HealthInv, Health!HealthTypes, Health!NoneLeft, Health!Connect,
         Health!Running
    <2>2. Health!PublishedFor' /\ Health!BeforeTheEnd' /\ Health!QuietThreads'
              /\ Health!TheirLastWord'
      BY <1>1 DEF Health!HealthInv, Health!PublishedFor, Health!BeforeTheEnd, Health!QuietThreads,
         Health!TheirLastWord, Health!Announced, Health!Connect,
         Health!Running, Health!Stopping
    <2>3. QED
      BY <2>1, <2>2 DEF Health!HealthInv
  <1>2. CASE Health!Publish
    <2>1. x6' \in [Health!Clients -> Seq(HealthWords)]
      <3>1. \A c \in Health!Clients : Health!Published(c, "live")[c] \in Seq(HealthWords)
        BY PublishedFacts DEF Health!HealthInv, HealthWords
      <3>2. QED
        BY <1>2, <3>1 DEF Health!Publish
    <2>2. Health!HealthTypes' /\ Health!NoneLeft'
      BY <1>2, <2>1
      DEF Health!HealthInv, Health!HealthTypes, Health!NoneLeft, Health!Publish, HealthWords
    <2>3. Health!PublishedFor' /\ Health!BeforeTheEnd' /\ Health!QuietThreads'
              /\ Health!TheirLastWord'
      BY <1>2 DEF Health!HealthInv, Health!PublishedFor, Health!BeforeTheEnd, Health!QuietThreads,
         Health!TheirLastWord, Health!Announced, Health!Publish,
         Health!Running, Health!Stopping
    <2>4. QED
      BY <2>2, <2>3 DEF Health!HealthInv
  <1>3. CASE Health!Close
    <2>1. Health!HealthTypes'
      BY <1>3 DEF Health!HealthInv, Health!HealthTypes, Health!Close, Health!Running
    <2>2. Health!PublishedFor' /\ Health!BeforeTheEnd' /\ Health!QuietThreads'
      BY <1>3 DEF Health!HealthInv, Health!PublishedFor, Health!BeforeTheEnd, Health!QuietThreads,
         Health!Close, Health!Running, Health!Stopping
    <2>3. Health!TheirLastWord'
      <3>1. \A c \in Health!Clients : ~ (c < 0)
        BY HealthClients
      <3>2. QED
        BY <1>3, <3>1
        DEF Health!HealthInv, Health!BeforeTheEnd, Health!TheirLastWord, Health!Announced,
            Health!Close, Health!Stopping
    <2>4. Health!NoneLeft'
      BY <1>3 DEF Health!HealthInv, Health!BeforeTheEnd, Health!NoneLeft, Health!Close
    <2>5. QED
      BY <2>1, <2>2, <2>3, <2>4 DEF Health!HealthInv
  <1>4. QED
    BY <1>1, <1>2, <1>3

LEMMA ShutdownStateStep ==
  ASSUME Health!HealthInv, Health!ShutdownState
  PROVE  Health!HealthInv'
  <1>t. /\ x2 \in Health!Clients /\ x2 \in Nat /\ "final" \in HealthWords
        /\ x2 # LastClient => x2 + 1 \in Health!Clients
    BY HealthClients DEF Health!HealthInv, Health!HealthTypes, HealthWords
  <1>f. \/ x2 = LastClient /\ x2' = 0 /\ x1' = "wait"
        \/ x2 # LastClient /\ x2' = x2 + 1 /\ x1' = "publish"
    BY DEF Health!ShutdownState, Health!Forth
  <1>p. /\ x6' \in [Health!Clients -> Seq(HealthWords)]
        /\ \A d \in Health!Clients : d # x2 => x6'[d] = x6[d]
        /\ x2 \in x4 /\ x3[x2] # "off" =>
             x6'[x2] # <<>> /\ Health!Last(x6'[x2]) = "final"
    BY <1>t, PublishedFacts DEF Health!HealthInv, Health!ShutdownState
  <1>1. Health!HealthTypes'
    <2>1. x2' \in Health!Clients /\ x1' \in Health!Running \cup {"starting", "stopped"}
      BY <1>t, <1>f, HealthClients DEF Health!Running
    <2>2. QED
      BY <1>p, <2>1 DEF Health!HealthInv, Health!HealthTypes, Health!ShutdownState, HealthWords
  <1>2. Health!PublishedFor' /\ Health!BeforeTheEnd' /\ Health!QuietThreads' /\ Health!NoneLeft'
    BY <1>f DEF Health!HealthInv, Health!PublishedFor, Health!BeforeTheEnd, Health!QuietThreads,
       Health!NoneLeft, Health!ShutdownState,
       Health!Running, Health!Stopping
  <1>3. Health!TheirLastWord'
    <2> SUFFICES ASSUME ~ x9', NEW c \in Health!Clients, Health!Announced(c)'
                 PROVE  Health!Told(c)'
      BY DEF Health!TheirLastWord
    <2>1. CASE c = x2
      <3>1. x3[c] = "up" => c \in x4
        BY DEF Health!HealthInv, Health!PublishedFor, Health!ShutdownState, Health!Running
      <3>2. QED
        BY <1>p, <2>1, <3>1 DEF Health!Told, Health!ShutdownState
    <2>2. CASE c # x2
      <3>1. c < x2
        BY <1>t, <1>f, <2>2, HealthClients DEF Health!Announced
      <3>2. Health!Told(c)
        BY <3>1 DEF Health!HealthInv, Health!TheirLastWord, Health!Announced, Health!ShutdownState
      <3>3. QED
        BY <1>p, <2>2, <3>2 DEF Health!Told, Health!ShutdownState
    <2>3. QED
      BY <2>1, <2>2
  <1>4. QED
    BY <1>1, <1>2, <1>3 DEF Health!HealthInv

LEMMA WaitedStep ==
  ASSUME Health!HealthInv, Health!Waited
  PROVE  Health!HealthInv'
  <1>1. Health!HealthTypes' /\ Health!NoneLeft'
    BY DEF Health!HealthInv, Health!HealthTypes, Health!NoneLeft, Health!Waited, Health!Running
  <1>2. Health!PublishedFor' /\ Health!BeforeTheEnd' /\ Health!QuietThreads'
    BY DEF Health!HealthInv, Health!PublishedFor, Health!BeforeTheEnd, Health!QuietThreads,
       Health!Waited, Health!Running, Health!Stopping
  <1>3. \A c \in Health!Clients : Health!Told(c) => Health!Told(c)'
    BY DEF Health!Told, Health!Waited
  <1>4. Health!TheirLastWord'
    BY <1>3 DEF Health!HealthInv, Health!TheirLastWord, Health!Announced, Health!Waited,
       Health!Stopping
  <1>5. QED
    BY <1>1, <1>2, <1>4 DEF Health!HealthInv

LEMMA DisconnectStep ==
  ASSUME Health!HealthInv, Health!Disconnect
  PROVE  Health!HealthInv'
  <1>t. x2 \in Health!Clients /\ x6 \in [Health!Clients -> Seq(HealthWords)]
    BY DEF Health!HealthInv, Health!HealthTypes, HealthWords
  <1> PICK q \in Seq(HealthWords) : q = x6[x2]
    BY <1>t
  <1>q. q # <<>> => Health!Last(q) \in HealthWords
    BY DEF Health!Last
  <1>c. \/ /\ x3[x2] = "up" /\ x7[x2]
           /\ x7' = [x7 EXCEPT ![x2] = FALSE]
           /\ \/ q = <<>> /\ x8' = x8
              \/ q # <<>> /\ x8' = [x8 EXCEPT ![x2] = Health!Last(q)]
        \/ /\ ~ (x3[x2] = "up" /\ x7[x2])
           /\ UNCHANGED <<x7, x8>>
    BY DEF Health!Disconnect, Health!HealthInv, Health!HealthTypes
  <1>1. Health!HealthTypes'
    <2>1. x8' \in [Health!Clients -> {"nothing", "live", "final", "unknown"}]
      BY <1>q, <1>c DEF Health!HealthInv, Health!HealthTypes, HealthWords
    <2>2. x7' \in [Health!Clients -> BOOLEAN]
      BY <1>c DEF Health!HealthInv, Health!HealthTypes
    <2>3. x6' \in [Health!Clients -> Seq(HealthWords)]
      <3>1. <<>> \in Seq(HealthWords)
        OBVIOUS
      <3>2. QED
        BY <1>t, <3>1 DEF Health!Disconnect
    <2>4. QED
      BY <2>1, <2>2, <2>3
      DEF Health!HealthInv, Health!HealthTypes, Health!Disconnect, Health!Running, HealthWords
  <1>2. Health!PublishedFor' /\ Health!BeforeTheEnd' /\ Health!QuietThreads'
    BY DEF Health!HealthInv, Health!HealthTypes, Health!PublishedFor, Health!BeforeTheEnd,
       Health!QuietThreads, Health!Disconnect,
       Health!Running, Health!Stopping
  <1>3. \A d \in Health!Clients : Health!Told(d) => Health!Told(d)'
    BY <1>c DEF Health!HealthInv, Health!HealthTypes, Health!Told, Health!Disconnect
  <1>4. Health!TheirLastWord'
    BY <1>3 DEF Health!HealthInv, Health!TheirLastWord, Health!Announced, Health!Disconnect,
       Health!Stopping
  <1>5. Health!NoneLeft'
    <2> SUFFICES ASSUME ~ x9, NEW d \in Health!Clients
                 PROVE  x7'[d] \/ x8'[d] # "live"
      BY DEF Health!NoneLeft, Health!Disconnect
    <2>1. Health!Told(x2)
      BY <1>t DEF Health!HealthInv, Health!TheirLastWord, Health!Announced, Health!Disconnect,
         Health!Stopping
    <2>2. x7[d] \/ x8[d] # "live"
      BY DEF Health!HealthInv, Health!NoneLeft
    <2>3. QED
      BY <1>c, <2>1, <2>2 DEF Health!Told, Health!HealthInv, Health!HealthTypes
  <1>6. QED
    BY <1>1, <1>2, <1>4, <1>5 DEF Health!HealthInv

LEMMA LastSteps ==
  ASSUME Health!HealthInv, Health!LoopStop \/ Health!Crash
  PROVE  Health!HealthInv'
  <1>1. CASE Health!LoopStop
    <2>t. x2 # LastClient => x2 + 1 \in Health!Clients
      BY HealthClients DEF Health!HealthInv, Health!HealthTypes
    <2>1. Health!HealthTypes' /\ Health!NoneLeft'
      BY <1>1, <2>t
      DEF Health!HealthInv, Health!HealthTypes, Health!NoneLeft, Health!LoopStop, Health!Running
    <2>2. Health!PublishedFor' /\ Health!BeforeTheEnd' /\ Health!QuietThreads'
      BY <1>1 DEF Health!HealthInv, Health!PublishedFor, Health!BeforeTheEnd, Health!QuietThreads,
         Health!LoopStop, Health!Running,
         Health!Stopping
    <2>3. \A d \in Health!Clients : Health!Told(d) => Health!Told(d)'
      BY <1>1 DEF Health!Told, Health!LoopStop
    <2>4. Health!TheirLastWord'
      BY <1>1, <2>3
      DEF Health!HealthInv, Health!TheirLastWord, Health!Announced, Health!LoopStop,
          Health!Stopping
    <2>5. QED
      BY <2>1, <2>2, <2>4 DEF Health!HealthInv
  <1>2. CASE Health!Crash
    <2>1. <<>> \in Seq({"live", "final"})
      OBVIOUS
    <2>2. Health!HealthTypes' /\ Health!NoneLeft'
      BY <1>2, <2>1 DEF Health!HealthInv, Health!HealthTypes, Health!NoneLeft, Health!Crash
    <2>3. Health!PublishedFor' /\ Health!BeforeTheEnd' /\ Health!QuietThreads'
              /\ Health!TheirLastWord'
      BY <1>2 DEF Health!PublishedFor, Health!BeforeTheEnd, Health!QuietThreads,
         Health!TheirLastWord, Health!Announced, Health!Crash,
         Health!Running, Health!Stopping
    <2>4. QED
      BY <2>2, <2>3 DEF Health!HealthInv
  <1>3. QED
    BY <1>1, <1>2

LEMMA HealthKept == HealthInv /\ [Next]_vars => HealthInv'
  <1> SUFFICES ASSUME HealthInv, [Next]_vars, part' = "health" PROVE Health!HealthInv'
    BY DEF HealthInv
  <1>1. CASE part = "health" /\ Health!Next
    <2>1. Health!HealthInv
      BY <1>1 DEF HealthInv
    <2>2. QED
      BY <1>1, <2>1, WillStep, DeliverStep, OnConnectStep, OnDisconnectStep, StartupStateStep,
         BeatStep, ShutdownStateStep, WaitedStep, DisconnectStep, LastSteps DEF Health!Next
  <1>2. CASE part = "health" /\ UNCHANGED vars
    <2>1. Health!HealthInv /\ UNCHANGED <<x1, x2, x3, x4, x5, x6, x7,
                                     x8, x9>>
      BY <1>2 DEF HealthInv, vars
    <2>2. Health!HealthTypes' /\ Health!PublishedFor' /\ Health!BeforeTheEnd'
              /\ Health!QuietThreads' /\ Health!NoneLeft'
      BY <2>1 DEF Health!HealthInv, Health!HealthTypes, Health!PublishedFor, Health!BeforeTheEnd,
         Health!QuietThreads, Health!NoneLeft
    <2>3. Health!TheirLastWord'
      BY <2>1 DEF Health!HealthInv, Health!TheirLastWord, Health!Announced, Health!Told
    <2>4. QED
      BY <2>2, <2>3 DEF Health!HealthInv
  <1>3. QED
    BY <1>1, <1>2 DEF Next, vars, RunCache, RunProject, RunConfirmation, RunLogin, RunCorrections,
       RunHistory, RunApprovals, RunShift, RunStop, RunHealth, RunDiscovery

\* Whatever connections are lost, refused and made again, and wherever the service stops:
\* for any number of clients no topic goes on saying that it runs, once the broker has
\* noticed, unless a connect callback ran beside the shutdown.
THEOREM StopIsPublished == Spec => []StopIsTold
  <1>1. HealthInv => StopIsTold
    BY DEF HealthInv, StopIsTold, Health!HealthInv, Health!NoneLeft, Health!StopIsTold
  <1>2. QED
    BY <1>1, HealthInit, HealthKept, PTL DEF Spec

-------------------------------------------------------------------------------
(***************************************************************************)
(* LoadShift and StateCache: their invariants are those of                 *)
(* PartsDataProofs, where a step of each is shown to keep its own.         *)
(***************************************************************************)

ShiftInv == part = "shift" => Shift!ShiftInv
CacheInv == part = "cache" => Cache!CacheInv

LEMMA ShiftInit == Init => ShiftInv
  BY ShiftBegins DEF Init, ShiftInv

LEMMA ShiftKept == ShiftInv /\ [Next]_vars => ShiftInv'
  <1> SUFFICES ASSUME ShiftInv, [Next]_vars, part' = "shift" PROVE Shift!ShiftInv'
    BY DEF ShiftInv
  <1>1. CASE part = "shift" /\ Shift!Next
    BY <1>1, ShiftSteps DEF ShiftInv
  <1>2. CASE part = "shift" /\ UNCHANGED vars
    BY <1>2, ShiftRests DEF ShiftInv, vars
  <1>3. QED
    BY <1>1, <1>2 DEF Next, vars, RunCache, RunProject, RunConfirmation, RunLogin, RunCorrections,
       RunHistory, RunApprovals, RunShift, RunStop, RunHealth, RunDiscovery

\* Whatever was captured and in whatever order candidates are chosen: an observed cycle
\* that is moved was seen from its start to its stop in one capture, after its pause.
THEOREM MovedCyclesWereRun == Spec => []CyclesWereRun
  <1>1. ShiftInv => CyclesWereRun
    BY ShiftWasRun DEF ShiftInv, CyclesWereRun
  <1>2. QED
    BY <1>1, ShiftInit, ShiftKept, PTL DEF Spec

\* The selections of every step are possible together: no hour gives away more than its
\* export, no cycle is moved twice, and the load keeps its pause between any two runs.
THEOREM PlansArePossible == Spec => []PlanIsPossible
  <1>1. ShiftInv => PlanIsPossible
    BY ShiftIsPossible DEF ShiftInv, PlanIsPossible
  <1>2. QED
    BY <1>1, ShiftInit, ShiftKept, PTL DEF Spec

LEMMA CacheInit == Init => CacheInv
  BY CacheBegins DEF Init, CacheInv

LEMMA CacheKept == CacheInv /\ [Next]_vars => CacheInv'
  <1>1. SUFFICES ASSUME CacheInv, [Next]_vars PROVE CacheInv'
    OBVIOUS
  <1>2. CASE RunCache
    BY <1>1, <1>2, CacheSteps DEF RunCache, CacheInv
  <1>3. CASE UNCHANGED vars
    BY <1>1, <1>3 DEF vars, CacheInv, Cache!CacheInv
  <1>4. CASE part # "cache" /\ part' = part
    BY <1>4 DEF CacheInv
  <1>5. QED
    BY <1>1, <1>2, <1>3, <1>4 DEF Next, RunProject, RunConfirmation, RunLogin, RunCorrections,
       RunHistory, RunApprovals, RunShift, RunStop, RunHealth, RunDiscovery

\* For any subjects, users, values and limits, whatever connects, is stored and is cleared:
\* the counters stay the sums they stand for, no subject, no identity and not the cache is
\* over its budget, and both eviction orders tell the same.
THEOREM BudgetIsKept == Spec => []BudgetKept
  <1>1. CacheInv => BudgetKept
    BY BudgetFollows DEF CacheInv, BudgetKept
  <1>2. QED
    BY <1>1, CacheInit, CacheKept, PTL DEF Spec

\* For any families and users: while no identity joins, the values of an identity are its
\* own to lose, whatever the families of another one store.
THEOREM SharesAreProtected == Spec => SharesProtected
  <1>1. CacheInv /\ [Next]_vars => [part = "cache" => Cache!OthersStay]_vars
    <2> SUFFICES ASSUME CacheInv, Next, part = "cache" PROVE Cache!OthersStay
      OBVIOUS
    <2>1. Cache!Next
      BY DEF Next, RunCache, RunProject, RunConfirmation, RunLogin, RunCorrections,
         RunHistory, RunApprovals, RunShift, RunStop, RunHealth, RunDiscovery
    <2>2. QED
      BY <2>1, StepProtects DEF CacheInv
  <1>2. QED
    BY CacheInit, CacheKept, <1>1, PTL DEF Spec, SharesProtected
===============================================================================
