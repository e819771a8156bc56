--------------------------- MODULE RemoteRevocation ---------------------------
(***************************************************************************)
(* Cleanup of Loxone tokens after their OAuth family ended                 *)
(* (src/mcpserver/auth/remote_revocation.py and auth/loxone_store.py).     *)
(*                                                                         *)
(* Two files are durable: the encrypted token store ("store") and the      *)
(* status sidecar ("status").  One worker moves a queued token through     *)
(* reserve, network attempt, terminal marker, sidecar receipt and          *)
(* deletion; each action below is one file write or one await, so the      *)
(* worker can stop, by an exception or with the whole service, between any *)
(* two of them.  Around it the other writers of the token store run: the   *)
(* sign-in page, OAuth and Admin revocation, and the token refresh of the  *)
(* runtime.  Tasks of the service share one event loop, so they run only   *)
(* while the worker is idle or awaits; the Admin process runs at any time. *)
(***************************************************************************)
EXTENDS Integers, FiniteSets

CONSTANTS
  Families,      \* keys of the token store: OAuth families, login-cleanup ids
  Tokens,        \* Loxone tokens the Miniserver can issue
  NoToken,       \* no token: an absent record, a finished login
  NoFamily,      \* the worker has no item
  MaxAttempts,   \* _MAX_ATTEMPTS, 5 in the code
  RetryDelay,    \* attempt number -> cooldown; _RETRY_DELAYS
  InvalidDelay,  \* rejection streak -> cooldown; _INVALID_DELAYS
  BlockDelay,    \* least cooldown after a source-IP block, 3600 in the code
  BreakerDelays, \* how far ahead the breaker may announce its retry time
  ValidUntil,    \* token -> nominal expiry
  MaxTime,       \* horizon of the clock; later timestamps are cut to it
  MaxFaults      \* bound on stops of the worker or service, and failed puts

Max2(a, b) == IF a >= b THEN a ELSE b
Min2(a, b) == IF a <= b THEN a ELSE b

\* A timestamp d after t, cut to the horizon.
Later(t, d) == Min2(t + d, MaxTime)

ASSUME Parameters ==
  /\ NoToken \notin Tokens
  /\ NoFamily \notin Families
  /\ MaxAttempts \in Nat \ {0}
  /\ RetryDelay \in [1..MaxAttempts -> Nat]
  /\ InvalidDelay \in [1..MaxAttempts -> Nat]
  /\ BlockDelay \in Nat
  /\ BreakerDelays \subseteq Nat
  /\ ValidUntil \in [Tokens -> Nat]
  /\ MaxTime \in Nat
  /\ MaxFaults \in Nat

Outcomes == {"confirmed_killed", "already_invalid", "unconfirmed",
             "expired_without_confirmation"}

VARIABLES
  now,         \* wall clock
  store,       \* token store: key -> record
  status,      \* sidecar: cooldown, rejection streak, totals, acknowledgements
  receipts,    \* receipts issued so far (fresh random strings in the code)
  pc,          \* where the worker stands
  value,       \* the worker's copy of the sidecar
  item,        \* the worker's snapshot of the queued record it works on
  outcome,     \* the outcome it is about to record
  start,       \* "now" of the current pass, read once
  family,      \* OAuth life of a key: new, active, ended
  held,        \* token a login transaction still holds for a cleanup key
  refreshing,  \* families with a token refresh awaiting the Miniserver
  fresh,       \* tokens the Miniserver has not issued yet
  killed,      \* tokens the Miniserver has invalidated on killtoken
  tries,       \* killtoken attempts sent for a token
  coolUntil,   \* end of the cooldown the last attempt imposed
  clobbered,   \* ended families a refresh put wrote to
  doubtful,    \* cleanup keys whose put reported an error but was stored
  faults       \* faults so far

workerVars == <<pc, value, item, outcome, start>>
loginVars  == <<family, held, refreshing, fresh>>
ghostVars  == <<killed, tries, coolUntil, clobbered, doubtful>>
vars == <<now, store, status, receipts, workerVars, loginVars, ghostVars, faults>>

\* Both delay tables are indexed with min(..., 4) in the code.
RetryAfter(n)   == RetryDelay[Min2(n, MaxAttempts)]
InvalidAfter(n) == InvalidDelay[Min2(n, MaxAttempts)]

Absent == [tok |-> NoToken, pending |-> FALSE, attempts |-> 0, after |-> 0,
           outcome |-> "none", receipt |-> 0]

\* The record a put writes: nothing of an older record under the key survives.
Entry(t, p) == [tok |-> t, pending |-> p, attempts |-> 0, after |-> 0,
                outcome |-> "none", receipt |-> 0]

NoItem == [fam |-> NoFamily, tok |-> NoToken, attempts |-> 0, after |-> 0]

Present(f) == store[f].tok # NoToken
Queued(f)  == Present(f) /\ store[f].pending
Marked(f)  == store[f].outcome # "none"

\* pending_remote_revocations(now), for the "now" of the pass.
Due == {f \in Families : Queued(f) /\ store[f].after <= start}

\* pending_terminal_receipts()
PendingReceipts == {store[f].receipt : f \in {g \in Families : Queued(g) /\ Marked(g)}}

\* The worker is suspended in an await, or between two passes.
LoopFree == pc \in {"idle", "attempt", "answer"}

Init ==
  /\ now = 0
  /\ store = [f \in Families |-> Absent]
  /\ status = [notBefore |-> 0, streak |-> 0, acked |-> {},
               totals |-> [o \in Outcomes |-> 0]]
  /\ receipts = 0
  /\ pc = "idle"
  /\ value = status
  /\ item = NoItem
  /\ outcome = "none"
  /\ start = 0
  /\ family = [f \in Families |-> "new"]
  /\ held = [f \in Families |-> NoToken]
  /\ refreshing = {}
  /\ fresh = Tokens
  /\ killed = {}
  /\ tries = [t \in Tokens |-> 0]
  /\ coolUntil = 0
  /\ clobbered = {}
  /\ doubtful = {}
  /\ faults = 0

-------------------------------------------------------------------------------
(***************************************************************************)
(* The other writers of the token store.                                   *)
(***************************************************************************)

Tick ==
  /\ now < MaxTime
  /\ now' = now + 1
  /\ UNCHANGED <<store, status, receipts, workerVars, loginVars, ghostVars, faults>>

\* Consent granted: the token moves into the store under a new family.
Issue(f, t) ==
  /\ LoopFree
  /\ family[f] = "new"
  /\ t \in fresh
  /\ family' = [family EXCEPT ![f] = "active"]
  /\ fresh' = fresh \ {t}
  /\ store' = [store EXCEPT ![f] = Entry(t, FALSE)]
  /\ UNCHANGED <<now, status, receipts, workerVars, held, refreshing, ghostVars, faults>>

\* A sign-in failed after the Miniserver issued a token: the transaction keeps
\* it under a new cleanup id.
RetainLogin(f, t) ==
  /\ LoopFree
  /\ family[f] = "new"
  /\ t \in fresh
  /\ family' = [family EXCEPT ![f] = "ended"]
  /\ fresh' = fresh \ {t}
  /\ held' = [held EXCEPT ![f] = t]
  /\ UNCHANGED <<now, store, status, receipts, workerVars, refreshing, ghostVars, faults>>

\* _queue_retained_login_token: token and queue marker in one write.
QueueLogin(f) ==
  /\ LoopFree
  /\ held[f] # NoToken
  /\ store' = [store EXCEPT ![f] = Entry(held[f], TRUE)]
  /\ held' = [held EXCEPT ![f] = NoToken]
  /\ UNCHANGED <<now, status, receipts, workerVars, family, refreshing, fresh,
                 ghostVars, faults>>

\* The same put replaces the file and then fails to sync the directory: the
\* caller sees an error and keeps token and cleanup id for another put.
QueueLoginDoubtful(f) ==
  /\ LoopFree
  /\ held[f] # NoToken
  /\ faults < MaxFaults
  /\ faults' = faults + 1
  /\ store' = [store EXCEPT ![f] = Entry(held[f], TRUE)]
  /\ doubtful' = doubtful \cup {f}
  /\ UNCHANGED <<now, status, receipts, workerVars, loginVars,
                 killed, tries, coolUntil, clobbered>>

\* The family ends in OAuth and its token is queued.  The Admin process does
\* this too, so the worker need not be suspended.
Schedule(f) ==
  /\ family[f] # "new"
  /\ Present(f)
  /\ ~ (family[f] = "ended" /\ store[f].pending)
  /\ family' = [family EXCEPT ![f] = "ended"]
  /\ store' = [store EXCEPT ![f].pending = TRUE]
  /\ UNCHANGED <<now, status, receipts, workerVars, held, refreshing, fresh,
                 ghostVars, faults>>

\* The runtime rechecks OAuth access and sends refreshjwt ...
BeginRefresh(f) ==
  /\ LoopFree
  /\ family[f] = "active"
  /\ f \notin refreshing
  /\ refreshing' = refreshing \cup {f}
  /\ UNCHANGED <<now, store, status, receipts, workerVars, family, held, fresh,
                 ghostVars, faults>>

\* ... and puts the new token when the answer arrives, without a second check.
RefreshPut(f, t) ==
  /\ LoopFree
  /\ f \in refreshing
  /\ t \in fresh
  /\ refreshing' = refreshing \ {f}
  /\ fresh' = fresh \ {t}
  /\ store' = [store EXCEPT ![f] = Entry(t, FALSE)]
  /\ clobbered' = IF family[f] = "ended" THEN clobbered \cup {f} ELSE clobbered
  /\ UNCHANGED <<now, status, receipts, workerVars, family, held,
                 killed, tries, coolUntil, doubtful, faults>>

\* The refresh fails, or the disconnect that follows a revocation cancels it.
AbandonRefresh(f) ==
  /\ LoopFree
  /\ f \in refreshing
  /\ refreshing' = refreshing \ {f}
  /\ UNCHANGED <<now, store, status, receipts, workerVars, family, held, fresh,
                 ghostVars, faults>>

-------------------------------------------------------------------------------
(***************************************************************************)
(* One pass of the worker: process_remote_revocations.                     *)
(***************************************************************************)

\* The pass returns; its local variables are gone.
Return ==
  /\ pc' = "idle"
  /\ value' = status'
  /\ item' = NoItem
  /\ outcome' = "none"
  /\ start' = 0

\* Mutant of Begin: every acknowledgement is dropped, also of records that
\* still await their deletion.
BeginForgets ==
  /\ pc = "idle"
  /\ status' = [status EXCEPT !.acked = {}]
  /\ value' = status'
  /\ start' = now
  /\ pc' = "gate"
  /\ UNCHANGED <<now, store, receipts, item, outcome, loginVars, ghostVars, faults>>

\* Read the sidecar and drop acknowledgements whose record is gone.
Begin ==
  /\ pc = "idle"
  /\ status' = [status EXCEPT !.acked = @ \cap PendingReceipts]
  /\ value' = status'
  /\ start' = now
  /\ pc' = "gate"
  /\ UNCHANGED <<now, store, receipts, item, outcome, loginVars, ghostVars, faults>>

GateOpen == pc = "gate" /\ value.notBefore <= start /\ Due # {}

NothingDue ==
  /\ pc = "gate"
  /\ ~ GateOpen
  /\ UNCHANGED status
  /\ Return
  /\ UNCHANGED <<now, store, receipts, loginVars, ghostVars, faults>>

\* The authentication breaker or a guard is not closed: postpone the queue.
DeferToBreaker(d) ==
  /\ GateOpen
  /\ status' = [value EXCEPT !.notBefore = Later(start, d)]
  /\ Return
  /\ UNCHANGED <<now, store, receipts, loginVars, ghostVars, faults>>

Eligible(f) == GateOpen /\ f \in Due

Take(f) ==
  /\ Eligible(f)
  /\ item' = [fam |-> f, tok |-> store[f].tok, attempts |-> store[f].attempts,
              after |-> store[f].after]

\* The record needs no network: a marker from an earlier pass, nominal expiry,
\* or no attempt left.
ToTerminal(f, o) ==
  /\ Take(f)
  /\ outcome' = o
  /\ pc' = "mark"
  /\ UNCHANGED <<now, store, status, receipts, value, start, loginVars, ghostVars, faults>>

Resume(f) == Marked(f) /\ ToTerminal(f, store[f].outcome)

Expire(f) ==
  /\ Eligible(f)
  /\ ~ Marked(f)
  /\ ValidUntil[store[f].tok] <= start
  /\ ToTerminal(f, "expired_without_confirmation")

Exhaust(f) ==
  /\ Eligible(f)
  /\ ~ Marked(f)
  /\ ValidUntil[store[f].tok] > start
  /\ store[f].attempts >= MaxAttempts
  /\ ToTerminal(f, "unconfirmed")

\* Mutant of ReserveQueue: no cooldown in the sidecar.
ReserveQueueInMemory(f) ==
  /\ Take(f)
  /\ ~ Marked(f)
  /\ ValidUntil[store[f].tok] > start
  /\ store[f].attempts < MaxAttempts
  /\ value' = [value EXCEPT !.notBefore = Later(start, RetryAfter(store[f].attempts + 1))]
  /\ pc' = "reserve"
  /\ UNCHANGED <<now, store, status, receipts, outcome, start, loginVars, ghostVars, faults>>

\* First half of the reservation: the queue-wide cooldown in the sidecar.
ReserveQueue(f) ==
  /\ Take(f)
  /\ ~ Marked(f)
  /\ ValidUntil[store[f].tok] > start
  /\ store[f].attempts < MaxAttempts
  /\ status' = [value EXCEPT !.notBefore = Later(start, RetryAfter(store[f].attempts + 1))]
  /\ value' = status'
  /\ pc' = "reserve"
  /\ UNCHANGED <<now, store, receipts, outcome, start, loginVars, ghostVars, faults>>

\* Mutant of ReserveAttempt: the attempt is counted in memory only.
ReserveAttemptInMemory ==
  /\ pc = "reserve"
  /\ Queued(item.fam)
  /\ store' = [store EXCEPT ![item.fam].after = value.notBefore]
  /\ item' = [item EXCEPT !.attempts = store[item.fam].attempts + 1]
  /\ pc' = "attempt"
  /\ UNCHANGED <<now, status, receipts, value, outcome, start, loginVars, ghostVars, faults>>

\* Second half: the attempt itself, in the token store.
ReserveAttempt ==
  /\ pc = "reserve"
  /\ Queued(item.fam)
  /\ store' = [store EXCEPT ![item.fam].attempts = @ + 1,
                            ![item.fam].after = value.notBefore]
  /\ item' = [item EXCEPT !.attempts = store[item.fam].attempts + 1]
  /\ pc' = "attempt"
  /\ UNCHANGED <<now, status, receipts, value, outcome, start, loginVars, ghostVars, faults>>

\* The coordinator suppresses the attempt: give the reservation back, unless the
\* record changed hands during the await, which is an error.
ReleaseSuppressed ==
  /\ pc = "attempt"
  /\ Queued(item.fam) => store[item.fam].attempts = item.attempts
  /\ store' = IF Queued(item.fam)
              THEN [store EXCEPT ![item.fam].attempts = @ - 1,
                                 ![item.fam].after = item.after]
              ELSE store
  /\ pc' = "release"
  /\ UNCHANGED <<now, status, receipts, value, item, outcome, start, loginVars,
                 ghostVars, faults>>

ReleaseRefused ==
  /\ pc = "attempt"
  /\ Queued(item.fam)
  /\ store[item.fam].attempts # item.attempts
  /\ UNCHANGED status
  /\ Return
  /\ UNCHANGED <<now, store, receipts, loginVars, ghostVars, faults>>

PostponeSuppressed(d) ==
  /\ pc = "release"
  /\ status' = [value EXCEPT !.notBefore = Later(start, d)]
  /\ Return
  /\ UNCHANGED <<now, store, receipts, loginVars, ghostVars, faults>>

\* The coordinator admits the attempt: killtoken goes out.
Transmit ==
  /\ pc = "attempt"
  /\ pc' = "answer"
  /\ tries' = [tries EXCEPT ![item.tok] = @ + 1]
  /\ coolUntil' = Later(start, RetryAfter(item.attempts))
  /\ UNCHANGED <<now, store, status, receipts, value, item, outcome, start, loginVars,
                 killed, clobbered, doubtful, faults>>

\* The Miniserver invalidates the token; its answer may still be lost.
MiniserverKills ==
  /\ pc = "answer"
  /\ item.tok \notin killed
  /\ killed' = killed \cup {item.tok}
  /\ UNCHANGED <<now, store, status, receipts, workerVars, loginVars,
                 tries, coolUntil, clobbered, doubtful, faults>>

Confirmed ==
  /\ pc = "answer"
  /\ item.tok \in killed
  /\ value' = [value EXCEPT !.streak = 0, !.notBefore = 0]
  /\ outcome' = "confirmed_killed"
  /\ coolUntil' = 0
  /\ pc' = "mark"
  /\ UNCHANGED <<now, store, status, receipts, item, start, loginVars,
                 killed, tries, clobbered, doubtful, faults>>

\* LoxoneTokenAuthenticationRejected
Rejected ==
  /\ pc = "answer"
  /\ LET streak == value.streak + 1
         until  == Later(start, InvalidAfter(streak))
     IN  /\ value' = [value EXCEPT !.streak = streak, !.notBefore = until]
         /\ coolUntil' = Min2(coolUntil, until)
  /\ outcome' = "already_invalid"
  /\ pc' = "mark"
  /\ UNCHANGED <<now, store, status, receipts, item, start, loginVars,
                 killed, tries, clobbered, doubtful, faults>>

\* Cooldowns after a transport failure or command rejection, and after a
\* source-IP block, which also waits for the breaker.
FailureDelays ==
  LET d == RetryAfter(item.attempts)
  IN  {d} \cup {Max2(d, Max2(BlockDelay, b)) : b \in BreakerDelays}

\* Mutant of GiveUp: the last transport failure passes for a confirmation.
GiveUpConfirmed ==
  /\ pc = "answer"
  /\ item.attempts >= MaxAttempts
  /\ \E d \in FailureDelays : value' = [value EXCEPT !.notBefore = Later(start, d)]
  /\ outcome' = "confirmed_killed"
  /\ pc' = "mark"
  /\ UNCHANGED <<now, store, status, receipts, item, start, loginVars, ghostVars, faults>>

GiveUp ==
  /\ pc = "answer"
  /\ item.attempts >= MaxAttempts
  /\ \E d \in FailureDelays : value' = [value EXCEPT !.notBefore = Later(start, d)]
  /\ outcome' = "unconfirmed"
  /\ pc' = "mark"
  /\ UNCHANGED <<now, store, status, receipts, item, start, loginVars, ghostVars, faults>>

Failed ==
  /\ pc = "answer"
  /\ item.attempts < MaxAttempts
  /\ \E d \in FailureDelays : status' = [value EXCEPT !.notBefore = Later(start, d)]
  /\ value' = status'
  /\ pc' = "suspend"
  /\ UNCHANGED <<now, store, receipts, item, outcome, start, loginVars, ghostVars, faults>>

\* Mutant of Suspend: the record is put off past every later pass.
SuspendForever ==
  /\ pc = "suspend"
  /\ store' = IF Queued(item.fam)
              THEN [store EXCEPT ![item.fam].after = MaxTime + 1]
              ELSE store
  /\ UNCHANGED status
  /\ Return
  /\ UNCHANGED <<now, receipts, loginVars, ghostVars, faults>>

\* suspend_remote_revoke
Suspend ==
  /\ pc = "suspend"
  /\ store' = IF Queued(item.fam)
              THEN [store EXCEPT ![item.fam].after = Max2(@, value.notBefore)]
              ELSE store
  /\ UNCHANGED status
  /\ Return
  /\ UNCHANGED <<now, receipts, loginVars, ghostVars, faults>>

\* mark_remote_revoke_terminal: a marker that is already there wins.
Mark ==
  /\ pc = "mark"
  /\ Queued(item.fam)
  /\ IF Marked(item.fam)
     THEN /\ outcome' = store[item.fam].outcome
          /\ UNCHANGED <<store, receipts>>
     ELSE /\ receipts' = receipts + 1
          /\ store' = [store EXCEPT ![item.fam].outcome = outcome,
                                    ![item.fam].receipt = receipts']
          /\ UNCHANGED outcome
  /\ pc' = "ack"
  /\ UNCHANGED <<now, status, value, item, start, loginVars, ghostVars, faults>>

\* The record is no longer queued: the store refuses the marker.
MarkRefused ==
  /\ pc = "mark"
  /\ ~ Queued(item.fam)
  /\ UNCHANGED status
  /\ Return
  /\ UNCHANGED <<now, store, receipts, loginVars, ghostVars, faults>>

\* Count the outcome in the sidecar, unless its receipt is already there.
Acknowledge ==
  /\ pc = "ack"
  /\ LET r == store[item.fam].receipt
     IN  status' = IF r \in value.acked
                   THEN status
                   ELSE [value EXCEPT !.acked = @ \cup {r}, !.totals[outcome] = @ + 1]
  /\ value' = status'
  /\ pc' = "complete"
  /\ UNCHANGED <<now, store, receipts, item, outcome, start, loginVars, ghostVars, faults>>

\* complete_remote_revoke
Complete ==
  /\ pc = "complete"
  /\ store' = [store EXCEPT ![item.fam] = Absent]
  /\ UNCHANGED status
  /\ Return
  /\ UNCHANGED <<now, receipts, loginVars, ghostVars, faults>>

-------------------------------------------------------------------------------
(***************************************************************************)
(* Failures.                                                               *)
(***************************************************************************)

\* A write fails, before or after the file was replaced: the pass is over.
Abort ==
  /\ pc # "idle"
  /\ faults < MaxFaults
  /\ faults' = faults + 1
  /\ UNCHANGED status
  /\ Return
  /\ UNCHANGED <<now, store, receipts, loginVars, ghostVars>>

\* The service stops and starts again: only the two files survive.
Restart ==
  /\ faults < MaxFaults
  /\ faults' = faults + 1
  /\ held' = [f \in Families |-> NoToken]
  /\ refreshing' = {}
  /\ UNCHANGED status
  /\ Return
  /\ UNCHANGED <<now, store, receipts, family, fresh, ghostVars>>

-------------------------------------------------------------------------------
Environment ==
  \/ Tick
  \/ \E f \in Families :
       \/ \E t \in Tokens : Issue(f, t) \/ RetainLogin(f, t) \/ RefreshPut(f, t)
       \/ QueueLogin(f)
       \/ QueueLoginDoubtful(f)
       \/ Schedule(f)
       \/ BeginRefresh(f)
       \/ AbandonRefresh(f)

Worker ==
  \/ Begin
  \/ NothingDue
  \/ \E d \in BreakerDelays : DeferToBreaker(d) \/ PostponeSuppressed(d)
  \/ \E f \in Families : Resume(f) \/ Expire(f) \/ Exhaust(f) \/ ReserveQueue(f)
  \/ ReserveAttempt
  \/ ReleaseSuppressed
  \/ ReleaseRefused
  \/ Transmit
  \/ Confirmed
  \/ Rejected
  \/ GiveUp
  \/ Failed
  \/ Suspend
  \/ Mark
  \/ MarkRefused
  \/ Acknowledge
  \/ Complete

Next == Environment \/ Worker \/ MiniserverKills \/ Abort \/ Restart

Spec == Init /\ [][Next]_vars

-------------------------------------------------------------------------------
(***************************************************************************)
(* Properties.                                                             *)
(***************************************************************************)

Record == [tok : Tokens \cup {NoToken}, pending : BOOLEAN, attempts : 0..MaxAttempts,
           after : 0..MaxTime, outcome : Outcomes \cup {"none"}, receipt : Nat]

Sidecar == [notBefore : 0..MaxTime, streak : Nat, acked : SUBSET Nat,
            totals : [Outcomes -> Nat]]

\* Types, and with them the two budgets: no record ever counts more than
\* MaxAttempts attempts.
TypeOK ==
  /\ now \in 0..MaxTime
  /\ store \in [Families -> Record]
  /\ status \in Sidecar
  /\ receipts \in Nat
  /\ pc \in {"idle", "gate", "reserve", "attempt", "release", "answer", "suspend",
             "mark", "ack", "complete"}
  /\ value \in Sidecar
  /\ item \in [fam : Families \cup {NoFamily}, tok : Tokens \cup {NoToken},
               attempts : 0..MaxAttempts, after : 0..MaxTime]
  /\ outcome \in Outcomes \cup {"none"}
  /\ start \in 0..MaxTime
  /\ family \in [Families -> {"new", "active", "ended"}]
  /\ held \in [Families -> Tokens \cup {NoToken}]
  /\ refreshing \subseteq Families
  /\ fresh \subseteq Tokens
  /\ killed \subseteq Tokens
  /\ tries \in [Tokens -> Nat]
  /\ coolUntil \in 0..MaxTime
  /\ clobbered \subseteq Families
  /\ doubtful \subseteq Families
  /\ faults \in 0..MaxFaults

\* Every killtoken attempt on the wire is counted in the durable record first,
\* whatever write fails afterwards (the reservation at lines 295-302 of
\* remote_revocation.py).  A cleanup key whose put was stored although it
\* reported an error is the exception: putting it again starts a new count.
NoUncountedAttempt ==
  \A f \in Families :
    Present(f) /\ f \notin doubtful => tries[store[f].tok] <= store[f].attempts

\* The queue-wide cooldown of the last attempt is over whenever another attempt
\* is about to go out: neither a restart nor another token shortens it.
CooldownHonoured == pc = "attempt" => coolUntil <= now

\* A record settled as confirmed_killed holds a token the Miniserver did kill,
\* unless a refresh put replaced the record after its family had ended.
ConfirmedMeansKilled ==
  \A f \in Families :
    store[f].outcome = "confirmed_killed" /\ f \notin clobbered =>
      store[f].tok \in killed

\* The receipt makes the outcome countable once: two records never share one,
\* and the sidecar acknowledges only receipts that were issued.
ReceiptsUnique ==
  /\ \A f, g \in Families :
       Marked(f) /\ store[f].receipt = store[g].receipt => f = g
  /\ status.acked \subseteq 1..receipts

\* The outcome a record was settled with is final: later passes may count and
\* delete it, never change their mind.  Only a new put starts over.
OutcomeIsFinal ==
  [][\A f \in Families :
       Marked(f) /\ Present(f)' /\ store'[f].receipt # 0 =>
         /\ store'[f].outcome = store[f].outcome
         /\ store'[f].receipt = store[f].receipt]_vars

\* Two files, one ledger: queue, totals and deletion behave as if settling a
\* token were one step, although the worker may stop between any two writes.
Ledger == INSTANCE RevocationLedger WITH
  queued  <- {f \in Families : Queued(f)},
  counted <- {f \in Families : Queued(f) /\ Marked(f) /\ store[f].receipt \in status.acked},
  totals  <- status.totals,
  writers <- refreshing \cup {f \in Families : held[f] # NoToken}

LedgerSpec == Ledger!Spec

\* What the store promises of a queued token ("Retain a token until a worker
\* confirms its Miniserver revocation", loxone_store.py:305): it leaves the
\* queue only after its outcome was counted.
ScheduledStaysQueued ==
  [][\A f \in Families :
       Queued(f) /\ ~ Queued(f)' => store[f].receipt \in status.acked]_vars

\* The bound of the change log, "five network attempts per token".
AttemptsPerToken == \A t \in Tokens : tries[t] <= MaxAttempts

(***************************************************************************)
(* The service keeps running (stops are bounded by MaxFaults), its event   *)
(* loop runs every ready task, and the network answers or times out.  The  *)
(* breaker is outside: it must not be found open at every single pass.     *)
(***************************************************************************)
Answer == Confirmed \/ Rejected \/ GiveUp \/ Failed

SyncStep ==
  \/ Begin \/ NothingDue
  \/ \E d \in BreakerDelays : PostponeSuppressed(d)
  \/ \E f \in Families : Resume(f) \/ Expire(f) \/ Exhaust(f)
  \/ ReserveAttempt \/ ReleaseRefused \/ Suspend
  \/ Mark \/ MarkRefused \/ Acknowledge \/ Complete

Fairness ==
  /\ WF_vars(Tick)
  /\ WF_vars(SyncStep)
  /\ WF_vars(Answer)
  /\ SF_vars(\E f \in Families : Resume(f) \/ Expire(f) \/ Exhaust(f) \/ ReserveQueue(f))
  /\ SF_vars(Transmit)

FairSpec == Spec /\ Fairness

\* No queued token is forgotten: its outcome is settled and the record deleted,
\* or a refresh put replaced it.
QueueDrains == \A f \in Families : Queued(f) ~> ~ Queued(f)
===============================================================================
