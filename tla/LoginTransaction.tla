---------------------------- MODULE LoginTransaction ----------------------------
(***************************************************************************)
(* Signing in (Phase0OAuthWeb.authorize, src/mcpserver/auth/web.py).       *)
(*                                                                         *)
(* A login transaction goes from the sign-in form over consent to an       *)
(* authorization code.  On the way the Miniserver issues a token, and the  *)
(* transaction has to look after it: it is stored for the new OAuth family *)
(* or queued to be revoked.  Either is a write that may fail, also after   *)
(* it took effect.  A transaction is in memory only.  It names its user    *)
(* (miniserver_id, identity_id) by a secret that is read from the auth     *)
(* document, which may fail too; only what is named can be queued.         *)
(*                                                                         *)
(* Posted forms of a transaction take turns by its lock, which is kept     *)
(* over an await only while the Miniserver is asked.  Between two awaits   *)
(* code is one action.  A token has the name of the call it was issued to. *)
(* The service has a token store; what it does without one is left out.    *)
(***************************************************************************)
EXTENDS Integers, FiniteSets

CONSTANTS
  Transactions,
  Calls,         \* posted forms, each one once
  MaxAttempts,   \* _MAX_LOGIN_ATTEMPTS
  MaxOpen,       \* _MAX_LOGIN_TRANSACTIONS
  TTL,           \* _TRANSACTION_TTL
  NoToken, NoTransaction

Parameters ==
  /\ IsFiniteSet(Transactions)
  /\ MaxAttempts \in Nat \ {0} /\ MaxOpen \in Nat \ {0} /\ TTL \in Nat \ {0}
  /\ NoToken \notin Calls /\ NoTransaction \notin Transactions

VARIABLES
  login,     \* transaction -> see TypeOK
  call,      \* call -> where it is, its transaction and its form
  issued,    \* tokens that the Miniserver has issued
  records,   \* token -> its records in the store under OAuth families
  queued,    \* tokens in the store to be revoked
  granted,   \* tokens whose family is recorded, its code issued
  lost       \* tokens beyond the service's reach: in memory at a restart, never
             \* answered for, or without a user's name to queue them under

vars == <<login, call, issued, records, queued, granted, lost>>

Phases == {"login", "login_pending", "consent", "approving", "finished"}

NewLogin == [st |-> "new", phase |-> "login", attempts |-> 0, token |-> NoToken,
             cleanup |-> FALSE, known |-> FALSE, left |-> TTL]

NewCall == [pc |-> "new", tx |-> NoTransaction, form |-> "none"]

Init ==
  /\ login = [t \in Transactions |-> NewLogin]
  /\ call = [c \in Calls |-> NewCall]
  /\ issued = {}
  /\ records = [k \in Calls |-> 0]
  /\ queued = {}
  /\ granted = {}
  /\ lost = {}

Open(t) == login[t].st = "open"
Tx(c) == call[c].tx
Over(c) == [call EXCEPT ![c].pc = "done"]

\* A call waits for the Miniserver: for a token, for the answer that has it, for the
\* session that is opened with it.
Answering == {"answering", "issued"}
AtWork == {"signing"} \cup Answering

\* The lock of a transaction is free.
Unlocked(t) == \A c \in Calls : call[c].pc \in AtWork => Tx(c) # t

\* A call that has its turn, in a transaction that still is there.
Turn(c, form, phases) ==
  /\ call[c].pc = "waiting"
  /\ call[c].form = form
  /\ Unlocked(Tx(c))
  /\ Open(Tx(c))
  /\ login[Tx(c)].phase \in phases

Held(t) == {login[t].token} \ {NoToken}

-------------------------------------------------------------------------------
(***************************************************************************)
(* Transactions come and go.                                               *)
(***************************************************************************)

Start(t) ==
  /\ login[t].st = "new"
  /\ Cardinality({u \in Transactions : Open(u)}) < MaxOpen
  /\ login' = [login EXCEPT ![t].st = "open"]
  /\ UNCHANGED <<call, issued, records, queued, granted, lost>>

Tick ==
  /\ login' = [t \in Transactions |->
       IF Open(t) /\ login[t].left > 0 THEN [login[t] EXCEPT !.left = @ - 1] ELSE login[t]]
  /\ UNCHANGED <<call, issued, records, queued, granted, lost>>

\* Another form is posted to a transaction whose time is not over.
Post(c, t, form) ==
  /\ call[c].pc = "new"
  /\ Open(t)
  /\ login[t].left > 0
  /\ call' = [call EXCEPT ![c] = [pc |-> "waiting", tx |-> t, form |-> form]]
  /\ UNCHANGED <<login, issued, records, queued, granted, lost>>

\* Its transaction is gone or in another phase, the form is wrong, or its client
\* has left.
Dismissed(c) ==
  /\ call[c].pc = "waiting"
  /\ call' = Over(c)
  /\ UNCHANGED <<login, issued, records, queued, granted, lost>>

\* A write of its token to the store has failed, before or after it took effect;
\* without a name there is none.
NotQueued(t) == {queued, IF login[t].known THEN queued \cup Held(t) ELSE queued}

\* _queue_retained_login_token, which _kill calls: "done" is what becomes of the
\* transaction when its token, if any, is queued, "kept" when that failed.
Queue(t, done, kept) ==
  \/ /\ Held(t) # {} => login[t].known
     /\ login' = [login EXCEPT ![t] = [done EXCEPT !.token = NoToken, !.cleanup = FALSE]]
     /\ queued' = queued \cup Held(t)
  \/ /\ Held(t) # {}
     /\ login' = [login EXCEPT ![t] = [kept EXCEPT !.cleanup = TRUE]]
     /\ queued' \in NotQueued(t)

Closed(t) == [login[t] EXCEPT !.st = "gone", !.phase = "finished"]

\* Every request for the page tries first to drop what has expired.
Sweep(t) ==
  /\ Open(t)
  /\ login[t].left = 0
  /\ Unlocked(t)
  /\ Queue(t, [login[t] EXCEPT !.st = "gone"], login[t])
  /\ UNCHANGED <<call, issued, records, granted, lost>>

Restart ==
  /\ lost' = lost \cup {k \in issued :
                       call[k].pc \in Answering \/ \E t \in Transactions : k \in Held(t)}
  /\ login' = [t \in Transactions |->
       IF login[t].st = "new" THEN NewLogin ELSE [NewLogin EXCEPT !.st = "gone"]]
  /\ call' = [c \in Calls |-> IF call[c].pc = "new" THEN NewCall ELSE [NewCall EXCEPT !.pc = "done"]]
  /\ UNCHANGED <<issued, records, queued, granted>>

-------------------------------------------------------------------------------
(***************************************************************************)
(* Sign in.                                                                *)
(***************************************************************************)

\* A token of an earlier attempt has to be queued first; if that fails the phase
\* stays "login_pending".
CleanupFails(c) ==
  /\ Turn(c, "login", {"login"})
  /\ login[Tx(c)].cleanup
  /\ login' = [login EXCEPT ![Tx(c)].phase = "login_pending"]
  /\ queued' \in NotQueued(Tx(c))
  /\ call' = Over(c)
  /\ UNCHANGED <<issued, records, granted, lost>>

\* Mutant of SignIn: the token of an earlier attempt does not matter.
SignInOver(c) ==
  LET t == Tx(c)
  IN  /\ Turn(c, "login", {"login"})
      /\ login[t].attempts < MaxAttempts
      /\ login' = [login EXCEPT ![t] = [@ EXCEPT !.attempts = @ + 1, !.phase = "login_pending"]]
      /\ call' = [call EXCEPT ![c].pc = "signing"]
      /\ UNCHANGED <<issued, records, queued, granted, lost>>

\* The attempt counts.  One too many ends the transaction; the login limits or
\* missing fields end the call; else the Miniserver is asked.
SignIn(c) ==
  LET t == Tx(c)
      begun == [login[t] EXCEPT !.attempts = @ + 1, !.token = NoToken, !.cleanup = FALSE]
  IN  /\ Turn(c, "login", {"login"})
      /\ login[t].cleanup => login[t].known
      /\ queued' = IF login[t].cleanup THEN queued \cup Held(t) ELSE queued
      /\ \/ /\ begun.attempts > MaxAttempts
            /\ login' = [login EXCEPT ![t] = [begun EXCEPT !.st = "gone", !.phase = "finished"]]
            /\ call' = Over(c)
         \/ /\ begun.attempts <= MaxAttempts
            /\ login' = [login EXCEPT ![t] = begun]
            /\ call' = Over(c)
         \/ /\ begun.attempts <= MaxAttempts
            /\ login' = [login EXCEPT ![t] = [begun EXCEPT !.phase = "login_pending"]]
            /\ call' = [call EXCEPT ![c].pc = "signing"]
      /\ UNCHANGED <<issued, records, granted, lost>>

\* Cancelled and suppressed attempts do not count.
Uncounted(t) == {login[t].attempts, login[t].attempts - 1}

\* The attempt is over and has no token; the user may try again.
Unanswered(c) ==
  /\ \E n \in Uncounted(Tx(c)) :
       login' = [login EXCEPT ![Tx(c)] = [@ EXCEPT !.attempts = n, !.phase = "login"]]
  /\ call' = Over(c)

NoTokenIssued(c) ==
  /\ call[c].pc = "signing"
  /\ Unanswered(c)
  /\ UNCHANGED <<issued, records, queued, granted, lost>>

\* The Miniserver has issued the token.  Its answer is on its way, and acquire_token
\* closes the websocket before it returns.
Issue(c) ==
  /\ call[c].pc = "signing"
  /\ issued' = issued \cup {c}
  /\ call' = [call EXCEPT ![c].pc = "answering"]
  /\ UNCHANGED <<login, records, queued, granted, lost>>

Answered(c) ==
  /\ call[c].pc = "answering"
  /\ call' = [call EXCEPT ![c].pc = "issued"]
  /\ UNCHANGED <<login, issued, records, queued, granted, lost>>

\* The answer is lost, late or not understood, or the call is cancelled before it has
\* the token: nobody knows of it.
AnswerLost(c) ==
  /\ call[c].pc = "answering"
  /\ Unanswered(c)
  /\ lost' = lost \cup {c}
  /\ UNCHANGED <<issued, records, queued, granted>>

\* The session is not admitted or not opened, or the call is cancelled: the token
\* is queued, or the transaction keeps it for later.
SignInFails(c) ==
  LET t == Tx(c)
  IN  /\ call[c].pc = "issued"
      /\ \E n \in Uncounted(t) :
           LET ended == [login[t] EXCEPT !.attempts = n, !.phase = "login", !.known = TRUE]
           IN  \/ /\ login' = [login EXCEPT ![t] = ended]
                  /\ queued' = queued \cup {c}
               \/ /\ login' = [login EXCEPT ![t] = [ended EXCEPT !.token = c, !.cleanup = TRUE]]
                  /\ queued' \in {queued, queued \cup {c}}
      /\ call' = Over(c)
      /\ UNCHANGED <<issued, records, granted, lost>>

\* Or its user cannot be named when it is to be kept: the phase stays "login_pending",
\* and unless an earlier attempt has named the user the token can never be queued.
RetainBreaks(c) ==
  LET t == Tx(c)
  IN  /\ call[c].pc = "issued"
      /\ login' = [login EXCEPT ![t] = [@ EXCEPT !.token = c, !.cleanup = TRUE]]
      /\ lost' = IF login[t].known THEN lost ELSE lost \cup {c}
      /\ call' = Over(c)
      /\ UNCHANGED <<issued, records, queued, granted>>

SignedIn(c) ==
  /\ call[c].pc = "issued"
  /\ login' = [login EXCEPT ![Tx(c)] = [@ EXCEPT !.token = c, !.known = TRUE, !.phase = "consent"]]
  /\ call' = Over(c)
  /\ UNCHANGED <<issued, records, queued, granted, lost>>

\* The user cannot be named: the token was in the call only, and the transaction stays
\* behind without one.
NamingFails(c) ==
  /\ call[c].pc = "issued"
  /\ lost' = lost \cup {c}
  /\ call' = Over(c)
  /\ UNCHANGED <<login, issued, records, queued, granted>>

\* The transaction has token and name, but its local approvals cannot be read: it stays
\* "login_pending" until it is swept.
ApprovalsUnread(c) ==
  /\ call[c].pc = "issued"
  /\ login' = [login EXCEPT ![Tx(c)] = [@ EXCEPT !.token = c, !.known = TRUE]]
  /\ call' = Over(c)
  /\ UNCHANGED <<issued, records, queued, granted, lost>>

-------------------------------------------------------------------------------
(***************************************************************************)
(* Consent.                                                                *)
(***************************************************************************)

\* The token is stored for a new family, then the code is issued.
Approve(c) ==
  LET t == Tx(c)
      k == login[t].token
      stored == [records EXCEPT ![k] = @ + 1]
  IN  /\ Turn(c, "approve", {"consent"})
      /\ login[t].known
      /\ k # NoToken
      /\ records' = stored
      /\ granted' = granted \cup {k}
      /\ login' = [login EXCEPT ![t] = [Closed(t) EXCEPT !.token = NoToken]]
      /\ call' = Over(c)
      /\ UNCHANGED <<issued, queued, lost>>

\* The put fails, before or after it took effect, or the code is refused and the
\* record deleted: the user may try again.
ApproveRefused(c) ==
  LET k == login[Tx(c)].token
  IN  /\ Turn(c, "approve", {"consent"})
      /\ login[Tx(c)].known
      /\ k # NoToken
      /\ records' \in {records, [records EXCEPT ![k] = @ + 1]}
      /\ call' = Over(c)
      /\ UNCHANGED <<login, issued, queued, granted, lost>>

\* The code or the deletion fails otherwise, again before or after it took effect:
\* the phase stays "approving".
ApproveBreaks(c) ==
  LET t == Tx(c)
      k == login[t].token
      stored == [records EXCEPT ![k] = @ + 1]
  IN  /\ Turn(c, "approve", {"consent"})
      /\ login[t].known
      /\ k # NoToken
      /\ \/ records' = stored /\ granted' \in {granted, granted \cup {k}}
         \/ records' = records /\ UNCHANGED granted
      /\ login' = [login EXCEPT ![t].phase = "approving"]
      /\ call' = Over(c)
      /\ UNCHANGED <<issued, queued, lost>>

\* A token that cannot be queued keeps the transaction alive: at the consent page,
\* if the Miniserver has named the user.
Deny(c) ==
  LET t == Tx(c)
  IN  /\ Turn(c, "deny", {"login", "consent"})
      /\ Queue(t, Closed(t),
               [login[t] EXCEPT !.phase = IF login[t].known THEN "consent" ELSE "login"])
      /\ call' = Over(c)
      /\ UNCHANGED <<issued, records, granted, lost>>

Forms == {"login", "approve", "deny"}

Next ==
  \/ Tick
  \/ Restart
  \/ \E t \in Transactions : Start(t) \/ Sweep(t)
  \/ \E c \in Calls :
       \/ \E t \in Transactions, form \in Forms : Post(c, t, form)
       \/ Dismissed(c)
       \/ CleanupFails(c) \/ SignIn(c)
       \/ NoTokenIssued(c) \/ Issue(c) \/ Answered(c) \/ AnswerLost(c)
       \/ SignInFails(c) \/ RetainBreaks(c)
       \/ SignedIn(c) \/ NamingFails(c) \/ ApprovalsUnread(c)
       \/ Approve(c) \/ ApproveRefused(c) \/ ApproveBreaks(c) \/ Deny(c)

Spec == Init /\ [][Next]_vars

-------------------------------------------------------------------------------
(***************************************************************************)
(* Properties.                                                             *)
(***************************************************************************)

TypeOK ==
  /\ \A t \in Transactions :
       /\ login[t].st \in {"new", "open", "gone"}
       /\ login[t].phase \in Phases
       /\ login[t].attempts \in 0..MaxAttempts + 1
       /\ login[t].token \in Calls \cup {NoToken}
       /\ login[t].left \in 0..TTL
       /\ Open(t) /\ login[t].cleanup => login[t].token # NoToken
       /\ Cardinality({c \in Calls : call[c].pc \in AtWork /\ Tx(c) = t}) <= 1
  /\ \A c \in Calls :
       /\ call[c].pc \in {"new", "waiting", "done"} \cup AtWork
       /\ call[c].pc \in AtWork => login[Tx(c)].phase = "login_pending"
       /\ records[c] \in Nat
  /\ queued \cup granted \cup lost \subseteq issued

\* Whatever is written, cancelled, denied or expires: a token that the Miniserver has
\* issued is with a call at work, with a transaction that is still swept and can queue
\* it, or in the store for a family or to be revoked.  Excepted are the tokens that the
\* code lets go: what is in memory at a restart, what an answer that never arrives
\* has issued, and what has to be named while the auth document cannot be read.
TokenHasOwner ==
  \A k \in issued :
    \/ call[k].pc \in Answering
    \/ \E t \in Transactions : Open(t) /\ login[t].known /\ login[t].token = k
    \/ records[k] > 0
    \/ k \in queued \cup lost

(***************************************************************************)
(* Why it holds: what the theorem about it rests on.                       *)
(***************************************************************************)

Logins == [st : {"new", "open", "gone"}, phase : Phases, attempts : Int,
           token : Calls \cup {NoToken}, cleanup : BOOLEAN, known : BOOLEAN, left : Int]
CallRecords == [pc : {"new", "waiting", "done"} \cup AtWork,
                tx : Transactions \cup {NoTransaction}, form : Forms \cup {"none"}]

LoginTypes ==
  /\ login \in [Transactions -> Logins]
  /\ call \in [Calls -> CallRecords]
  /\ \A c \in Calls : call[c].pc \in {"waiting"} \cup AtWork => Tx(c) \in Transactions
  /\ issued \subseteq Calls
  /\ records \in [Calls -> Nat]

\* A call that waits for the Miniserver has its transaction for itself, which is there
\* and holds no token meanwhile.
AloneAtWork ==
  \A c \in Calls : call[c].pc \in AtWork =>
    /\ Open(Tx(c))
    /\ login[Tx(c)].phase = "login_pending"
    /\ login[Tx(c)].token = NoToken
    /\ \A d \in Calls : call[d].pc \in AtWork /\ Tx(d) = Tx(c) => d = c

\* A token that is held at the sign-in form is one that has yet to be queued, and one
\* without a user's name is beyond reach.
LeftIsNoted ==
  \A t \in Transactions : login[t].token # NoToken =>
    /\ login[t].st # "new"
    /\ login[t].phase = "login" => login[t].cleanup
    /\ login[t].known \/ login[t].token \in lost

LoginInv == LoginTypes /\ AloneAtWork /\ LeftIsNoted /\ TokenHasOwner
===============================================================================
