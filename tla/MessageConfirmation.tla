-------------------------- MODULE MessageConfirmation --------------------------
(***************************************************************************)
(* Confirming a message of the Miniserver                                  *)
(* (src/mcpserver/message_confirmation.py), with the approval of the local *)
(* administrator (message_approval.py).                                    *)
(*                                                                         *)
(* A caller previews a message and gets a ticket, kept in memory; its      *)
(* preview is staged in a file that the Admin process approves; the caller *)
(* confirms, the server looks again, takes the approval and sends the      *)
(* command once.  Callers interleave at every await.  A claim on the       *)
(* target tells tickets from before a dispatch from those after it.        *)
(*                                                                         *)
(* The message itself changes as it likes, also because of a command that  *)
(* seemed lost.  A preview id is random and never used again; all targets  *)
(* are on one Miniserver.                                                  *)
(***************************************************************************)
EXTENDS Integers, FiniteSets

CONSTANTS
  Callers,     \* bindings: OAuth family and identity
  Entries,     \* messages
  Previews,    \* preview ids: numbers, in the order of their use
  Revisions,   \* bound: contents of a message, 1..Revisions
  TTL,         \* TTL_SECONDS, of tickets, approvals and claims
  MaxPerCaller, \* MAX_PREVIEWS_PER_BINDING
  NoClaim, NoCaller, NoEntry

Parameters ==
  /\ IsFiniteSet(Previews) /\ Previews \subseteq Nat
  /\ Revisions \in Nat \ {0}
  /\ TTL \in Nat \ {0}
  /\ MaxPerCaller \in Nat \ {0}
  /\ NoClaim \notin Previews /\ NoCaller \notin Callers /\ NoEntry \notin Entries

VARIABLES
  message,   \* entry -> its revision, and whether it can be confirmed
  ticket,    \* preview -> the call that makes it, the ticket, the call that uses it
  approval,  \* preview -> its record in the approvals file
  claim,     \* entry -> the dispatch that claimed it last, and the time left
  inflight,  \* entries with a command on its way
  attempts,  \* entry -> dispatches so far
  shown      \* previews that the administrator has approved

vars == <<message, ticket, approval, claim, inflight, attempts, shown>>

NoTicket == [st |-> "none", caller |-> NoCaller, entry |-> NoEntry, rev |-> 0, left |-> 0,
             claim |-> NoClaim, seen |-> 0]
NoApproval == [st |-> "none", left |-> 0]
NoClaimed == [by |-> NoClaim, left |-> 0]

\* A call: it reads the message for a preview, holds a ticket, prepares a dispatch
\* (the ticket is used up), has seen the message again, has sent, is over.
TicketStates == {"none", "reading", "held", "preflight", "checked", "sent", "over"}

Init ==
  /\ message = [e \in Entries |-> [rev |-> 1, open |-> TRUE]]
  /\ ticket = [p \in Previews |-> NoTicket]
  /\ approval = [p \in Previews |-> NoApproval]
  /\ claim = [e \in Entries |-> NoClaimed]
  /\ inflight = {}
  /\ attempts = [e \in Entries |-> 0]
  /\ shown = {}

Less(t) == IF t = 0 THEN 0 ELSE t - 1

Tick ==
  /\ ticket' = [p \in Previews |-> [ticket[p] EXCEPT !.left = Less(@)]]
  /\ approval' = [p \in Previews |-> [approval[p] EXCEPT !.left = Less(@)]]
  /\ claim' = [e \in Entries |-> [claim[e] EXCEPT !.left = Less(@)]]
  /\ UNCHANGED <<message, inflight, attempts, shown>>

\* Somebody, or our command, changes the message.
Change(e) ==
  /\ message[e].rev < Revisions
  /\ \E open \in BOOLEAN : message' = [message EXCEPT ![e] = [rev |-> @.rev + 1, open |-> open]]
  /\ UNCHANGED <<ticket, approval, claim, inflight, attempts, shown>>

-------------------------------------------------------------------------------
(***************************************************************************)
(* Memory and file.                                                        *)
(***************************************************************************)

Used == [NoTicket EXCEPT !.st = "over"]
Over(p) == [ticket EXCEPT ![p] = Used]

\* _prune of tickets ...
Unexpired(t) ==
  [p \in Previews |-> IF t[p].st = "held" /\ t[p].left = 0 THEN Used ELSE t[p]]

\* ... and of claims, which stay as long as a ticket may be compared with them.
ClaimsKept(t) ==
  [e \in Entries |->
    IF \/ claim[e].left > 0
       \/ e \in inflight
       \/ \E p \in Previews : t[p].st = "held" /\ t[p].entry = e
    THEN claim[e] ELSE NoClaimed]

Held(t, c) == {p \in Previews : t[p].st = "held" /\ t[p].caller = c}

\* Every transaction of the file drops what has expired.
Filed == [p \in Previews |-> IF approval[p].left = 0 THEN NoApproval ELSE approval[p]]

Siblings(p) ==
  {q \in Previews : ticket[q].caller = ticket[p].caller /\ ticket[q].entry = ticket[p].entry}

Staged(p) ==
  [q \in Previews |->
    IF q = p THEN [st |-> "staged", left |-> TTL]
    ELSE IF q \in Siblings(p) THEN NoApproval ELSE Filed[q]]

-------------------------------------------------------------------------------
(***************************************************************************)
(* preview                                                                 *)
(***************************************************************************)

\* The caller's message is read; the rest of preview happens after the answer.
Read(p, c, e) ==
  /\ ticket[p].st = "none"
  /\ \A q \in Previews : q < p => ticket[q].st # "none"
  /\ message[e].open
  /\ ticket' = [ticket EXCEPT ![p] =
       [NoTicket EXCEPT !.st = "reading", !.caller = c, !.entry = e, !.rev = message[e].rev]]
  /\ UNCHANGED <<message, approval, claim, inflight, attempts, shown>>

\* The message cannot be read or confirmed, or the caller has gone.
ReadRefused(p) ==
  /\ ticket[p].st = "reading"
  /\ ticket' = Over(p)
  /\ UNCHANGED <<message, approval, claim, inflight, attempts, shown>>

\* Refused or made, the call prunes; only one for a target with a command on its way
\* leaves the caller's older tickets for it.  There may be too many tickets of this caller,
\* or in all: the latter looks like a file that cannot be written.
Preview(p) ==
  LET t == Unexpired(ticket)
      c == ticket[p].caller
      e == ticket[p].entry
      kept == [q \in Previews |->
                IF q \in Siblings(p) /\ t[q].st = "held" THEN Used ELSE t[q]]
      room == Cardinality(Held(kept, c)) < MaxPerCaller
  IN  /\ ticket[p].st = "reading"
      /\ claim' = ClaimsKept(t)
      /\ \/ /\ e \in inflight
            /\ ticket' = [t EXCEPT ![p] = Used]
            /\ approval' = approval
         \/ /\ e \notin inflight
            /\ room
            /\ ticket' = [kept EXCEPT ![p] =
                 [@ EXCEPT !.st = "held", !.left = TTL, !.claim = ClaimsKept(t)[e].by,
                           !.seen = attempts[e]]]
            /\ approval' = Staged(p)
         \* no room, or the file cannot be written, or it is and its directory not synced
         \/ /\ e \notin inflight
            /\ ticket' = [kept EXCEPT ![p] = Used]
            /\ approval' \in {approval, IF room THEN Staged(p) ELSE approval}
      /\ UNCHANGED <<message, inflight, attempts, shown>>

\* Mutant of Approve: whatever is staged gets approved with it.
ApproveAll(p) ==
  /\ Filed[p].st = "staged"
  /\ approval' = [q \in Previews |-> IF Filed[q].st = "staged"
                                     THEN [Filed[q] EXCEPT !.st = "approved"] ELSE Filed[q]]
  /\ shown' = shown \cup {p}
  /\ UNCHANGED <<message, ticket, claim, inflight, attempts>>

\* The administrator approves what the Admin page shows: another process.
Approve(p) ==
  /\ Filed[p].st = "staged"
  /\ approval' = [Filed EXCEPT ![p].st = "approved"]
  /\ shown' = shown \cup {p}
  /\ UNCHANGED <<message, ticket, claim, inflight, attempts>>

-------------------------------------------------------------------------------
(***************************************************************************)
(* confirm                                                                 *)
(***************************************************************************)

\* Admission is refused, or the call is cancelled while it waits for it.
NotAdmitted(p) ==
  /\ ticket[p].st = "held"
  /\ ticket' = Over(p)
  /\ UNCHANGED <<message, approval, claim, inflight, attempts, shown>>

\* The ticket is used up before the first await, whatever comes of the call.
Confirm(p) ==
  LET used == IF ticket[p].left > 0 THEN [ticket EXCEPT ![p].st = "preflight"] ELSE Over(p)
  IN  /\ ticket[p].st = "held"
      /\ ticket' = Unexpired(used)
      /\ claim' = ClaimsKept(Unexpired(used))
      /\ UNCHANGED <<message, approval, inflight, attempts, shown>>

\* No access, no budget, no session; or the message has changed.
PreflightFails(p) ==
  /\ ticket[p].st \in {"preflight", "checked"}
  /\ ticket' = Over(p)
  /\ UNCHANGED <<message, approval, claim, inflight, attempts, shown>>

LookAgain(p) ==
  /\ ticket[p].st = "preflight"
  /\ message[ticket[p].entry] = [rev |-> ticket[p].rev, open |-> TRUE]
  /\ ticket' = [ticket EXCEPT ![p].st = "checked"]
  /\ UNCHANGED <<message, approval, claim, inflight, attempts, shown>>

\* Mutant of Current: the siblings' tickets are gone, what else could there be.
CurrentUnclaimed(p) == ticket[p].left > 0 /\ ticket[p].entry \notin inflight

\* No other attempt since the preview, none on its way, and there is time left.
Current(p) ==
  /\ ticket[p].left > 0
  /\ ticket[p].entry \notin inflight
  /\ ticket[p].claim = claim[ticket[p].entry].by

\* The approval is taken from the file: it may be missing or not given, and the
\* file may fail before or after it is written.
NotApproved(p) ==
  /\ ticket[p].st = "checked"
  /\ Current(p)
  /\ approval' \in {approval, [Filed EXCEPT ![p] = NoApproval]}
  /\ ticket' = Over(p)
  /\ UNCHANGED <<message, claim, inflight, attempts, shown>>

\* The approval is there: the target is claimed, its other tickets are void, and
\* the command goes out.
Dispatch(p) ==
  LET e == ticket[p].entry
  IN  /\ ticket[p].st = "checked"
      /\ Current(p)
      /\ Filed[p].st = "approved"
      /\ approval' = [Filed EXCEPT ![p] = NoApproval]
      /\ inflight' = inflight \cup {e}
      /\ claim' = [claim EXCEPT ![e] = [by |-> p, left |-> TTL]]
      /\ ticket' = [q \in Previews |->
           IF q = p THEN [ticket[q] EXCEPT !.st = "sent"]
           ELSE IF ticket[q].entry = e /\ ticket[q].st = "held" THEN Used ELSE ticket[q]]
      /\ attempts' = [attempts EXCEPT ![e] = @ + 1]
      /\ UNCHANGED <<message, shown>>

\* Accepted, observed, rejected, or nobody knows: it is not sent again.
Answer(p) ==
  /\ ticket[p].st = "sent"
  /\ ticket' = Over(p)
  /\ inflight' = inflight \ {ticket[p].entry}
  /\ UNCHANGED <<message, approval, claim, attempts, shown>>

\* The service restarts: the file is all that is left.
Restart ==
  /\ ticket' = [p \in Previews |->
       IF ticket[p].st = "none" THEN NoTicket ELSE Used]
  /\ claim' = [e \in Entries |-> NoClaimed]
  /\ inflight' = {}
  /\ UNCHANGED <<message, approval, attempts, shown>>

Next ==
  \/ Tick
  \/ Restart
  \/ \E e \in Entries : Change(e)
  \/ \E p \in Previews :
       \/ \E c \in Callers, e \in Entries : Read(p, c, e)
       \/ ReadRefused(p) \/ Preview(p) \/ Approve(p)
       \/ NotAdmitted(p) \/ Confirm(p) \/ PreflightFails(p) \/ LookAgain(p)
       \/ NotApproved(p) \/ Dispatch(p) \/ Answer(p)

Spec == Init /\ [][Next]_vars

-------------------------------------------------------------------------------
(***************************************************************************)
(* Properties.                                                             *)
(***************************************************************************)

TypeOK ==
  /\ \A e \in Entries :
       /\ message[e] \in [rev : 1..Revisions, open : BOOLEAN]
       /\ claim[e] \in [by : Previews \cup {NoClaim}, left : 0..TTL]
  /\ \A p \in Previews :
       /\ ticket[p].st \in TicketStates
       /\ ticket[p].left \in 0..TTL
       /\ ticket[p].claim \in Previews \cup {NoClaim}
       /\ approval[p] \in [st : {"none", "staged", "approved"}, left : 0..TTL]
  /\ inflight = {ticket[p].entry : p \in {q \in Previews : ticket[q].st = "sent"}}
  /\ \A c \in Callers : Cardinality(Held(ticket, c)) <= MaxPerCaller

Sends(p) == ticket[p].st # "sent" /\ ticket'[p].st = "sent"

\* "Confirmation invalidates sibling previews of the exact target and prevents
\* simultaneous dispatch, including across families" (system-messages.en.md:66):
\* between a preview and its dispatch nobody else has sent a command for the
\* message, however long the calls were on the way.
SendsFirst ==
  \A p \in Previews : Sends(p) =>
    /\ attempts[ticket[p].entry] = ticket[p].seen
    /\ ticket[p].entry \notin inflight

NoSecondAttempt == [][SendsFirst]_vars

\* What is sent was approved by the administrator as this very preview, not as
\* another one of the caller; its approval is used up, also when a restart has let
\* the service forget; and no two commands for one message are on their way.
ApprovedOnce ==
  /\ \A p \in Previews : ticket[p].st = "sent" => p \in shown /\ approval[p].st # "approved"
  /\ \A p, q \in Previews :
       ticket[p].st = "sent" /\ ticket[q].st = "sent" /\ ticket[p].entry = ticket[q].entry => p = q

(***************************************************************************)
(* Why they hold: what the theorems about them rest on.                    *)
(***************************************************************************)

Times == 0..TTL
Tickets == [st : TicketStates, caller : Callers \cup {NoCaller}, entry : Entries \cup {NoEntry},
            rev : Int, left : Times, claim : Previews \cup {NoClaim}, seen : Nat]
ApprovalRecords == [st : {"none", "staged", "approved"}, left : Nat]
Claims == [by : Previews \cup {NoClaim}, left : Nat]

ConfirmationTypes ==
  /\ ticket \in [Previews -> Tickets]
  /\ \A p \in Previews : ticket[p].st \notin {"none", "over"} => ticket[p].entry \in Entries
  /\ approval \in [Previews -> ApprovalRecords]
  /\ claim \in [Entries -> Claims]
  /\ attempts \in [Entries -> Nat]
  /\ \A e \in Entries : message[e].rev \in Int

\* An approval was given by the administrator, and is gone when the command is sent.
GivenAndTaken ==
  \A p \in Previews :
    /\ approval[p].st = "approved" => p \in shown
    /\ ticket[p].st = "sent" => p \in shown /\ approval[p].st = "none"

\* A message with a command on its way is in inflight, and has one.
OneOnItsWay ==
  /\ \A p \in Previews : ticket[p].st = "sent" => ticket[p].entry \in inflight
  /\ \A p, q \in Previews :
       ticket[p].st = "sent" /\ ticket[q].st = "sent" /\ ticket[p].entry = ticket[q].entry => p = q

\* A claim is that of a ticket that was used for it, so that no second dispatch claims
\* under the same name.
ClaimsAreUsed ==
  \A e \in Entries :
    IF claim[e].by = NoClaim THEN claim[e].left = 0
    ELSE ticket[claim[e].by].st \in {"sent", "over"}

\* Since a ticket was made its message was tried: the claim is another than the one the
\* ticket knows, or, if it knows none, one that outlasts it.
TriedSince ==
  \A p \in Previews : ticket[p].st \in {"held", "preflight", "checked"} =>
    LET e == ticket[p].entry
    IN  /\ ticket[p].claim # NoClaim => ticket[ticket[p].claim].st \in {"sent", "over"}
        /\ attempts[e] # ticket[p].seen =>
             IF ticket[p].claim = NoClaim THEN claim[e].left >= ticket[p].left
             ELSE claim[e].by # ticket[p].claim

ConfirmationInv ==
  ConfirmationTypes /\ GivenAndTaken /\ OneOnItsWay /\ ClaimsAreUsed /\ TriedSince
===============================================================================
