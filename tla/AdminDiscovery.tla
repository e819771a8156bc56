----------------------------- MODULE AdminDiscovery -----------------------------
(***************************************************************************)
(* Discovery for the Admin pages (service_discovery.py): requests of CGI   *)
(* helpers take turns on one connection of the service, which is kept for  *)
(* the next one, but only if nothing went wrong.  Answers carry no mark of *)
(* the request they answer.  Requests are cancelled by their deadline and  *)
(* by helpers that leave; the configured identity and the structure of     *)
(* the Miniserver may change between any two steps.                        *)
(***************************************************************************)
EXTENDS Naturals, Sequences

CONSTANTS
  Requests,       \* requests of CGI helpers
  Profiles,     \* configurations with their credentials (binding)
  Connections,    \* names of connections, to be used again
  MaxVersion,     \* bound: versions of the Miniserver's structure
  Nobody, NoConnection, NoIdentity

Parameters ==
  /\ MaxVersion \in Nat \ {0}
  /\ {Nobody, "idle", "close"} \cap Requests = {}
  /\ Nobody \notin {"idle", "close"}
  /\ NoConnection \notin Connections
  /\ NoIdentity \notin Profiles

VARIABLES
  configured,     \* the identity that the configuration gives now
  version,        \* of the structure of the Miniserver
  stored,         \* the display cache of the CGI: whose options, of which version
  request,        \* per request where it is, what it wants, what it got
  lock,           \* who has its turn
  held,           \* connection, receiver and profile of the owner
  failed,         \* the receiver has a failure
  pending,        \* the request that awaits an answer, and of which kind
  asked, wire,    \* commands, and answers, on their way over the held connection
  disposal,       \* the task that closes a connection
  open,           \* connections the Miniserver knows of
  owner           \* where the idle task and close are

vars == <<configured, version, stored, request, lock, held, failed, pending, asked, wire,
          disposal, open, owner>>

Nothing == [connection |-> NoConnection, receiver |-> FALSE, profile |-> NoIdentity]
NoDisposal == [of |-> NoConnection, st |-> "none"]
NoPending == [by |-> Nobody, kind |-> "none"]
NoAnswer == [version |-> 0, identity |-> NoIdentity]
Asks(pc, want, since, display) ==
  [pc |-> pc, want |-> want, since |-> since, display |-> display, reply |-> NoAnswer]
Refused == Asks("refused", NoIdentity, 0, FALSE)
Awaiting == {"identity", "renew", "connect", "marker", "structure", "recheck"}

Init ==
  /\ configured \in Profiles
  /\ version = 1
  /\ stored = NoAnswer
  /\ request = [r \in Requests |-> Asks("none", NoIdentity, 0, FALSE)]
  /\ lock = Nobody
  /\ held = Nothing
  /\ failed = FALSE
  /\ pending = NoPending
  /\ asked = <<>> /\ wire = <<>>
  /\ disposal = NoDisposal
  /\ open = {}
  /\ owner = [idle |-> "none", close |-> "none"]

-------------------------------------------------------------------------------
(* The world: configuration, Miniserver, and the cache file of the CGI.      *)

Configure ==
  /\ configured' \in (Profiles \cup {NoIdentity}) \ {configured}
  /\ UNCHANGED <<version, stored, request, lock, held, failed, pending, asked, wire,
                 disposal, open, owner>>

Edit ==
  /\ version < MaxVersion
  /\ version' = version + 1
  /\ UNCHANGED <<configured, stored, request, lock, held, failed, pending, asked, wire,
                 disposal, open, owner>>

\* An answer says nothing of who asked.
Reply ==
  /\ asked # <<>>
  /\ asked' = Tail(asked)
  /\ wire' = Append(wire, [kind |-> Head(asked), version |-> version])
  /\ UNCHANGED <<configured, version, stored, request, lock, held, failed, pending,
                 disposal, open, owner>>

\* The helper of a request keeps the options it was given; after a failure nothing
\* that it has kept may be used again.
Remember(r) ==
  /\ request[r].pc \in {"answered", "refused"}
  /\ stored' = request[r].reply
  /\ UNCHANGED <<configured, version, request, lock, held, failed, pending, asked, wire,
                 disposal, open, owner>>

-------------------------------------------------------------------------------
(* The receiver: one task that reads, for at most one that awaits.           *)

Receive ==
  /\ held.receiver /\ ~ failed /\ wire # <<>>
  /\ wire' = Tail(wire)
  /\ pending' = NoPending
  /\ IF pending.kind = Head(wire).kind
     THEN /\ request' = [request EXCEPT ![pending.by].reply =
                           [version |-> Head(wire).version, identity |-> held.profile]]
          /\ UNCHANGED failed
     ELSE /\ failed' = TRUE
          /\ UNCHANGED request
  /\ UNCHANGED <<configured, version, stored, lock, held, asked, disposal, open, owner>>

\* Disconnected, timed out or not understood: whoever awaits gets the failure.
Break ==
  /\ held.receiver /\ ~ failed
  /\ failed' = TRUE
  /\ pending' = NoPending
  /\ UNCHANGED <<configured, version, stored, request, lock, held, asked, wire, disposal,
                 open, owner>>

-------------------------------------------------------------------------------
(* Dropping what is held, in a task of its own that no cancellation reaches. *)

Drop ==
  /\ pending' = NoPending
  /\ IF disposal = NoDisposal
     THEN /\ disposal' = [of |-> held.connection, st |-> "running"]
          /\ held' = Nothing /\ failed' = FALSE /\ asked' = <<>> /\ wire' = <<>>
     ELSE UNCHANGED <<disposal, held, failed, asked, wire>>

Dispose ==
  /\ disposal.st = "running"
  /\ open' = open \ {disposal.of}
  /\ disposal' = [disposal EXCEPT !.st = "done"]
  /\ UNCHANGED <<configured, version, stored, request, lock, held, failed, pending, asked,
                 wire, owner>>

\* The wait for it ends.
Disposed == disposal.st = "done" /\ disposal' = NoDisposal

-------------------------------------------------------------------------------
(* A request.                                                                *)

At(r, pc) == request' = [request EXCEPT ![r].pc = pc]

\* The binding of the helper is that of the configuration it has read.
Ask(r) ==
  /\ request[r].pc = "none" /\ configured # NoIdentity
  /\ \E display \in BOOLEAN :
       request' = [request EXCEPT ![r] = Asks("queued", configured, version, display)]
  /\ UNCHANGED <<configured, version, stored, lock, held, failed, pending, asked, wire,
                 disposal, open, owner>>

\* Cancelled in the queue: it has touched nothing.
GiveUp(r) ==
  /\ request[r].pc = "queued"
  /\ request' = [request EXCEPT ![r] = Refused]
  /\ UNCHANGED <<configured, version, stored, lock, held, failed, pending, asked, wire,
                 disposal, open, owner>>

\* Its turn.  After close it is refused, like every failure by way of a drop.
Enter(r) ==
  /\ request[r].pc = "queued" /\ lock = Nobody
  /\ lock' = r
  /\ IF owner.close = "none"
     THEN At(r, "identity") /\ UNCHANGED <<held, failed, pending, asked, wire, disposal>>
     ELSE At(r, "drop") /\ Drop
  /\ UNCHANGED <<configured, version, stored, open, owner>>

\* Mutant of Fail: a cancelled request leaves the connection to the next one.
FailKeepsConnection(r) ==
  /\ request[r].pc \in Awaiting
  /\ request' = [request EXCEPT ![r] = Refused]
  /\ lock' = Nobody
  /\ pending' = NoPending
  /\ UNCHANGED <<configured, version, stored, held, failed, asked, wire, disposal, open,
                 owner>>

\* A failure, the deadline, or a helper that left, at any await.
Fail(r) ==
  /\ request[r].pc \in Awaiting
  /\ At(r, "drop")
  /\ Drop
  /\ UNCHANGED <<configured, version, stored, lock, open, owner>>

Dropped(r) ==
  /\ request[r].pc \in {"drop", "leave"}
  /\ Disposed
  /\ request' = [request EXCEPT ![r] = Refused]
  /\ lock' = Nobody
  /\ UNCHANGED <<configured, version, stored, held, failed, pending, asked, wire, open,
                 owner>>

\* Cancelled while it drops, it goes on waiting; the next time it leaves.
CancelledAgain(r) ==
  /\ \/ request[r].pc = "drop" /\ At(r, "leave") /\ UNCHANGED lock
     \/ request[r].pc = "leave" /\ request' = [request EXCEPT ![r] = Refused] /\ lock' = Nobody
  /\ UNCHANGED <<configured, version, stored, held, failed, pending, asked, wire, disposal,
                 open, owner>>

\* The first command over the connection: the change marker, for the display only.
Send(r, kind) ==
  /\ At(r, kind)
  /\ pending' = [by |-> r, kind |-> kind]
  /\ asked' = Append(asked, kind)

First(r) == IF request[r].display THEN "marker" ELSE "structure"

\* What is held is for another identity, or was idle or in use for too long.
Identified(r) ==
  /\ request[r].pc = "identity" /\ configured = request[r].want
  /\ \/ /\ At(r, "renew")
        /\ Drop
     \/ /\ held.profile = request[r].want /\ ~ failed
        /\ Send(r, First(r))
        /\ UNCHANGED <<held, failed, wire, disposal>>
  /\ UNCHANGED <<configured, version, stored, lock, open, owner>>

\* The connection object comes first, what it opens on the way is its own to close.
Dial(r) ==
  /\ request[r].pc = "renew"
  /\ Disposed
  /\ \E c \in Connections \ open :
       /\ held' = [held EXCEPT !.connection = c]
       /\ open' = open \cup {c}
  /\ At(r, "connect")
  /\ UNCHANGED <<configured, version, stored, lock, failed, pending, asked, wire, owner>>

Connected(r) ==
  /\ request[r].pc = "connect"
  /\ held' = [held EXCEPT !.receiver = TRUE, !.profile = request[r].want]
  /\ owner' = [owner EXCEPT !.idle = IF @ = "none" THEN "asleep" ELSE @]
  /\ Send(r, First(r))
  /\ UNCHANGED <<configured, version, stored, lock, failed, wire, disposal, open>>

\* The options in the cache are of this version, or the structure is loaded.
Marked(r) ==
  /\ request[r].pc = "marker" /\ request[r].reply # NoAnswer
  /\ IF stored = request[r].reply
     THEN At(r, "recheck") /\ UNCHANGED <<pending, asked>>
     ELSE /\ ~ failed
          /\ request' = [request EXCEPT ![r].pc = "structure", ![r].reply = NoAnswer]
          /\ pending' = [by |-> r, kind |-> "structure"]
          /\ asked' = Append(asked, "structure")
  /\ UNCHANGED <<configured, version, stored, lock, held, failed, wire, disposal, open, owner>>

Loaded(r) ==
  /\ request[r].pc = "structure" /\ request[r].reply # NoAnswer
  /\ At(r, "recheck")
  /\ UNCHANGED <<configured, version, stored, lock, held, failed, pending, asked, wire,
                 disposal, open, owner>>

\* The identity is read again, and the receiver and close looked at.
Recheck(r) ==
  /\ request[r].pc = "recheck"
  /\ configured = held.profile /\ ~ failed /\ owner.close = "none"
  /\ At(r, "answered")
  /\ lock' = Nobody
  /\ UNCHANGED <<configured, version, stored, held, failed, pending, asked, wire, disposal,
                 open, owner>>

-------------------------------------------------------------------------------
(* The idle task and close.                                                  *)

Expire ==
  /\ owner.idle = "asleep" /\ lock = Nobody /\ held.receiver
  /\ lock' = "idle"
  /\ owner' = [owner EXCEPT !.idle = "drop"]
  /\ Drop
  /\ UNCHANGED <<configured, version, stored, request, open>>

Expired ==
  /\ owner.idle \in {"drop", "cancelled"}
  /\ Disposed
  /\ lock' = Nobody
  /\ owner' = [owner EXCEPT !.idle = IF @ = "drop" THEN "asleep" ELSE "ended"]
  /\ UNCHANGED <<configured, version, stored, request, held, failed, pending, asked, wire,
                 open>>

\* The idle task is cancelled; one that drops a connection finishes first.
Close ==
  /\ owner.close = "none"
  /\ owner' = [close |-> "idle",
               idle |-> CASE owner.idle = "asleep" -> "ended"
                          [] owner.idle = "drop" -> "cancelled"
                          [] OTHER -> owner.idle]
  /\ UNCHANGED <<configured, version, stored, request, lock, held, failed, pending, asked,
                 wire, disposal, open>>

CloseDrops ==
  /\ owner.close = "idle" /\ owner.idle # "cancelled" /\ lock = Nobody
  /\ lock' = "close"
  /\ owner' = [owner EXCEPT !.close = "drop"]
  /\ Drop
  /\ UNCHANGED <<configured, version, stored, request, open>>

Closed ==
  /\ owner.close = "drop"
  /\ Disposed
  /\ lock' = Nobody
  /\ owner' = [owner EXCEPT !.close = "done"]
  /\ UNCHANGED <<configured, version, stored, request, held, failed, pending, asked, wire,
                 open>>

Next ==
  \/ Configure \/ Edit \/ Reply \/ Receive \/ Break \/ Dispose
  \/ Expire \/ Expired \/ Close \/ CloseDrops \/ Closed
  \/ \E r \in Requests :
       \/ Ask(r) \/ GiveUp(r) \/ Enter(r) \/ Fail(r) \/ Dropped(r) \/ CancelledAgain(r)
       \/ Identified(r) \/ Dial(r) \/ Connected(r) \/ Marked(r) \/ Loaded(r) \/ Recheck(r)
       \/ Remember(r)

Spec == Init /\ [][Next]_vars

-------------------------------------------------------------------------------

Answers == [version : 0..MaxVersion, identity : Profiles \cup {NoIdentity}]

TypeOK ==
  /\ configured \in Profiles \cup {NoIdentity}
  /\ version \in 1..MaxVersion
  /\ stored \in Answers
  /\ request \in [Requests ->
       [pc : Awaiting \cup {"none", "queued", "drop", "leave", "answered", "refused"},
        want : Profiles \cup {NoIdentity}, since : 0..MaxVersion, display : BOOLEAN,
        reply : Answers]]
  /\ lock \in Requests \cup {Nobody, "idle", "close"}
  /\ held \in [connection : Connections \cup {NoConnection}, receiver : BOOLEAN,
               profile : Profiles \cup {NoIdentity}]
  /\ held.receiver => held.connection \in open /\ held.profile # NoIdentity
  /\ failed \in BOOLEAN
  /\ pending.by \in Requests \cup {Nobody}
  /\ Len(asked) + Len(wire) <= 1
  /\ disposal.st = "none" \/ held = Nothing
  /\ open \subseteq Connections
  /\ owner.idle \in {"none", "asleep", "drop", "cancelled", "ended"}
  /\ owner.close \in {"none", "idle", "drop", "done"}

\* "A failed request never ... returns an old snapshot": every answer is at least
\* as new as its request and was given to the identity the request was made for.
\* And every connection is held or on its way to be closed, none is left by close.
AnswerIsOwn ==
  /\ \A r \in Requests : request[r].pc = "answered" =>
       /\ request[r].reply.version >= request[r].since
       /\ request[r].reply.identity = request[r].want
  /\ open \subseteq {held.connection} \cup {disposal.of}
  /\ owner.close = "done" => open = {}

(***************************************************************************)
(* Why it holds: what the theorem about it rests on.                       *)
(***************************************************************************)

Turn == Awaiting \cup {"drop", "leave"}
Places == Turn \cup {"none", "queued", "answered", "refused"}
Asked == {"marker", "structure"}

RequestRecords ==
  [pc : Places, want : Profiles \cup {NoIdentity},
   since : Nat, display : BOOLEAN, reply : [version : Nat, identity : Profiles \cup {NoIdentity}]]

HeldRecords == [connection : Connections \cup {NoConnection}, receiver : BOOLEAN,
                profile : Profiles \cup {NoIdentity}]
PendingRecords == [by : Requests \cup {Nobody}, kind : Asked \cup {"none"}]
DisposalRecords == [of : Connections \cup {NoConnection}, st : {"none", "running", "done"}]
OwnerRecords == [idle : {"none", "asleep", "drop", "cancelled", "ended"},
                 close : {"none", "idle", "drop", "done"}]

DiscoveryTypes ==
  /\ configured \in Profiles \cup {NoIdentity}
  /\ version \in Nat
  /\ request \in [Requests -> RequestRecords]
  /\ held \in HeldRecords
  /\ failed \in BOOLEAN
  /\ pending \in PendingRecords
  /\ disposal \in DisposalRecords
  /\ open \subseteq Connections
  /\ owner \in OwnerRecords

\* Whoever is at work, or drops a connection, has the lock.
LockIsHeld ==
  /\ \A r \in Requests : request[r].pc \in Turn => lock = r
  /\ owner.idle \in {"drop", "cancelled"} => lock = "idle"
  /\ owner.close = "drop" => lock = "close"

\* While a connection is closed none is held; what is not received from is as new.
OneConnection ==
  /\ disposal.st = "none" => disposal = NoDisposal
  /\ disposal # NoDisposal => held = Nothing
  /\ disposal.st = "done" => disposal.of \notin open
  /\ ~ held.receiver => held.profile = NoIdentity /\ ~ failed /\ asked = <<>> /\ wire = <<>>

\* At most one command or answer is on its way, and unless the receiver has failed it
\* is that of the request that awaits it, made after it asked.
OnItsWay(kind, first) ==
  \/ asked = <<kind>> /\ wire = <<>>
  \/ /\ asked = <<>>
     /\ \E v \in first .. version : wire = <<[kind |-> kind, version |-> v]>>

OneAnswer ==
  \/ pending = NoPending /\ asked = <<>> /\ wire = <<>>
  \/ pending = NoPending /\ failed /\ \E kind \in Asked : OnItsWay(kind, 0)
  \/ /\ pending.by \in Requests /\ pending.kind \in Asked /\ ~ failed
     /\ request[pending.by].pc = pending.kind /\ request[pending.by].reply = NoAnswer
     /\ OnItsWay(pending.kind, request[pending.by].since)

\* What a request has got came over a connection of its identity, after it began.
ReplyIsOwn(r) ==
  /\ request[r].since <= version
  /\ request[r].reply # NoAnswer => /\ request[r].reply.version >= request[r].since
                                    /\ request[r].reply.identity = request[r].want
  /\ request[r].pc \in {"none", "queued", "identity", "renew", "connect"} =>
       request[r].reply = NoAnswer
  /\ request[r].pc \in {"recheck", "answered"} => request[r].reply # NoAnswer
  /\ request[r].pc \in Awaiting \cup {"queued"} => request[r].want \in Profiles
  /\ request[r].pc \in Asked \cup {"recheck"} => held.receiver /\ held.profile = request[r].want

RepliesAreOwn == \A r \in Requests : ReplyIsOwn(r)

\* Connections that are open are known, and after close there are none.
ConnectionsAreKnown ==
  /\ open \subseteq {held.connection} \cup {disposal.of}
  /\ \A r \in Requests :
       request[r].pc = "connect" => ~ held.receiver /\ disposal = NoDisposal
  /\ owner.close \in {"drop", "done"} => \A r \in Requests : request[r].pc \notin Awaiting
  /\ owner.close = "done" => open = {}

DiscoveryInv ==
  /\ DiscoveryTypes
  /\ LockIsHeld
  /\ OneConnection
  /\ OneAnswer
  /\ RepliesAreOwn
  /\ ConnectionsAreKnown
===============================================================================
