----------------------------- MODULE OAuthProvider -----------------------------
(***************************************************************************)
(* Grants of the local OAuth server (src/mcpserver/auth/provider.py) in    *)
(* its file (auth/store.py), and the Loxone token behind each grant.       *)
(*                                                                         *)
(* One authorization creates a family: a code that is redeemed once, then  *)
(* pairs of an access and a refresh token, each made from the one before.  *)
(* Every operation is a mutation of the whole document under a file lock,  *)
(* so an action is one mutation; requests interleave between mutations,    *)
(* and the Admin process mutates the same document.  Most mutations begin  *)
(* by collecting what has expired, and those that end a family queue its   *)
(* Loxone token for remote revocation before the document is written.      *)
(*                                                                         *)
(* As in AuthCoordinator, an expiry is the time left until it.  Families   *)
(* and clients have random names that are not used again.                  *)
(***************************************************************************)
EXTENDS Integers, FiniteSets

CONSTANTS
  Families,      \* OAuth families
  Clients,       \* registered clients
  Explorers,     \* the clients that are Tool Explorers
  NoClient,
  Pairs,         \* bound: token pairs of a family, numbered from 1
  RefreshTTL,    \* life of a family, REFRESH_FAMILY_TTL
  ExplorerTTL,   \* ... of an Explorer, EXPLORER_REFRESH_FAMILY_TTL
  AccessTTL,     \* ACCESS_TOKEN_TTL
  CodeTTL,       \* AUTHORIZATION_CODE_TTL
  UnusedTTL,     \* _UNUSED_CLIENT_TTL
  ConsentTTL,    \* life of a sign-in transaction
  MaxActive,     \* _MAX_ACTIVE_FAMILIES
  MaxPerClient,  \* _MAX_FAMILIES_PER_CLIENT
  MaxFaults      \* bound on failed writes, failed callbacks and crashes

Max2(a, b) == IF a >= b THEN a ELSE b
Min2(a, b) == IF a <= b THEN a ELSE b

ASSUME Parameters ==
  /\ IsFiniteSet(Families)
  /\ Explorers \subseteq Clients
  /\ NoClient \notin Clients
  /\ Pairs \in Nat \ {0}
  /\ RefreshTTL \in Nat \ {0}
  /\ ExplorerTTL \in 1..RefreshTTL
  /\ AccessTTL \in Nat \ {0}
  /\ CodeTTL \in Nat \ {0}
  /\ UnusedTTL \in Nat \ {0}
  /\ ConsentTTL \in Nat \ {0}
  /\ MaxActive \in Nat
  /\ MaxPerClient \in Nat
  /\ MaxFaults \in Nat

VARIABLES
  doc,       \* the document: clients, families, codes, refresh and access tokens
  token,     \* family -> its Loxone token: "none", "stored", "queued"
  consent,   \* client -> time left of its sign-in transaction, 0 = none
  loaded,    \* refresh tokens that requests in flight have loaded
  todo,      \* families the Admin process has revoked and not yet queued
  faults,    \* faults so far
  answered,  \* refresh token -> new pairs handed out for it
  replayed,  \* refresh tokens an exchange met again after their rotation
  unsaved,   \* families whose end was announced and then not written
  unheard,   \* families whose end was written although announcing it failed
  orphaned   \* families whose token was stored and then never issued

ghosts == <<answered, replayed, unsaved, unheard, orphaned>>
vars == <<doc, token, consent, loaded, todo, faults, ghosts>>

NoCode == [st |-> "none", left |-> 0]
NoAccess == [st |-> "none", left |-> 0]
NoFamily == [st |-> "none", client |-> NoClient, left |-> 0]

Init ==
  /\ doc = [client  |-> [c \in Clients |-> [st |-> "new", left |-> 0]],
            family  |-> [f \in Families |-> NoFamily],
            code    |-> [f \in Families |-> NoCode],
            refresh |-> [f \in Families |-> [n \in 1..Pairs |-> "none"]],
            access  |-> [f \in Families |-> [n \in 1..Pairs |-> NoAccess]]]
  /\ token = [f \in Families |-> "none"]
  /\ consent = [c \in Clients |-> 0]
  /\ loaded = {}
  /\ todo = {}
  /\ faults = 0
  /\ answered = [f \in Families |-> [n \in 1..Pairs |-> 0]]
  /\ replayed = {}
  /\ unsaved = {}
  /\ unheard = {}
  /\ orphaned = {}

-------------------------------------------------------------------------------
(***************************************************************************)
(* Time.                                                                   *)
(***************************************************************************)

Less(t) == Max2(t - 1, 0)

DocLater(d) ==
  [client  |-> [c \in Clients |-> [d.client[c] EXCEPT !.left = Less(@)]],
   family  |-> [f \in Families |-> [d.family[f] EXCEPT !.left = Less(@)]],
   code    |-> [f \in Families |-> [d.code[f] EXCEPT !.left = Less(@)]],
   refresh |-> d.refresh,
   access  |-> [f \in Families |-> [n \in 1..Pairs |->
                  [d.access[f][n] EXCEPT !.left = Less(@)]]]]

Tick ==
  /\ doc' = DocLater(doc)
  /\ consent' = [c \in Clients |-> Less(consent[c])]
  /\ UNCHANGED <<token, loaded, todo, faults, ghosts>>

-------------------------------------------------------------------------------
(***************************************************************************)
(* The document.                                                           *)
(***************************************************************************)

Recorded(d, f) == d.family[f].st \in {"active", "revoked"}
Active(d)  == {f \in Families : d.family[f].st = "active"}
Expired(d) == {f \in Families : Recorded(d, f) /\ d.family[f].left = 0}

\* A client that some record of the document names.
Referenced(d, c) ==
  \E f \in Families :
    /\ d.family[f].client = c
    /\ \/ Recorded(d, f)
       \/ d.code[f].st # "none"
       \/ \E n \in 1..Pairs : d.refresh[f][n] # "none" \/ d.access[f][n].st # "none"

\* What _garbage_collect leaves of families, codes and tokens ...
Swept(d) ==
  LET ended == Expired(d)
  IN  [client |-> d.client,
       family |-> [f \in Families |->
         IF f \in ended THEN [d.family[f] EXCEPT !.st = "gone"]
         ELSE IF d.family[f].client \in Explorers
              THEN [d.family[f] EXCEPT !.left = Min2(@, ExplorerTTL)]
              ELSE d.family[f]],
       code |-> [f \in Families |->
         IF f \in ended \/ d.code[f].left = 0 THEN NoCode ELSE d.code[f]],
       refresh |-> [f \in Families |->
         IF f \in ended THEN [n \in 1..Pairs |-> "none"] ELSE d.refresh[f]],
       access |-> [f \in Families |-> [n \in 1..Pairs |->
         IF f \in ended \/ d.access[f][n].left = 0
         THEN NoAccess ELSE d.access[f][n]]]]

\* Mutant of Collected: only codes keep a client alive.
CollectedByCodes(d, keep) ==
  LET s == Swept(d)
  IN  [s EXCEPT !.client = [c \in Clients |->
        IF \/ \E f \in Families : s.family[f].client = c /\ s.code[f].st # "none"
           \/ c \in keep
           \/ @[c].left > 0
        THEN @[c]
        ELSE IF @[c].st = "on" THEN [@[c] EXCEPT !.st = "gone"] ELSE @[c]]]

\* ... and of clients, those in "keep" excepted.
Collected(d, keep) ==
  LET s == Swept(d)
  IN  [s EXCEPT !.client = [c \in Clients |->
        IF @[c].st # "on" \/ @[c].left > 0 \/ c \in keep \/ Referenced(s, c)
        THEN @[c]
        ELSE [@[c] EXCEPT !.st = "gone"]]]

Now == Collected(doc, {})

Dead(st) == IF st = "none" THEN st ELSE "revoked"

\* Mutant of Ended: the refresh tokens survive.
EndedAccessOnly(d, S) ==
  [d EXCEPT
    !.family = [f \in Families |->
      IF f \in S /\ @[f].st = "active" THEN [@[f] EXCEPT !.st = "revoked"] ELSE @[f]],
    !.access = [f \in Families |-> [n \in 1..Pairs |->
      IF f \in S THEN [@[f][n] EXCEPT !.st = Dead(@)] ELSE @[f][n]]]]

\* The families in S are revoked, and all their tokens: _revoke_family.
Ended(d, S) ==
  [client |-> d.client,
   family |-> [f \in Families |->
     IF f \in S /\ d.family[f].st = "active"
     THEN [d.family[f] EXCEPT !.st = "revoked"] ELSE d.family[f]],
   code |-> d.code,
   refresh |-> [f \in Families |-> [n \in 1..Pairs |->
     IF f \in S THEN Dead(d.refresh[f][n]) ELSE d.refresh[f][n]]],
   access |-> [f \in Families |-> [n \in 1..Pairs |->
     IF f \in S THEN [d.access[f][n] EXCEPT !.st = Dead(@)] ELSE d.access[f][n]]]]

\* The Admin process ends their codes too.
EndedByAdmin(d, S) ==
  [Ended(d, S) EXCEPT !.code = [f \in Families |->
    IF f \in S THEN [d.code[f] EXCEPT !.st = Dead(@)] ELSE d.code[f]]]

\* A new pair of tokens: _new_token_records.
WithPair(d, f, n) ==
  [client |-> d.client, family |-> d.family, code |-> d.code,
   refresh |-> [d.refresh EXCEPT ![f][n] = "active"],
   access |-> [d.access EXCEPT ![f][n] =
     [st |-> "active", left |-> Min2(AccessTTL, d.family[f].left)]]]

Valid(d, f) == d.family[f].st = "active" /\ d.family[f].left > 0

-------------------------------------------------------------------------------
(***************************************************************************)
(* One mutation.                                                           *)
(***************************************************************************)

\* Mutant of Queue: a family that was revoked before is passed over.
QueueActive(S) ==
  [f \in Families |->
    IF f \in S /\ doc.family[f].st = "active" /\ token[f] = "stored"
    THEN "queued" ELSE token[f]]

\* on_family_ended: the token of each family in S is queued.
Queue(S) ==
  [f \in Families |-> IF f \in S /\ token[f] = "stored" THEN "queued" ELSE token[f]]

\* The document becomes d; while that is prepared, the end of the families in S
\* is announced.  Either may fail: an announcement is logged and forgotten, a
\* write leaves the old document and fails the request.  A write that takes effect and
\* still reports an error (the directory is not synced) is a saved one here: an answer that
\* it costs the caller counts as given, which only demands more of what follows.
Mutation(d, S) ==
  \E saved, heard \in BOOLEAN :
    /\ (saved /\ heard) \/ faults < MaxFaults
    /\ faults' = IF saved /\ heard THEN faults ELSE faults + 1
    /\ doc' = IF saved THEN d ELSE doc
    /\ token' = IF heard THEN Queue(S) ELSE token
    /\ unsaved' = IF heard /\ ~ saved THEN unsaved \cup S ELSE unsaved
    /\ unheard' = IF saved /\ ~ heard THEN unheard \cup S ELSE unheard

\* An operation that raises: the document is not written, what was collected is
\* announced all the same.
Raises ==
  /\ token' = Queue(Expired(doc))
  /\ UNCHANGED <<doc, faults, unsaved, unheard>>

\* A mutation that only collects: get_client, start-up, and load_access_token before what
\* may take long.  The check of a tool call's token (load_access_token_readonly) does not.
Collect ==
  /\ Mutation(Now, Expired(doc))
  /\ UNCHANGED <<consent, loaded, todo, answered, replayed, orphaned>>

Register(c) ==
  /\ doc.client[c].st = "new"
  /\ Mutation([Now EXCEPT !.client[c] = [st |-> "on", left |-> UnusedTTL]], Expired(doc))
  /\ UNCHANGED <<consent, loaded, todo, answered, replayed, orphaned>>

-------------------------------------------------------------------------------
(***************************************************************************)
(* Authorization.                                                          *)
(***************************************************************************)

\* The sign-in page opens for a client it looked up.
Authorize(c) ==
  /\ consent[c] = 0
  /\ Now.client[c].st = "on"
  /\ Mutation(Now, Expired(doc))
  /\ consent' = IF doc' = Now THEN [consent EXCEPT ![c] = ConsentTTL] ELSE consent
  /\ UNCHANGED <<loaded, todo, answered, replayed, orphaned>>

Admits(d, c) ==
  /\ d.client[c].st = "on"
  /\ Cardinality(Active(d)) < MaxActive
  /\ Cardinality({f \in Active(d) : d.family[f].client = c}) < MaxPerClient

TTL(c) == IF c \in Explorers THEN ExplorerTTL ELSE RefreshTTL

WithFamily(d, f, c) ==
  [client |-> d.client,
   family |-> [d.family EXCEPT ![f] = [st |-> "active", client |-> c, left |-> TTL(c)]],
   code |-> [d.code EXCEPT ![f] = [st |-> "active", left |-> CodeTTL]],
   refresh |-> d.refresh, access |-> d.access]

\* The user approves: the Loxone token is stored under a new family id, then
\* the code is issued.
Approve(c, f) ==
  LET d == Collected(doc, {c})
  IN  /\ consent[c] > 0
      /\ doc.family[f].st = "none"
      /\ token[f] = "none"
      /\ f \notin orphaned
      /\ Admits(d, c)
      /\ doc' = WithFamily(d, f, c)
      /\ token' = [Queue(Expired(doc)) EXCEPT ![f] = "stored"]
      /\ consent' = [consent EXCEPT ![c] = 0]
      /\ UNCHANGED <<loaded, todo, faults, ghosts>>

\* No capacity, or the client is gone: the stored token is deleted again and the
\* transaction returns to its consent page.
ApproveRefused(c) ==
  /\ consent[c] > 0
  /\ ~ Admits(Collected(doc, {c}), c)
  /\ Raises
  /\ UNCHANGED <<consent, loaded, todo, answered, replayed, orphaned>>

\* The token is stored, and then the service dies, or the document cannot be
\* written, or the store had reported an error: the family is never recorded.
ApproveInterrupted(c, f) ==
  /\ consent[c] > 0
  /\ doc.family[f].st = "none"
  /\ token[f] = "none"
  /\ f \notin orphaned
  /\ faults < MaxFaults
  /\ faults' = faults + 1
  /\ token' = [token EXCEPT ![f] = "stored"]
  /\ orphaned' = orphaned \cup {f}
  /\ consent' \in {consent, [consent EXCEPT ![c] = 0]}
  /\ UNCHANGED <<doc, loaded, todo, answered, replayed, unsaved, unheard>>

Redeemable(d, f) == d.code[f].st = "active" /\ Valid(d, f)

\* Mutant of Redeem: the code is not consumed.
RedeemAgain(f) ==
  /\ Redeemable(Now, f)
  /\ \E n \in 1..Pairs :
       /\ \A k \in n..Pairs : doc.refresh[f][k] = "none"
       /\ n > 1 => doc.refresh[f][n - 1] # "none"
       /\ Mutation(WithPair(Now, f, n), Expired(doc))
  /\ UNCHANGED <<consent, loaded, todo, answered, replayed, orphaned>>

\* exchange_authorization_code
Redeem(f) ==
  /\ Redeemable(Now, f)
  /\ Mutation(WithPair([Now EXCEPT !.code[f].st = "consumed"], f, 1), Expired(doc))
  /\ UNCHANGED <<consent, loaded, todo, answered, replayed, orphaned>>

\* The code was redeemed, ended or collected after this request had loaded it.
RedeemRefused(f) ==
  /\ doc.family[f].st # "none"
  /\ ~ Redeemable(Now, f)
  /\ Raises
  /\ UNCHANGED <<consent, loaded, todo, answered, replayed, orphaned>>

-------------------------------------------------------------------------------
(***************************************************************************)
(* Rotation of refresh tokens: two mutations of one request, which the     *)
(* service makes without a pause and the model does not.  A client may     *)
(* present the same token again, at once or after a restart.               *)
(***************************************************************************)

\* load_refresh_token: a token that was exchanged before ends its family.
LoadRefresh(f, n) ==
  LET st == Now.refresh[f][n]
  IN  /\ doc.refresh[f][n] # "none"
      /\ IF st = "consumed"
         THEN Mutation(Ended(Now, {f}), Expired(doc) \cup {f})
         ELSE Mutation(Now, Expired(doc))
      /\ loaded' = IF st = "active" /\ Valid(Now, f) /\ doc' = Now
                   THEN loaded \cup {<<f, n>>} ELSE loaded
      /\ UNCHANGED <<consent, todo, answered, replayed, orphaned>>

\* exchange_refresh_token of a token that is still the newest.
Rotate(f, n) ==
  LET d == [Now EXCEPT !.refresh[f][n] = "consumed"]
  IN  /\ <<f, n>> \in loaded
      /\ Now.refresh[f][n] = "active"
      /\ Valid(Now, f)
      /\ n < Pairs
      /\ Mutation(WithPair(d, f, n + 1), Expired(doc))
      /\ answered' = IF doc' = WithPair(d, f, n + 1)
                     THEN [answered EXCEPT ![f][n] = @ + 1] ELSE answered
      /\ UNCHANGED <<consent, loaded, todo, replayed, orphaned>>

\* Mutant of RotateAgain: a token that came too late is refused, nothing more.
RotateAgainRefused(f, n) ==
  /\ <<f, n>> \in loaded
  /\ Now.refresh[f][n] \in {"consumed", "revoked"}
  /\ Mutation(Now, Expired(doc))
  /\ replayed' = IF doc' = Now /\ Now.refresh[f][n] = "consumed"
                 THEN replayed \cup {<<f, n>>} ELSE replayed
  /\ UNCHANGED <<consent, loaded, todo, answered, orphaned>>

\* The token was exchanged or ended since this request had loaded it: the
\* whole family ends.
RotateAgain(f, n) ==
  /\ <<f, n>> \in loaded
  /\ Now.refresh[f][n] \in {"consumed", "revoked"}
  /\ Mutation(Ended(Now, {f}), Expired(doc) \cup {f})
  /\ replayed' = IF doc' = Ended(Now, {f}) /\ Now.refresh[f][n] = "consumed"
                 THEN replayed \cup {<<f, n>>} ELSE replayed
  /\ UNCHANGED <<consent, loaded, todo, answered, orphaned>>

\* The last request that had loaded the token is finished or cancelled.
Leave(f, n) ==
  /\ <<f, n>> \in loaded
  /\ loaded' = loaded \ {<<f, n>>}
  /\ UNCHANGED <<doc, token, consent, todo, faults, ghosts>>

-------------------------------------------------------------------------------
(***************************************************************************)
(* Revocation.                                                             *)
(***************************************************************************)

\* revoke_token, revoke_raw_token: by any token of the family, of any age.
Revoke(f) ==
  /\ \E n \in 1..Pairs : doc.refresh[f][n] # "none" \/ doc.access[f][n].st # "none"
  /\ Mutation(Ended(doc, {f}), {f})
  /\ UNCHANGED <<consent, loaded, todo, answered, replayed, orphaned>>

\* Mutant of AdminRevoke: the tokens are queued first.
AdminRevokeQueuesFirst(S) ==
  /\ S # {}
  /\ \A f \in S : Recorded(doc, f)
  /\ token' = Queue(S)
  /\ doc' \in {doc, EndedByAdmin(doc, S)}
  /\ UNCHANGED <<consent, loaded, todo, faults, ghosts>>

\* The Admin process ends one session or several: it writes the document and
\* queues the tokens afterwards, one by one.
AdminRevoke(S) ==
  /\ S # {}
  /\ \A f \in S : Recorded(doc, f)
  /\ doc' = EndedByAdmin(doc, S)
  /\ todo' = todo \cup S
  /\ UNCHANGED <<token, consent, loaded, faults, ghosts>>

AdminQueue(f) ==
  /\ f \in todo
  /\ token' = Queue({f})
  /\ todo' = todo \ {f}
  /\ UNCHANGED <<doc, consent, loaded, faults, ghosts>>

\* The token store fails for some of them, or the Admin process dies.
AdminQueueFails(S) ==
  /\ S # {}
  /\ S \subseteq todo
  /\ faults < MaxFaults
  /\ faults' = faults + 1
  /\ todo' = todo \ S
  /\ UNCHANGED <<doc, token, consent, loaded, ghosts>>

\* The remote-revocation worker is done with a queued token.
Settle(f) ==
  /\ token[f] = "queued"
  /\ token' = [token EXCEPT ![f] = "none"]
  /\ UNCHANGED <<doc, consent, loaded, todo, faults, ghosts>>

\* The service stops and starts: transactions and requests are lost.
Restart ==
  /\ faults < MaxFaults
  /\ faults' = faults + 1
  /\ consent' = [c \in Clients |-> 0]
  /\ loaded' = {}
  /\ UNCHANGED <<doc, token, todo, ghosts>>

Next ==
  \/ Tick
  \/ Collect
  \/ Restart
  \/ \E c \in Clients :
       \/ Register(c)
       \/ Authorize(c)
       \/ ApproveRefused(c)
       \/ \E f \in Families : Approve(c, f) \/ ApproveInterrupted(c, f)
  \/ \E f \in Families :
       \/ Redeem(f)
       \/ RedeemRefused(f)
       \/ Revoke(f)
       \/ AdminQueue(f)
       \/ Settle(f)
       \/ \E n \in 1..Pairs :
            LoadRefresh(f, n) \/ Rotate(f, n) \/ RotateAgain(f, n) \/ Leave(f, n)

  \/ \E S \in SUBSET Families : AdminRevoke(S) \/ AdminQueueFails(S)

Spec == Init /\ [][Next]_vars

\* Time passes, and some client comes back now and then to authorize, to redeem or to
\* refresh: each of these begins by looking the client up, which collects.
Fairness == WF_vars(Tick) /\ WF_vars(Collect)

FairSpec == Spec /\ Fairness

-------------------------------------------------------------------------------
(***************************************************************************)
(* Properties.                                                             *)
(***************************************************************************)

Statuses == {"none", "active", "consumed", "revoked"}

ClientRecords  == [Clients -> [st : {"new", "on", "gone"}, left : 0..UnusedTTL]]
FamilyRecords  == [Families -> [st : {"none", "active", "revoked", "gone"},
                                client : Clients \cup {NoClient},
                                left : 0..RefreshTTL]]
CodeRecords    == [Families -> [st : Statuses, left : 0..CodeTTL]]
RefreshRecords == [Families -> [1..Pairs -> Statuses]]
AccessRecord   == [st : {"none", "active", "revoked"}, left : 0..AccessTTL]
AccessRecords  == [Families -> [1..Pairs -> AccessRecord]]

Document ==
  [client : ClientRecords, family : FamilyRecords, code : CodeRecords,
   refresh : RefreshRecords, access : AccessRecords]

\* Types.
TypeOK ==
  /\ doc \in Document
  /\ token \in [Families -> {"none", "stored", "queued"}]
  /\ consent \in [Clients -> 0..ConsentTTL]
  /\ loaded \subseteq Families \X (1..Pairs)
  /\ todo \subseteq Families
  /\ faults \in 0..MaxFaults
  /\ answered \in [Families -> [1..Pairs -> Nat]]
  /\ replayed \subseteq Families \X (1..Pairs)
  /\ unsaved \subseteq Families
  /\ unheard \subseteq Families
  /\ orphaned \subseteq Families

\* However many requests redeem the code or present a refresh token at once, a
\* family has one refresh token in force, none before its code is redeemed, and
\* no refresh token is ever answered with two pairs (the consumed marks of
\* exchange_authorization_code and exchange_refresh_token).
OneSuccessor ==
  \A f \in Families :
    /\ \A m, n \in 1..Pairs :
         doc.refresh[f][m] = "active" /\ doc.refresh[f][n] = "active" => m = n
    /\ doc.code[f].st = "active" => \A n \in 1..Pairs : doc.refresh[f][n] = "none"
    /\ \A n \in 1..Pairs : answered[f][n] <= 1

\* Once a family is revoked, by whom and at what moment of a running rotation
\* ever, none of its tokens is in force (_revoke_family, _revoke_many).
RevokedMeansDead ==
  \A f \in Families :
    doc.family[f].st \in {"revoked", "gone"} =>
      \A n \in 1..Pairs : doc.refresh[f][n] # "active" /\ doc.access[f][n].st # "active"

\* Two holders of one refresh token cannot both go on: when an exchange meets a
\* token that was rotated before, the family is over (reason "refresh_reuse").
ReplayEndsFamily ==
  \A f \in Families, n \in 1..Pairs :
    <<f, n>> \in replayed => doc.family[f].st \in {"revoked", "gone"}

\* A revoked or collected family never comes back.
EndIsFinal ==
  [][\A f \in Families :
       /\ doc.family[f].st = "revoked" => doc'.family[f].st \in {"revoked", "gone"}
       /\ doc.family[f].st = "gone" => doc'.family[f].st = "gone"]_vars

\* A client with a living grant stays registered, so that its refresh tokens
\* remain usable (the references _garbage_collect counts).
GrantKeepsClient ==
  \A f \in Active(doc) : doc.family[f].left > 0 => doc.client[doc.family[f].client].st = "on"

\* Nobody queues the Loxone token of a living grant for revocation; only a write
\* that fails after the announcement does (the order of announcement and write
\* in _revoke_family, of write and queueing in the Admin process).
LiveGrantKeepsToken ==
  \A f \in Families :
    Valid(doc, f) /\ f \notin unsaved => token[f] = "stored"

\* No Loxone token is left behind: a stored token belongs to a recorded family,
\* whose end will queue it, unless the sign-in was interrupted between the two
\* stores or the announcement of an expiry failed.
NoTokenLeftBehind ==
  \A f \in Families :
    token[f] = "stored" /\ f \notin orphaned \cup unheard => Recorded(doc, f)

\* Sooner or later the service gives back every Loxone token it stored, whatever
\* the client does: it queues it when the family ends, unless the sign-in was
\* interrupted or the announcement of the end failed.
TokenIsReturned ==
  \A f \in Families :
    token[f] = "stored" /\ f \notin orphaned ~> token[f] # "stored" \/ f \in unheard

\* "A client becomes durable once it is referenced by an authorization flow"
\* (provider.py:59): a sign-in that was opened can be completed.
FlowKeepsClient == \A c \in Clients : consent[c] > 0 => doc.client[c].st = "on"
===============================================================================
