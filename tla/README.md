# Verification of the LoxBerry MCP server

TLA+ models of the stateful core of the server under `src/src/mcpserver/`, the
TLC configurations that check them on small instances, and theorems about them
that TLAPS checks for every value of the constants. Paths below are relative to
`src/src/mcpserver/` unless they start with `docs/`.

## 1. The system

The plugin is an asyncio service. It is an OAuth 2.1 authorization server and an
MCP resource server in one: an MCP client registers, its user signs in with a
Loxone account, and the service keeps the Loxone token it got in return, under
the OAuth *family* of that sign-in, to talk to the Miniserver on the client's
behalf. A second kind of process, the Admin CGI, works on the same files.

| Component | State | Operations | What makes it correct |
| --- | --- | --- | --- |
| OAuth provider, grant store (`auth/provider.py`, `auth/store.py`) | one JSON document under a file lock: clients, families, codes, access and refresh tokens | register, issue, redeem, rotate, revoke, collect | one successor per refresh token; reuse ends the family; an ended family is dead and stays dead; a client with a living grant is kept |
| Sign-in pages (`auth/web.py`) | login transactions in memory, each with a Loxone token | authorize, log in, approve, deny, prune | five attempts, five minutes; a token has an owner who can store or queue it: a call, a transaction, the store or the revocation queue |
| Token store (`auth/loxone_store.py`) | encrypted records by family, queue markers, attempt counts, tombstones | put, schedule, reserve, mark, complete | a queued token is not forgotten, attempts are counted before they are sent |
| Remote revocation (`auth/remote_revocation.py`) | status sidecar: cooldown, rejection streak, totals, receipts | one pass of the worker over the queue | each outcome counted once, cooldown honoured across restarts |
| Authentication coordinator (`loxone/auth_diagnostics.py`) | one JSON file shared by all processes: breaker, two failure guards | attempt, observe a block, early probe | after a source-IP block or three rejections no login is sent before the delay is over |
| Runtime (`loxone/runtime.py`) | one connection per family, admission lock, refresh tasks | connect, refresh, disconnect, revoke, prune | no connection outlives its grant; a refreshed token is not lost |
| State cache (`loxone/cache.py`) | values per identity and family, byte counters, two eviction orders | ingest, identify, remove | counters are the sums they stand for, shares are kept, one identity does not push out another |
| Project service (`loxone/project/service.py`) | one slot, cached snapshots shared by content, markers | load, cancel, invalidate, revoke, close | a family sees only what its own token downloaded; nothing of an ended family comes back |
| Message confirmation and approval (`message_confirmation.py`, `message_approval.py`) | tickets in memory, approvals in a file, claims on targets | preview, stage, approve, confirm, dispatch | one approval is one command; no command for a message that was tried since the preview |
| KNX corrections (`knx/correction_drafts.py`, `knx/correction_apply.py`) | drafts, catalog overrides, labels, receipts | create, accept, edit, archive, replan, apply | what is written is what was accepted as shown, and once |
| Event history (`loxone/event_history.py`) | SQLite events and capture intervals, a recorder task | subscribe, record, disconnect, prune, evict, clear | an interval claims nothing the recorder has not captured |
| Explorer approvals (`explorer_bindings.py`, its callers in `server.py`, `auth/provider.py`, `admin.py`) | approvals in the configuration file, Explorer families in the grant store | allow, remove, sign in, collect, maintain | an approval in use stays, one that ran out or was removed does not come back |
| Retrospective shift of loads (`history_analysis.py`, `load_cycles.py`, `retrospective_shift.py`, `history_comparison.py`) | one request's candidates and what is left of the export | reconstruct, describe, select | what is moved was really run; what is chosen is possible together |
| Emergency stop (`emergency_stop.py`, middleware in `server.py`) | what one signal of the Miniserver was heard to say, a connection of its own | subscribe, hear, fail, ask before a tool call | a call is let in only on a value heard over the present subscription |
| MQTT health (`mqtt_health.py`) | three clients with their network threads, retained topics at the broker | connect, publish, shut down | no topic goes on saying that a stopped service runs |
| Admin discovery (`service_discovery.py`, its route in `server.py`) | one kept connection with its receiver, a lock, a disposal task | ask, answer, cancel, drop, expire, close | an answer is that of the request, new, of the right identity; no connection is lost |
| Installation profile, configuration | versioned files | read, write | optimistic writes do not overwrite each other |
| Solar recording, weather | SQLite series, downloads | record, query | gaps stay gaps |

How they interact. The sign-in page logs in through the coordinator, stores the
token in the token store and issues the code at the provider. The provider
announces the end of a family, which queues its token and disconnects the
runtime. The runtime refreshes tokens through the coordinator and writes them
back to the token store. The revocation worker takes queued tokens, asks the
coordinator for admission and has the Miniserver kill them. Admin revocation
writes the grant store and the queue itself, in another process. Connections of
the runtime fill the state cache and feed the event recorder; the project service
and message confirmation use the family's own token through it.

What is hard. Tasks of the service interleave at every `await`, Admin processes
at every file access; a process may die between two files that belong together;
a write may fail, or report a failure after it took effect (`os.replace`
succeeded, the directory sync did not); the Miniserver may act and its answer be
lost; state is read before an `await` and used after it. `PROJECT.json` lists
these hazards with their lines.

## 2. Modules

| Module | Models | Role |
| --- | --- | --- |
| `RevocationLedger` | what remote revocation promises | abstract: settling a queued token is one step that issues a receipt and counts one outcome |
| `RemoteRevocation` | `auth/remote_revocation.py`, the records of `auth/loxone_store.py`, and their other writers in `web.py`, `runtime.py`, `server.py`, `admin.py` | detailed; implements `RevocationLedger` |
| `RemoteRevocationProofs` | | theorems, the refinement among them |
| `AuthCoordinator` | `loxone/auth_diagnostics.py`, its callers in `loxone/service_access.py` | state machine |
| `AuthCoordinatorProofs` | | theorems |
| `OAuthProvider` | `auth/provider.py`, `auth/store.py`, approval in `auth/web.py`, `_revoke_many` in `admin.py` | state machine |
| `OAuthProviderProofs` | | theorems |
| `LoxoneRuntime` | connections in `loxone/runtime.py` and `loxone/events.py`, shutdown in `server.py` | state machine, fair |
| `LoxoneRuntimeProofs` | | theorems |
| `StateCache` | `loxone/cache.py` | state machine |
| `ProjectService` | `loxone/project/service.py` | state machine |
| `MessageConfirmation` | `message_confirmation.py`, `message_approval.py` | state machine |
| `LoginTransaction` | `authorize` and its helpers in `auth/web.py` | state machine |
| `KnxCorrections` | `knx/correction_drafts.py`, `knx/correction_apply.py`, receipts of labels and catalog | state machine |
| `EventHistory` | the recorder and the store of `loxone/event_history.py` | state machine |
| `ExplorerBindings` | `explorer_bindings.py`, with the writers of its two files in `server.py`, `auth/provider.py`, `admin.py` | state machine |
| `LoadShift` | captured phases to chosen shifts: `reconstruct_segments`, `describe_load_cycles`, `observed_candidates`, `allocate_candidates` | algorithm over every observation |
| `EmergencyStop` | `EmergencyStopMonitor` in `emergency_stop.py`, `_EmergencyStopMiddleware` in `server.py` | state machine |
| `MqttHealth` | `MqttHealthPublisher` in `mqtt_health.py`, with broker and client library | state machine |
| `AdminDiscovery` | `AdminDiscovery` and `DiscoveryReceiver` in `service_discovery.py`, the route in `server.py`, the display cache of the CGI | state machine |
| `MCRemoteRevocation`, `MCAuthCoordinator`, `MCOAuthProvider`, `MCLoxoneRuntime`, `MCEventHistory` | | model values, small delay tables, symmetry |
| `Sums` | `sum()` and counting loops | the sum of a sequence, the weight of a set; used by `StateCache` and `LoadShift` |
| `MCData` | | constants and instances of `StateCache` and `LoadShift` |
| `MCParts` | extends `MCData`: `StateCache`, `ProjectService`, `MessageConfirmation`, `LoginTransaction`, `KnxCorrections`, `EventHistory`, `ExplorerBindings`, `LoadShift`, `EmergencyStop`, `MqttHealth`, `AdminDiscovery` | one instance of each for TLC |
| `PartsDataProofs` | | lemmas about sums, `LoadShift` and `StateCache`, stated of `MCData` |
| `PartsProofs`, `PartsFamilyProofs`, `PartsDiscoveryProofs` | | theorems about ten components, stated of their instances in `MCParts` |

### RemoteRevocation

An action is one durable write or one await. `store` and `status` are the two
files. `pc`, `item`, `outcome`, `start` and `value` are the local variables of
`process_remote_revocations_once`: what it has read and not yet used. `family`,
`held`, `refreshing` stand for the writers around it. `fresh`, `killed` and
`tries` are the Miniserver's side. `coolUntil` and `clobbered` are history
variables the code does not have. `Abort` ends a pass by an exception, `Restart`
ends the service; both may come at any await or file access.

A pass of the code takes `pending[0]` of a sorted list; the model takes any due
record, which includes that choice. Left out: tombstones and `last_failure`,
which are only displayed; corrupt files; Explorer sessions; `defer_remote_revoke`,
which nothing calls; the `ValueError` of a breaker retry time more than a day
ahead (a hazard with a note).

### AuthCoordinator

`disk` is the shared file, `mem` the copy each coordinator has, `retain` the
coordinators whose save failed and that keep their copy. One attempt holds the
interprocess lock from reload to outcome (`pc`, `by`, `caller`, `age`). A
timestamp of the code is the time left until it, and `Tick` counts all of them
down. `owed` is a history variable: the waits that the Miniserver's answers call
for, whatever the file says. A property compares what is sent with what is owed.
Left out: display events, counters, denials that change nothing, and `force_probe`,
which no caller sets.

### OAuthProvider

`doc` is the document, and an action is one mutation of it (`store.mutate`),
including the garbage collection that runs first in `_mutate_with_cleanup`.
`Mutation` describes the two things that may fail in one: the write, which
leaves the old document, and the announcement of an ended family, which is
logged and forgotten. `token` is where the Loxone token of a family is: not
there, stored, or queued. `todo` holds the families the Admin process has
written as revoked and not queued yet. `loaded` holds the refresh tokens that
some request has loaded and not yet exchanged; it is a set, because requests
with the same token are alike, and a request may repeat its exchange. The service
loads and exchanges without an await between (`auth/web.py:1294`), and only the Admin
process can come between its two mutations; the model lets any request in there, which
includes what the code does. Any holder may present any token at any time, one whose
answer was lost included. A write that takes effect and still reports an error is a
saved one here: what it costs is an answer, and `answered` counts that as given. The
check of a tool call's token (`load_access_token_readonly`) collects nothing. `answered`, `replayed`, `unsaved`, `unheard`, `orphaned` are history
variables.

Left out: scopes and pending approvals, redirect and challenge checks, the limit
of 256 registered clients (clients are a fixed set here), `revoke_scope_locally`
(no caller), lifecycle events. The transaction's own life is `LoginTransaction`.
The worker is `Settle`: RemoteRevocation says what happens in it, and that a
refresh put may take a queued token out of the queue again.

### LoxoneRuntime

The code between two awaits is an action; `pc` says at which await a request is.
`admission` and `lock` are the asyncio locks with their holders, `records` the
`_records` map, `conn` the session and its `_maintain` task, `cut` the
connection that the holder of a family's lock has cancelled and waits for.
`notice` is the task a family's end starts, `closing` the `close` call. `cache`
says of a family's values whether they are there and current. The network and the
coordinator are answers that come, fail or time out. Which idle connection is
evicted is left open, which includes the choice of the code. Left out: commands
and downloads on a live connection, endpoint selection, diagnostics.

### StateCache

An action is one call, because every call is synchronous. `store` is the cache's
fields: values in order, sizes, identity of each subject, subjects and entries of
each identity, and the three counters, changed where the code changes them.
Freshness is in `LoxoneRuntime`.

### ProjectService

`load` is where each `load_snapshot` is and what it has read and not yet used;
`slot` is the lock. `entry`, `order`, `known`, `content` and `view` are the maps
of the cache. The Miniserver changes its project (`marker`, `served`) and a
family's access at any time, so the second look at the marker matters. The parser
process is an answer that comes or fails.

### MessageConfirmation

`ticket` follows a preview from its call over the ticket in memory to the call
that uses it; `approval` is the file shared with the Admin process, `claim` and
`inflight` the marks on a target. `attempts` and `shown` are history variables:
what was sent and what the administrator has seen. `Restart` forgets tickets and
claims and keeps the file, as the code does. A preview that is refused prunes what a
preview that is made prunes. The limit on all previews together is not a bound of its
own; reaching it looks like a file that cannot be written.

### LoginTransaction

`login` is the transaction, `call` a posted form, `records` and `queued` the
token store, `granted` the grants of the provider. Each write succeeds, fails, or
fails after it took effect. Locks are held only over the Miniserver's answer. `known`
says that the transaction has names for its user (`miniserver_id`, `identity_id`), which
are derived from a secret in the auth document, so that naming may fail too.

That the Miniserver issues a token (`Issue`), that `acquire_token` returns it
(`Answered`), and that the transaction takes it over are three steps. `lost` names the
tokens that the code lets go, and where `TokenHasOwner` makes its exceptions:

- `Restart`: the token was in memory only.
- `AnswerLost`: the answer is lost, late or not understood, or the call is cancelled
  while `acquire_token` closes its websocket (`loxone/client.py:622`). `web.py` finds no
  token and goes on as after any failure.
- `NamingFails`: after a successful sign-in the auth document cannot be read
  (`auth/web.py:1211`). The exception comes before the transaction has the token.
- `RetainBreaks`: the same when a token is to be kept after a failure
  (`auth/web.py:319`). The transaction has the token, but without names it can never queue
  it, and every sweep tries in vain.

The last one disagrees with `docs/user/troubleshooting.en.md:131`, "Tokens already issued
when sign-in completion is suppressed are encrypted for coordinated revocation. If that
write also fails, the transaction retains the token and blocks new issuance until cleanup
is queued": the transaction does block new issuance, but no clean-up comes.

### KnxCorrections

An action is one transaction of SQLite or one replaced file, under the lock of the
configuration. `field` and `catalog` are the data, `draft` the drafts, `receipt`
the receipts in their two storages. `agreed`, `quiet` and `wrote` are history
variables: what the user has accepted with the value shown, for how long a
receipt promises an answer, and what was written.

### EventHistory

`recorder` is the task, `store` the database: events, capture intervals and
totals. A write is carried out in a thread that a cancelled task leaves behind;
`left` holds those writes, and they may land at any later time. `seen` is a
history variable: for each time and source, what the recorder was told, or `lost`
(a change that could not be stored) or `over` (the capture's end was not written
yet), or that it was not capturing. Time goes in steps of two, so that the
retention limit and the instant after an evicted event lie between two events.

### ExplorerBindings

`binding` is the configuration file, `family` the Explorer's families in the grant
store. `service` is the one thing the event loop is doing (synchronous code, but it
reads and writes two files with a lock each) and `admin` the Admin process between
its reads and writes. A write of the grant store collects expired families and
reports their ends afterwards, one transaction of the configuration each, which may
fail and is then only logged. `inactive` is `inactive_since`, with 0 for none;
`until` is `last_active_until`. `allowed`, `crossed` and `recorded` are history
variables: what the administrator has given and not taken, what was removed while
the service was between finding and recording it, and the families an approval was
recorded for. `GivenByAdmin` makes an exception for `crossed`, for there the code
does bring a removed approval back: the families it belongs to are revoked right
after, but the approval itself stays until it is removed again. One capability stands
for the five; legacy bindings, the limit of 64 approvals and a changed Miniserver
address (KNX capabilities only) are left out.

### LoadShift

The recorder (`Observe`, external) adds one hour after another: on, off, unknown, or
the first of a new capture. `Analyse` is the analysis up to the candidates,
`Select` one turn of the greedy loop over the shared export, `Finish` its end. The
unit is an hour; cycles, pauses and measured energy lie on whole hours, as the code
requires of the cycles it uses. The properties do not speak of segments and
candidates but of the observed hours: what a reader of the result would check it
against. Left out: calendars (a window and the latest completion are a set of
starting hours), the deadline, input validation, cycles of more than a day.

### EmergencyStop

`stage` is the await at which `_run` is, `session` its connection as the Miniserver
knows it: `lost` is a connection that is gone without the client knowing, which may
stay so until two idle times have passed. `wire` holds the values on their way,
`status` what the middleware asks for, `heard` (history) the value it rests on.
`Fail` is every exception, at any await. A request is asked about once, when it
arrives: calls that were let in go on when the signal changes, and a loss nobody
has noticed blocks nothing yet. The property says no more than that.

### MqttHealth

The event loop (`service`, `turn`) and the network threads of the clients
(`thread`) interleave at every publication. `library` is the client's knowledge of
its connection and `session` the broker's: they may disagree, and a session the
broker finds dead ends with the last will (`Will`). `connected` is
`_connected_clients`, which a refused connection enters too. Of the values only
three kinds remain: of a running service (`live`), of a stopping one (`final`) and
`unknown`. `StopIsTold` makes an exception for `overlap`: a connect callback that runs
while the service stops publishes for all clients (`_publish_startup_state`), may put
`active` behind the `inactive` of the shutdown, and the clean disconnect leaves it
there, although `docs/user/configuration.en.md:124` says "A controlled stop publishes
`inactive` and `dead`". Without the exception TLC finds that execution. What remains of
the property is the order of publications, wills and disconnects in `close`. Left out:
a library call that raises, either while the clients are made (`mqtt_health.py:379`:
those already started are closed) or in the shutdown (line 557: the rest goes
unpublished). Both leave retained what was published last.

### AdminDiscovery

`request` says at which await the request of a helper is, what identity it was made
for, and what it was given; `lock`, `held`, `pending` and `disposal` are the fields
of `AdminDiscovery` and of its receiver. `asked` and `wire` are the commands and
answers on the connection, which say nothing of who asked. A request may fail or be
cancelled at any await, also while it drops the connection, and once more after that;
the configured identity and the structure change at any time. A structure is its version.
`stored` is what the CGI keeps for the display. Left out: source-IP blocks
(`AuthCoordinator`), limits on frames, the projections.

### MCParts

Eleven components share no state with one another in the code. `part` is chosen in
the initial state and that component runs alone. The state space is the sum of the
eleven, not the product, and every property is about one `part`. Nothing is composed
here. To keep the states small the eleven instances also use the same variables
(`x1`, `x2`, ...), each for what its `INSTANCE` says; variables one does not have are off.

## 3. Runs

| Run | Bounds | Shows |
| --- | --- | --- |
| `revocation_safety` | 2 families, 2 tokens, 2 attempts, clock 0..2, 1 fault, fair | attempts are counted before they are sent; the cooldown of the last attempt holds across restarts; `confirmed_killed` is true; the two files implement the ledger; every queued token leaves the queue |
| `auth_waits` | 2 coordinators, 2 back-off and 2 guard levels, a pause after one rejection | a source-IP block is waited out, and a pause by everyone who checks the guard, crashes and failed saves included; early probes keep their distance; the running attempt owns the file; the sign-in page never spends the budget of the service |
| `oauth_rotation` | 1 family, 3 pairs, 2 faults, fair | `OneSuccessor`, `RevokedMeansDead`, `ReplayEndsFamily`, `GrantKeepsClient`, `LiveGrantKeepsToken`, `NoTokenLeftBehind`; a stored Loxone token is queued in the end, whatever the client does |
| `runtime_connections` | 2 families, 2 requests, room for 1 connection, fair | capacity holds while families are admitted and evicted at once; no session, task or cached value outlives those responsible for it; nothing is left of an ended family, or after close; nobody waits for ever |
| `parts` | see below | `BudgetKept`, `SharesProtected` (StateCache), `ResultIsOwn`, `NothingComesBack` (ProjectService), `NoSecondAttempt`, `ApprovedOnce` (MessageConfirmation), `TokenHasOwner` (LoginTransaction), `AppliedAsAgreed` (KnxCorrections), `PhasesAreTrue` (EventHistory), `UseKeepsApproval`, `GivenByAdmin` (ExplorerBindings), `CyclesWereRun`, `PlanIsPossible` (LoadShift), `StopHonoured` (EmergencyStop), `StopIsTold` (MqttHealth), `AnswerIsOwn` (AdminDiscovery) |
| `marker_lost`, `budget_reset`, `auth_stale_copy`, `oauth_consent`, `runtime_renewal`, `history_loss`, `explorer_end` | as small | the findings of Section 6 |

Passing runs check deadlock freedom too, except where the system really may stop:
in `runtime_connections` each request, revoke task and close is made once
(`EverythingEnds` says that they end, and in which state), and in `parts` the
calls, previews, drafts, hours and the clock are used up.

Why the bounds are enough.

- *RemoteRevocation.* Two keys and two tokens are the least that let one token
  be stored again, under the same or another key, while another is worked on.
  Two attempts make the first, the last and the exhausted one differ. The clock
  is cut at its horizon: a timestamp beyond it never comes, and the delays reach
  from "due at once" to "never". The theorems remove these bounds for safety.
- *AuthCoordinator.* One unit of time is the probe gap. Two levels show a rise
  and the cap of both breaker and guard; one rejection pauses. Two rejections have been
  checked as well (1.7 million states). The constraint `FileInUse` cuts runs in which an outdated copy
  has been written (the finding) or every coordinator has failed to save. The
  theorems remove the bounds, and the constraint.
- *OAuthProvider.* Three pairs are the least that separate the newest, the
  previous and an older refresh token. Families do not share records, so one is
  enough except for what clients share; the theorems are about any number. The
  lives keep the order of the code (access and code shorter than Explorer family,
  that shorter than family) and are two or three units where the order of two
  expiries matters. Capacity binds (one family per client).
- *LoxoneRuntime.* Two requests for one connection's room make every conflict of
  two: both new, one evicting the other, both of one family, one revoked
  while the other is admitted, either with close. A third request adds only
  another waiter for a lock that is already fought over.
- *StateCache.* Three subjects of two identities at least (a subject without a name is an
  identity of its own), three values for two places, sizes that fill the budget
  in two or three steps: a share gets smaller while it is full. Three structures, which
  show all values, two or one of them, reach the same states as all eight.
- *ProjectService.* Two families and two loads, one large and one small project,
  two markers: one load waits for the slot, shares or evicts what the other
  made, and the project changes between its two looks.
- *MessageConfirmation.* Two callers, three previews of one message, of which a
  caller may keep one: a preview is replaced, two are confirmed at once, a
  third is made in between.
- *LoginTransaction.* Three forms and two attempts of one transaction (18001 states), so
  that two wait while one signs in, and the attempts run out. Transactions share only the
  limit on their number.
- *KnxCorrections.* One draft with an address and a label, two requests, room for
  one receipt per storage: receipts are pushed out and expire between repetitions.
- *EventHistory.* One source, three records of room and a retention of three half
  steps: events are evicted and expire within a run of three instants with one fault.
  Instances with one source to time 6 (1.0 million states) and with two sources
  and no faults (1.8 million) have been checked as well; `history_loss` has two sources.
- *ExplorerBindings.* Two families under one approval, of which the older is in use,
  revoked, expired or collected while the newer signs in. The retention covers
  the lives of two sessions here, as the default of 72 hours does; `explorer_end` has it
  shorter, and fails.
- *LoadShift.* Every observation of eight hours with one break, cycles of one hour: two
  cycles of the load fit, with a pause before, between and after; each of the five
  limits is reached by some observation; exports differ, one hour of energy is
  not known. Eight hours with two breaks (68 thousand states), and
  ten with cycles of two hours, have been checked as well.
- *EmergencyStop.* Two requests, so that one is let in before and one after a change;
  two values on their way, so that the newer one may be lost with the connection.
- *MqttHealth.* Two clients, so that the callback of one publishes for the other; the
  third of the code only adds another of the same kind.
- *AdminDiscovery.* Two requests, two identities, two versions and one name for
  connections, which is used again: one request finds what another has left behind.

Fairness. `revocation_safety` assumes that time passes, that the event loop
runs a ready worker, that an attempt is answered or times out (`_NETWORK_TIMEOUT`
guards every call), and, as strong fairness, that the breaker is not found open
at every single pass. The code does not force the last one: while the breaker is
open each pass postpones the whole queue (a hazard), but a block ends and the
breaker's own delays are finite. `oauth_rotation` assumes that time passes and
that requests which collect keep coming, which is not in the service's hands:
an idle service returns nothing (a hazard with a note). `runtime_connections`
assumes that asyncio runs what is ready, hands a free lock to one of those that
wait, and that every network call ends by its time limit; not that a connection
ever ends by itself or that anything succeeds.

Each property of a passing run has a mutant in `PROJECT.json`: a plausible bug
in one definition with which TLC finds that property violated.

## 4. Proofs

All theorems assume only the named assumption `Parameters` of their module (in `MCParts`
that of each component, under a name of its own: `StopParameters`, ...); sets
of families, tokens, coordinators, clients and calls are arbitrary, and so are bounds and
delays. One theorem has a hypothesis besides, `UseIsKept` (4.4). The types of
`RemoteRevocation`, `AuthCoordinator` and `OAuthProvider` and `ReceiptsUnique` are proved
only: no run repeats them, nor `OutcomeIsFinal` and `EndIsFinal`. The inductive
invariants of 4.3 and 4.4 were checked with TLC before they were proved.

`RemoteRevocation`:

- `TypeCorrect` (`TypeOK`): by `TypeInv`, which adds what the worker may hold in
  each of its states (`WorkerShape`): the attempt number it reserves is below the
  limit because it checked so before the await, and nobody raises it meanwhile.
- `CooldownIsHonoured`: by `CooldownInv`. The cooldown is in the sidecar before
  the network is used; the proof follows the worker's copy `value` from read to
  write and shows that nobody else writes the sidecar.
- `AttemptsAreCounted`, `ConfirmationsAreTrue`: by `OwnerInv` (which writers can
  touch which record at which time), `CustodyInv` (a token is under one key),
  then `CountInv` and `KilledInv`. The invariants are not inductive alone: that
  a count is never too low depends on there being no second record of the token
  with a lower count.
- `ReceiptsAreUnique`, `OutcomesAreFinal`: by `ReceiptInv`.
- `ImplementsLedger`: `Spec => LedgerSpec`. Every step of the worker maps to a
  step of the ledger or to a stutter; the settling step is the one write of the
  terminal marker, and totals of the ledger are the sidecar's plus the receipts
  not yet acknowledged.

### 4.1 The grant store (`OAuthProviderProofs`)

Every action replaces the document by the result of a few operators (collect,
end families, add a pair, add a family, let time pass), and a failed write keeps
the old document, so the argument is about documents first and actions second.

- Four relations say what one replacement may do to a family: `Same` (nothing but
  time and expired codes and access tokens), `Dropped` (collected), `Ends`
  (revoked, every token dead), and `Follows(d, e, S)`, which says of all families
  that none comes back and only those of `S` end or disappear. One lemma
  per operator shows which relation it satisfies (`...Effect`).
- `Good(doc, answered)` is the invariant of the document: each family is `Sound`
  (at most one refresh token in force, none answered twice and none answered from the
  one in force on, no token in force after its end) and the client of an active
  family is registered. It needs the counter `answered`, and the clause that the
  pairs from the one in force on are unanswered: `OneSuccessor` alone is not
  inductive, for it does not say why the next rotation answers a fresh token.
- `Inv` is `TypeOK`, `Good`, `TodoEnded` (what the Admin process still has to queue
  has ended already, because it writes the document first), `ReplayEndsFamily`,
  `LiveGrantKeepsToken` and `NoTokenLeftBehind`. The last two relate the
  document to the token store; they follow from `Follows` and from `Queue` touching
  exactly the families that end, except those the failed writes name.
- The theorems: `TypeCorrect`, `RefreshHasOneSuccessor`, `RevokedIsDead`,
  `ReplayIsFatal`, `EndsAreFinal`, `GrantsKeepClients`, `LiveGrantsKeepTokens`,
  `NoTokenIsLeftBehind`.

### 4.2 The coordinator (`AuthCoordinatorProofs`)

Every property the passing run checks of `AuthCoordinator` is a theorem.

- An attempt's outcome is a composition of a few operators on the file's state
  (finish, open, charge, fail the probe, clear). One lemma per operator
  (`FinishOn`, `OpenedOn`, ...) says field by field what it returns; nothing else
  expands them.
- `Base` is `TypeOK`, `AttemptOwnsFile`, the caller of the attempt, and
  `Good` of the file and every copy: a closed breaker is at level 0, a guard that is
  not paused is at level 0, and a pause is no longer than its level calls for.
  Copies matter because any of them may be written one day. `TypeCorrect`,
  `AttemptOwnsTheFile` and `PublicSparesTheTrusted` follow.
- `Reserved` is the heart: during an attempt the file's reservation covers, counted
  from its admission, the next block (`Due`) and the longest pause. It shrinks
  by one with each unit of time, and so does what it has to cover. The
  assumption that connects the two is that `LongestPause` is at least the window
  or the probe gap plus the time an attempt may take.
- `BlockInv`, `ProbeInv` and `PauseInv` say that what is owed is covered by what is
  on record or by what is reserved, and that the guards an attempt has found open
  owe nothing beyond the record. For each answer there are two cases: the outcome
  was saved, then the record covers it (`...Outcomes`, `PauseSaved`); it was not,
  then the reservation does (`BlockReserved`, `Outlasts`, `PauseReserved`). A crash
  is the second case.
- All three hold only while no outdated copy has been written (`stale`), which is the
  condition the properties name and the finding `auth_stale_copy` is about.
  `BlockIsHonoured`, `EarlyProbesAreSpaced` and `PauseIsHonoured` follow, because an
  admission finds neither record nor reservation.

### 4.3 The runtime (`LoxoneRuntimeProofs`)

Every safety property the run checks of `LoxoneRuntime` is a theorem, for any number of
families, requests and connections. None is inductive alone, and they need each
other; the conjunction `RuntimeInv` is (TLC: 239536 states of the instance of the run).

- `Locks`: the types; who holds the admission lock and each family's lock is the one
  whose `pc` says so; a family that is being ended has no grant; close goes through its
  stages with admission held, one family's lock at a time.
- `Streams`: what a request has built at each stage (`StageInv`), that a family's
  record is that family's own connection (`OwnerInv`), that whoever opens one opens it for
  a family without a usable one (`NeedInv`), and `NoStreamLeft`. The last needs all
  three: a connection is left over if somebody publishes over a record that still
  lives, or gives up the lock while a task is being cut.
- `Ends`: a family without a record has no cache until its structure has come (`FreshInv`),
  and the end of a family has taken its record by the time it is done (`EndInv`); `CacheFollowsStream` and `OverIsOver` follow.
- `Room`: while a request is between its check for room and its connection, fewer than
  `MaxActive` are alive (`RoomInv`). It speaks of connections that are alive
  and not cut, and one request at a time is in those stages, because it holds admission.
  Cardinalities are bounded by that of the set before the step and one element.

### 4.4 The components of `MCParts`

`PartsProofs` is about the emergency stop, sign-in, messages, KNX corrections, MQTT
health, the shift of loads and the state cache (the last two rest on `PartsDataProofs`),
`PartsFamilyProofs` about approvals and project files, `PartsDiscoveryProofs`
about discovery. A component runs alone, so a theorem about the module speaks of the steps of one
component and a stutter. The invariants stand at the end of each module, under "Why it
holds", and were checked by TLC on the instance of the run, or a larger one where
noted, before they were proved.

| Theorems | Inductive invariant | Checked first on |
| --- | --- | --- |
| `StopIsHonoured` | `StopInv` | 6699 states |
| `TokenIsOwned` | `LoginInv` | 646944, with two transactions |
| `SentOnceApproved`, `FirstSinceThePreview` | `ConfirmationInv` | 908521 |
| `WritesWhatWasAgreed` | `CorrectionsInv` | 49784 |
| `ApprovalsAreGiven`, `UseIsKept` | `GivenInv`, `UseInv` | 755730 with a clock to 6, 359184 with two approvals |
| `AnswersAreOwn` | `DiscoveryInv` | 367386 |
| `StopIsPublished` | `HealthInv` | 82354 |
| `ResultsAreOwn`, `NothingIsBack` | `EndInv` | 263360 |
| `MovedCyclesWereRun`, `PlansArePossible` | `ShiftInv` | 14311 |
| `BudgetIsKept`, `SharesAreProtected` | `CacheInv` | 4959 |

- *Emergency stop.* What the monitor says is what it heard last, it hears only over a
  subscription, and the last value sent over an open connection is that of the
  signal: three facts about the way of a value, which a lost connection cuts as a whole.
- *Sign-in.* A call that waits for the Miniserver is alone with its transaction, and
  that has no token yet (`AloneAtWork`); a token at the sign-in form is noted as one to
  be queued, and one without a name is among the exceptions (`LeftIsNoted`). Without the
  first a second sign-in overwrites a token.
- *Messages.* `TriedSince` is the heart: if the message was tried since a ticket was made, the
  claim on it is another than the one the ticket knows, or, when it knows none, one that
  outlasts the ticket. So the check of the claim at dispatch is enough although tickets,
  claims and approvals run out by different clocks. `NoSecondAttempt` is an action property
  and follows from the invariant in the state before the step.
- *KNX corrections.* A decision that stands is one the user made of the present value;
  a receipt is held as long as it promises; what was written was written to an
  earlier catalog, so that the catalog a repeated request names is over.
- *Approvals.* `GivenByAdmin` must be strengthened to what is on record, in force or not,
  because an end that is reported late may put a later end on an approval that is over.
  `UseKeepsApproval` needs that families overlap (`LivesOverlap`: none is stored that
  had run out when another was issued, because issuing collects), that an end on its
  way is not long ago for those that live on (`EndsAreLate`), and that maintenance
  has seen whoever lives (`SeenAlive`). So an end that is
  written into the approval of a living family lies less than two lives before that
  family's own end. Hence the hypothesis `KeptForTwoLives`. The configuration does not guarantee it (1 to 720 hours,
  families of 8): the default of 72 hours satisfies it, and where it fails TLC finds the
  property violated, which is finding 7. That a set of numbers
  has a least one (`LeastNatural`) comes from `<` being well-founded; the library's `WFMin`
  needs no operator parameter.
- *Discovery.* The answers on a connection carry no mark. At most one command or answer
  is on its way, and unless the receiver has failed it is that of the request that
  awaits it, made after it asked (`OneAnswer`); who has failed is dropped before anybody
  asks again, because whoever drops has the lock (`LockIsHeld`). What a request has got
  is of the identity of the connection held (`RepliesAreOwn`).
- *MQTT health.* For each client whose shutdown has been published the last thing it
  says is that it stops (`TheirLastWord`), as its outgoing messages or, if none is left,
  as the retained topic. `PublishedFor` says that the loop of the shutdown
  misses nobody; `QuietThreads` is where `overlap` is needed.
- *Project files.* `ResultsAreOwn` needs that one load at a time is past the slot
  (`OneInside`), and that what its family has cached from the parsing on is what it
  downloaded (`KnowsItsOwn`), also when the snapshot is another family's.
  `NothingIsBack` is proved of families from the first step of their revocation on
  (`EndedHasNothing`), which is what makes it inductive. `MCParts` names two contents for
  the project; families and loads are arbitrary.
- *Shift of loads.* Energies, exports and windows are arbitrary. The loops of the code are
  recursive functions on the natural numbers: each is shown to exist (`Recursion`)
  and followed by induction on a set of numbers (`FromZero`: a set with 0 and all
  successors has every number), which needs no operator parameter. A segment that is cut
  out observes its hours (`SegmentObserves`), merging keeps that (`MergedObserves`), so
  an eligible cycle was run (`EligibleWasRun`). `SelectKeeps` is the step of the greedy
  loop: what is given away comes out of what the hour has left, and the new run is apart
  from those chosen (`MovedApart`).
- *State cache.* A counter is a sum over keys in no order, so it is stated as the weight of
  a set (`Weight`), for which union, removal and replacement are lemmas; the sequence
  that the code adds up is one order of that set (`WeightOfSequence`). Each helper of the
  cache (remove, append, discard, trim, register, store) has a lemma on keys, counters and
  both orders, and the loops of `Trim` and `DiscardAll` go by induction on a set of numbers. That
  trimming stays with the identity it was called for gives `SharesAreProtected`.

### 4.5 Only model-checked

- Liveness (`QueueDrains`, `TokenIsReturned`, `EverythingEnds`): the prover has no fairness.
- `PhasesAreTrue` of `EventHistory`. Its invariant relates every capture interval to
  what the recorder was told and to writes that may still land; it is checked on the
  instance of the run and the two larger ones named in Section 3.
- `TypeOK` of `MCParts` as a whole: it bounds counters by the bounds of the run. What the
  proofs use of it is in the invariants above (`LoginTypes`, `ProjectTypes`, ...).

## 5. Not modelled, and the plan

`PROJECT.json` gives each component's status. What could be proved next:
`PhasesAreTrue`, for any sources, retention and number of faults. What could be
modelled next: the calls the emergency stop has let in, the installation
profile's optimistic writes, import of KNX archives, and the composition of
provider, token store, runtime and worker in one module.

Partly modelled:

- *OAuth provider*: scopes and pending local approvals.
- *Sign-in pages*: rendering, request limits.
- *Load planning*: forecasts, comparisons of days and classes, rankings.
- *Runtime*: commands over a live connection.
- *Project service*: the parser process and its result cache.
- *Event history*: weather and solar recordings, display totals.
- *KNX*: import, delegation, queries.
- *Emergency stop and control*: preparing and encrypting a command.
- *MQTT health*: credentials, the look-up of the broker, removal of old topics.
- *Service discovery*: source-IP blocks, limits on frames, projections.

Left out for good: wire protocol, cryptography and parsing (pure functions or
I/O), numerical analysis of recorded series, interpretation of structures and
values, presentation, localisation, the installer. They are most of the lines of
the repository and have no state that two steps share; their functions work on
large irregular data (project graphs, time series) of which no small instance
exercises more than a unit test does. Where a modelled component meets them they
are answers that arrive, are lost or time out, and writes that succeed, fail or
fail late.

## 6. Findings

1. `marker_lost`: a refresh that completes after its family was revoked writes
   the token over the queue marker (`loxone/runtime.py:1906`). The token is
   neither killed nor counted until the expired family is collected and queued
   once more, up to 30 days later.
2. `budget_reset`: a put that reports an error after it took effect is repeated,
   which starts the attempt count anew (`auth/web.py:305`).
3. `auth_stale_copy`: a coordinator that could not save writes its older copy
   over a newer block (`loxone/auth_diagnostics.py:693`).
4. `oauth_consent`: a client can be collected while its user is on the consent
   page (`auth/provider.py:401`), although a comment promises the opposite.
5. `runtime_renewal`: while a token is renewed the event pump is stopped and the
   websocket closed, but snapshots go on reporting the connection as live and its
   values as current (`loxone/runtime.py:1900`), although the runtime's audit
   document says that freshness is invalidated before the teardown.
6. `history_loss`: when a change cannot be stored, the capture interval ends when
   the failure is handled, not when the change came (`loxone/event_history.py:1807`):
   the interval covers the change it has not got.
7. `explorer_end`: a session that was revoked is collected when its eight hours are
   over, and its end is then written into the approval although a newer session
   uses it (`explorer_bindings.py:212`). With a retention shorter than two
   sessions' lives the approval can be over at once; the design record says it is kept once no session is
   active any more.
