-------------------------------- MODULE MCParts --------------------------------
(***************************************************************************)
(* The components that share nothing with each other, side by side: one is *)
(* chosen at the start and runs alone.  They also share their variables,   *)
(* which makes the states small: x1 is the store of one, the clock of      *)
(* another.                                                                *)
(***************************************************************************)
EXTENDS MCData

CONSTANTS
  \* ProjectService
  Families, Loads, big, small, Markers, MaxEntries, ProjectBytes, NoFamily, NoContent, NoLoad,
  \* MessageConfirmation
  Callers, Entries, Previews, Revisions, TicketTTL, MaxPerCaller, NoClaim, NoCaller, NoEntry,
  \* LoginTransaction
  Transactions, Calls, MaxAttempts, MaxOpen, LoginTTL, NoToken, NoTransaction,
  \* KnxCorrections
  Drafts, Addresses, Prefixes, Values, Requests, DraftTTL, ReceiptTTL, ReceiptLimit,
  MaxCatalog, MaxRevision,
  \* EventHistory
  Sources, StateValues, Retention, MaxRecords, Batch, NoValue, MaxTime, MaxFaults,
  \* ExplorerBindings
  Bindings, FamilyTTL, Keep, MaxClock, NoRecord,
  \* EmergencyStop and MqttHealth
  Posts, MaxWire, LastClient,
  \* AdminDiscovery
  Profiles, Connections, MaxVersion, Nobody, NoConnection, NoIdentity

VARIABLES
  part,      \* the component that runs
  x6, x7, x8, x9, x10, x11, x12, x13

vars == <<part, x1, x2, x3, x4, x5, x6, x7, x8, x9, x10, x11, x12, x13>>

\* What stands in variables that the component does not have.
Off == "off"

\* The snapshot of big takes up the whole budget of the cache, that of small half of it.
Contents == {big, small}
MCSize == [c \in Contents |-> IF c = big THEN 2 ELSE 1]

\* One state, of all sources.
MCStateOf == [s \in Sources |-> "p"]

\* The energy of the last hour but one is not known; exports begin with the fourth hour.
MCEnergy == [h \in (0 .. (Hours - 1)) \ {Hours - 2} |-> IF h < 2 THEN 2 ELSE 3]
MCExport == [h \in 3 .. (Hours - 1) |-> IF h < 6 THEN 2 ELSE 4]
MCWindows == 0 .. (Hours - 1)

Project == INSTANCE ProjectService WITH
  marker <- x1, served <- x2, grant <- x3, revoking <- x4, closing <- x5, slot <- x6,
  load <- x7, cancelled <- x8, entry <- x9, order <- x10, known <- x11, content <- x12,
  view <- x13,
  MaxBytes <- ProjectBytes, Size <- MCSize
Confirmation == INSTANCE MessageConfirmation WITH
  message <- x1, ticket <- x2, approval <- x3, claim <- x4, inflight <- x5, attempts <- x6,
  shown <- x7,
  TTL <- TicketTTL
Login == INSTANCE LoginTransaction WITH
  login <- x1, call <- x2, issued <- x3, records <- x4, queued <- x5, granted <- x6,
  lost <- x7,
  TTL <- LoginTTL
Corrections == INSTANCE KnxCorrections WITH
  field <- x1, catalog <- x2, draft <- x3, receipt <- x4, agreed <- x5, quiet <- x6,
  wrote <- x7
History == INSTANCE EventHistory WITH
  now <- x1, sources <- x2, store <- x3, recorder <- x4, left <- x5, seen <- x6,
  faults <- x7,
  StateOf <- MCStateOf, Values <- StateValues
Approvals == INSTANCE ExplorerBindings WITH
  clock <- x1, family <- x2, binding <- x3, service <- x4, admin <- x5, allowed <- x6,
  crossed <- x7, recorded <- x8
Stop == INSTANCE EmergencyStop WITH
  selected <- x1, signal <- x2, visible <- x3, stage <- x4, session <- x5, wire <- x6,
  status <- x7, heard <- x8, call <- x9,
  Calls <- Posts
Health == INSTANCE MqttHealth WITH
  service <- x1, turn <- x2, library <- x3, connected <- x4, thread <- x5, out <- x6,
  session <- x7, retained <- x8, overlap <- x9
Discovery == INSTANCE AdminDiscovery WITH
  configured <- x1, version <- x2, stored <- x3, request <- x4, lock <- x5, held <- x6,
  failed <- x7, pending <- x8, asked <- x9, wire <- x10, disposal <- x11, open <- x12,
  owner <- x13

ASSUME ProjectParameters == Project!Parameters
ASSUME ConfirmationParameters == Confirmation!Parameters
ASSUME LoginParameters == Login!Parameters
ASSUME CorrectionsParameters == Corrections!Parameters
ASSUME HistoryParameters == History!Parameters
ASSUME ApprovalsParameters == Approvals!Parameters
ASSUME StopParameters == Stop!Parameters
ASSUME HealthParameters == Health!Parameters
ASSUME DiscoveryParameters == Discovery!Parameters

Init ==
  \/ /\ part = "cache" /\ Cache!Init
     /\ x2 = Off /\ x3 = Off /\ x4 = Off /\ x5 = Off /\ x6 = Off /\ x7 = Off /\ x8 = Off
     /\ x9 = Off /\ x10 = Off /\ x11 = Off /\ x12 = Off /\ x13 = Off
  \/ /\ part = "project" /\ Project!Init
  \/ /\ part = "confirmation" /\ Confirmation!Init
     /\ x8 = Off /\ x9 = Off /\ x10 = Off /\ x11 = Off /\ x12 = Off /\ x13 = Off
  \/ /\ part = "login" /\ Login!Init
     /\ x8 = Off /\ x9 = Off /\ x10 = Off /\ x11 = Off /\ x12 = Off /\ x13 = Off
  \/ /\ part = "corrections" /\ Corrections!Init
     /\ x8 = Off /\ x9 = Off /\ x10 = Off /\ x11 = Off /\ x12 = Off /\ x13 = Off
  \/ /\ part = "history" /\ History!Init
     /\ x8 = Off /\ x9 = Off /\ x10 = Off /\ x11 = Off /\ x12 = Off /\ x13 = Off
  \/ /\ part = "approvals" /\ Approvals!Init
     /\ x9 = Off /\ x10 = Off /\ x11 = Off /\ x12 = Off /\ x13 = Off
  \/ /\ part = "shift" /\ Shift!Init
     /\ x6 = Off /\ x7 = Off /\ x8 = Off /\ x9 = Off /\ x10 = Off /\ x11 = Off
     /\ x12 = Off /\ x13 = Off
  \/ /\ part = "stop" /\ Stop!Init
     /\ x10 = Off /\ x11 = Off /\ x12 = Off /\ x13 = Off
  \/ /\ part = "health" /\ Health!Init
     /\ x10 = Off /\ x11 = Off /\ x12 = Off /\ x13 = Off
  \/ /\ part = "discovery" /\ Discovery!Init

RunCache ==
  /\ part = "cache"
  /\ Cache!Next
  /\ UNCHANGED <<part, x2, x3, x4, x5, x6, x7, x8, x9, x10, x11, x12, x13>>

RunProject ==
  /\ part = "project"
  /\ Project!Next
  /\ UNCHANGED part

RunConfirmation ==
  /\ part = "confirmation"
  /\ Confirmation!Next
  /\ UNCHANGED <<part, x8, x9, x10, x11, x12, x13>>

RunLogin ==
  /\ part = "login"
  /\ Login!Next
  /\ UNCHANGED <<part, x8, x9, x10, x11, x12, x13>>

RunCorrections ==
  /\ part = "corrections"
  /\ Corrections!Next
  /\ UNCHANGED <<part, x8, x9, x10, x11, x12, x13>>

RunHistory ==
  /\ part = "history"
  /\ History!Next
  /\ UNCHANGED <<part, x8, x9, x10, x11, x12, x13>>

RunApprovals ==
  /\ part = "approvals"
  /\ Approvals!Next
  /\ UNCHANGED <<part, x9, x10, x11, x12, x13>>

RunShift ==
  /\ part = "shift"
  /\ Shift!Next
  /\ UNCHANGED <<part, x6, x7, x8, x9, x10, x11, x12, x13>>

RunStop ==
  /\ part = "stop"
  /\ Stop!Next
  /\ UNCHANGED <<part, x10, x11, x12, x13>>

RunHealth ==
  /\ part = "health"
  /\ Health!Next
  /\ UNCHANGED <<part, x10, x11, x12, x13>>

RunDiscovery ==
  /\ part = "discovery"
  /\ Discovery!Next
  /\ UNCHANGED part

Next ==
  \/ RunCache \/ RunProject \/ RunConfirmation \/ RunLogin \/ RunCorrections \/ RunHistory
  \/ RunApprovals \/ RunShift \/ RunStop \/ RunHealth \/ RunDiscovery

Spec == Init /\ [][Next]_vars

-------------------------------------------------------------------------------

\* Every component keeps its types, and what its module says with them.
TypeOK ==
  CASE part = "cache" -> Cache!TypeOK
    [] part = "project" -> Project!TypeOK
    [] part = "confirmation" -> Confirmation!TypeOK
    [] part = "login" -> Login!TypeOK
    [] part = "corrections" -> Corrections!TypeOK
    [] part = "history" -> History!TypeOK
    [] part = "approvals" -> Approvals!TypeOK
    [] part = "shift" -> Shift!TypeOK
    [] part = "stop" -> Stop!TypeOK
    [] part = "health" -> Health!TypeOK
    [] part = "discovery" -> Discovery!TypeOK

\* StateCache: counters, shares and eviction orders agree after every operation.
BudgetKept == part = "cache" => Cache!BudgetKept

\* StateCache: one identity's values do not push out those of another.
SharesProtected == [][part = "cache" => Cache!OthersStay]_vars

\* ProjectService: a load returns, and a view shows, what the family's own token
\* has downloaded.
ResultIsOwn == part = "project" => Project!ResultIsOwn

\* ProjectService: nothing of a revoked family, or after close, comes back.
NothingComesBack == part = "project" => Project!NothingComesBack

\* MessageConfirmation: no command goes out for a message that was tried since the
\* preview.
NoSecondAttempt == [][part = "confirmation" => Confirmation!SendsFirst]_vars

\* MessageConfirmation: each approval is good for one command of its own preview.
ApprovedOnce == part = "confirmation" => Confirmation!ApprovedOnce

\* LoginTransaction: a token that was issued has an owner who can store or queue it, but
\* for those lost by a restart, a missing answer or an unreadable auth document.
TokenHasOwner == part = "login" => Login!TokenHasOwner

\* KnxCorrections: what is written is what was accepted, and written once.
AppliedAsAgreed == [][part = "corrections" => Corrections!AppliesAsAgreed]_vars

\* EventHistory: what is read from a capture interval is what the recorder was told.
PhasesAreTrue == part = "history" => History!PhasesAreTrue

\* ExplorerBindings: an approval in use stays in force until it is removed.
UseKeepsApproval == part = "approvals" => Approvals!UseKeepsApproval

\* ExplorerBindings: nothing is approved but by the administrator.
GivenByAdmin == part = "approvals" => Approvals!GivenByAdmin

\* LoadShift: cycles that are moved were observed from start to stop.
CyclesWereRun == part = "shift" => Shift!CyclesWereRun

\* LoadShift: the selections together are possible.
PlanIsPossible == part = "shift" => Shift!PlanIsPossible

\* EmergencyStop: tool calls are let in on a confirmed one alone.
StopHonoured == part = "stop" => Stop!StopHonoured

\* MqttHealth: no topic goes on saying that a stopped service runs.
StopIsTold == part = "health" => Health!StopIsTold

\* AdminDiscovery: an answer is new, of the right identity, and no connection is lost.
AnswerIsOwn == part = "discovery" => Discovery!AnswerIsOwn
===============================================================================
