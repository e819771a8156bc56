----------------------------- MODULE KnxCorrections -----------------------------
(***************************************************************************)
(* Agreed corrections of the local KNX catalog (src/mcpserver/knx/).       *)
(*                                                                         *)
(* A client drafts changes against the catalog and the labels it has read; *)
(* the user accepts them one by one; apply writes what was accepted and    *)
(* leaves a receipt, by which a request of unknown outcome is found again. *)
(* Addresses and their receipts are in one SQLite file, labels and theirs  *)
(* in the configuration file, drafts in a second SQLite file.              *)
(*                                                                         *)
(* Every operation holds the lock of the configuration, and its effect is  *)
(* one transaction or one replaced file: an action.  A request that is     *)
(* answered from a receipt, or refused, changes nothing, and so is not an  *)
(* action.  Requests are told apart by owner and id.  A write that fails   *)
(* after it took effect is the write.  There is one target, whose          *)
(* addresses stay; access, project evidence, changes that are only         *)
(* exported and the limits on drafts are left out.                         *)
(***************************************************************************)
EXTENDS Integers, FiniteSets

CONSTANTS
  Drafts,
  Addresses,     \* address fields that a change may be about ...
  Prefixes,      \* ... and prefix labels; each names its change
  Values,        \* values of a field, none among them
  Requests,      \* apply requests
  DraftTTL,      \* CORRECTION_TTL_SECONDS
  ReceiptTTL,    \* RECEIPT_TTL, TTL
  ReceiptLimit,  \* RECEIPT_LIMIT, LIMIT
  MaxCatalog,    \* bound: catalog revisions
  MaxRevision    \* bound: revisions of a draft

Changes == Addresses \cup Prefixes

Parameters ==
  /\ IsFiniteSet(Changes) /\ Addresses \cap Prefixes = {}
  /\ {DraftTTL, ReceiptTTL, ReceiptLimit, MaxCatalog, MaxRevision} \subseteq Nat \ {0}

\* The two values of "storage" in a request; both stores keep receipts.
Storages == {"addresses", "prefix_labels"}
Fields(s) == IF s = "addresses" THEN Addresses ELSE Prefixes

VARIABLES
  field,     \* the catalog's overrides and the labels
  catalog,   \* the catalog revision
  draft,     \* draft -> "none", "gone", or live with what Create puts into it
  receipt,   \* storage -> request -> its receipt
  \* for the property only:
  agreed,    \* draft -> the changes its user has accepted, with the value seen
  quiet,     \* storage -> request -> time left of what its receipt promises
  wrote      \* operations that have changed addresses

vars == <<field, catalog, draft, receipt, agreed, quiet, wrote>>

Labels == [p \in Prefixes |-> field[p]]

NoReceipt == [held |-> FALSE, left |-> 0]
Proposed == [c \in Changes |-> "proposed"]

Init ==
  /\ \E v \in Values : field = [c \in Changes |-> v]
  /\ catalog = 0
  /\ draft = [d \in Drafts |-> [st |-> "none"]]
  /\ receipt = [s \in Storages |-> [r \in Requests |-> NoReceipt]]
  /\ agreed = [d \in Drafts |-> {}]
  /\ quiet = [s \in Storages |-> [r \in Requests |-> 0]]
  /\ wrote = {}

Live(d) == draft[d].st = "live" /\ draft[d].left > 0

\* manual_revision is a hash of the labels: labels that are restored have it again.
Stale(d) == draft[d].catalog # catalog \/ draft[d].manual # Labels

\* _editable, with the revision that the caller has seen
Editable(d) ==
  /\ Live(d)
  /\ ~ draft[d].archived
  /\ ~ Stale(d)
  /\ draft[d].rev < MaxRevision

-------------------------------------------------------------------------------
(***************************************************************************)
(* Drafts.                                                                 *)
(***************************************************************************)

Revise(d, new) == draft' = [draft EXCEPT ![d] = [new EXCEPT !.rev = draft[d].rev + 1]]

Create(d, value) ==
  /\ draft[d].st = "none"
  /\ draft' = [draft EXCEPT ![d] =
       [st |-> "live", rev |-> 1, catalog |-> catalog, manual |-> Labels, archived |-> FALSE,
        value |-> value, decision |-> Proposed, left |-> DraftTTL]]
  /\ UNCHANGED <<field, catalog, receipt, agreed, quiet, wrote>>

\* Prepared anew: "Updating a proposal never carries an earlier approval forward".
Update(d, value) ==
  /\ Editable(d)
  /\ Revise(d, [draft[d] EXCEPT !.value = value, !.decision = Proposed])
  /\ agreed' = [agreed EXCEPT ![d] = {}]
  /\ UNCHANGED <<field, catalog, receipt, quiet, wrote>>

Review(d, c, decision) ==
  /\ Editable(d)
  /\ Revise(d, [draft[d] EXCEPT !.decision[c] = decision])
  /\ agreed' = [agreed EXCEPT ![d] =
       {a \in @ : a[1] # c} \cup (IF decision = "accepted" THEN {<<c, draft[d].value[c]>>} ELSE {})]
  /\ UNCHANGED <<field, catalog, receipt, quiet, wrote>>

\* The administrator changes one value.
Edit(d, c, v) ==
  /\ Editable(d)
  /\ Revise(d, [draft[d] EXCEPT !.value[c] = v, !.decision[c] = "proposed"])
  /\ agreed' = [agreed EXCEPT ![d] = {a \in @ : a[1] # c}]
  /\ UNCHANGED <<field, catalog, receipt, quiet, wrote>>

Managed(d, new) ==
  /\ Live(d)
  /\ draft[d].rev < MaxRevision
  /\ Revise(d, new)
  /\ UNCHANGED <<field, catalog, receipt, quiet, wrote>>

Extend(d) == Managed(d, [draft[d] EXCEPT !.left = DraftTTL]) /\ UNCHANGED agreed

Archive(d) == Managed(d, [draft[d] EXCEPT !.archived = TRUE]) /\ UNCHANGED agreed

\* Mutant of Restore: the draft is as it was.
RestoreAsItWas(d) ==
  /\ Managed(d, [draft[d] EXCEPT !.archived = FALSE])
  /\ agreed' = [agreed EXCEPT ![d] = {}]

\* "Restoring a saved work item never restores old approvals."
Restore(d) ==
  /\ Managed(d, [draft[d] EXCEPT !.archived = FALSE, !.decision = Proposed])
  /\ agreed' = [agreed EXCEPT ![d] = {}]

\* Discarded by its owner, deleted by the administrator, or expired.
Delete(d) ==
  /\ draft[d].st = "live"
  /\ draft' = [draft EXCEPT ![d] = [st |-> "gone"]]
  /\ agreed' = [agreed EXCEPT ![d] = {}]
  /\ UNCHANGED <<field, catalog, receipt, quiet, wrote>>

-------------------------------------------------------------------------------
(***************************************************************************)
(* The catalog, the labels and what is applied to them.                    *)
(***************************************************************************)

\* An import, a restored export, or the administrator writes the catalog.
WriteCatalog(new) ==
  /\ catalog < MaxCatalog
  /\ \A p \in Prefixes : new[p] = field[p]
  /\ field' = new
  /\ catalog' = catalog + 1
  /\ UNCHANGED <<draft, receipt, agreed, quiet, wrote>>

WriteLabels(new) ==
  /\ \A a \in Addresses : new[a] = field[a]
  /\ field' = new
  /\ UNCHANGED <<catalog, draft, receipt, agreed, quiet, wrote>>

\* What a request asks for, as its digest tells it.
Operation(d, selected) == [draft |-> d, rev |-> draft[d].rev, catalog |-> catalog, ids |-> selected]

Merged(d, selected) == [c \in Changes |-> IF c \in selected THEN draft[d].value[c] ELSE field[c]]

Retained(s) == [r \in Requests |-> IF receipt[s][r].left = 0 THEN NoReceipt ELSE receipt[s][r]]

Kept(s) == {r \in Requests : Retained(s)[r].held}

\* A request is new if it has no receipt.  With one it is answered from it, or is a
\* conflict, or the receipt has expired: it does nothing.
Fresh(s, r) == ~ receipt[s][r].held

Apply(s, r, d, selected) ==
  /\ selected # {} /\ selected \subseteq Fields(s)
  /\ Fresh(s, r)
  /\ Live(d) /\ ~ draft[d].archived /\ ~ Stale(d)
  /\ \A c \in selected : draft[d].decision[c] = "accepted"
  /\ Cardinality(Kept(s)) < ReceiptLimit
  /\ field' = Merged(d, selected)
  /\ IF s = "addresses" /\ field' # field
     THEN /\ catalog < MaxCatalog
          /\ catalog' = catalog + 1
          /\ wrote' = wrote \cup {<<r, Operation(d, selected)>>}
     ELSE UNCHANGED <<catalog, wrote>>
  /\ receipt' = [receipt EXCEPT ![s] = [Retained(s) EXCEPT ![r] = [held |-> TRUE, left |-> ReceiptTTL]]]
  /\ quiet' = [quiet EXCEPT ![s][r] = ReceiptTTL]
  /\ UNCHANGED <<draft, agreed>>

Less(t) == IF t = 0 THEN 0 ELSE t - 1

Tick ==
  /\ draft' = [d \in Drafts |->
       IF Live(d) THEN [draft[d] EXCEPT !.left = @ - 1] ELSE draft[d]]
  /\ receipt' = [s \in Storages |-> [r \in Requests |-> [receipt[s][r] EXCEPT !.left = Less(@)]]]
  /\ quiet' = [s \in Storages |-> [r \in Requests |-> Less(quiet[s][r])]]
  /\ UNCHANGED <<field, catalog, agreed, wrote>>

Next ==
  \/ Tick
  \/ \E new \in [Changes -> Values] : WriteCatalog(new) \/ WriteLabels(new)
  \/ \E d \in Drafts :
       \/ \E value \in [Changes -> Values] : Create(d, value) \/ Update(d, value)
       \/ \E c \in Changes :
            \/ \E decision \in {"proposed", "accepted", "rejected"} : Review(d, c, decision)
            \/ \E v \in Values : Edit(d, c, v)
       \/ Extend(d) \/ Archive(d) \/ Restore(d) \/ Delete(d)
       \/ \E s \in Storages, r \in Requests, selected \in SUBSET Changes : Apply(s, r, d, selected)

Spec == Init /\ [][Next]_vars

-------------------------------------------------------------------------------
(***************************************************************************)
(* Properties.                                                             *)
(***************************************************************************)

TypeOK ==
  /\ field \in [Changes -> Values]
  /\ catalog \in 0..MaxCatalog
  /\ \A d \in Drafts :
       /\ draft[d].st \in {"none", "live", "gone"}
       /\ draft[d].st = "live" =>
            /\ draft[d].rev \in 1..MaxRevision
            /\ draft[d].catalog \in 0..catalog
            /\ draft[d].value \in [Changes -> Values]
            /\ draft[d].left \in 0..DraftTTL
  /\ \A s \in Storages :
       /\ Cardinality({r \in Requests : receipt[s][r].held}) <= ReceiptLimit
       /\ \A r \in Requests : receipt[s][r] \in [held : BOOLEAN, left : 0..ReceiptTTL]

\* What apply writes is what the user has accepted, with the value that was shown
\* then: no edit, new preparation or archive has come between.  And as long as a
\* receipt promises to tell of a request ("available for seven days",
\* knx-mcp.en.md:428), the request writes nothing again; one for addresses never
\* does, whatever has become of its receipt, of the field and of the draft.
AppliesAsAgreed ==
  \A s \in Storages, r \in Requests, d \in Drafts, selected \in SUBSET Changes :
    Apply(s, r, d, selected) =>
      /\ \A c \in selected : <<c, field'[c]>> \in agreed[d]
      /\ quiet[s][r] = 0
      /\ <<r, Operation(d, selected)>> \notin wrote

AppliedAsAgreed == [][AppliesAsAgreed]_vars

-------------------------------------------------------------------------------
(***************************************************************************)
(* Why it holds: what the theorem about it rests on.                       *)
(***************************************************************************)

Decisions == {"proposed", "accepted", "rejected"}
ChangeValues == [Changes -> Values]
LiveDrafts ==
  [st : {"live"}, rev : Nat, catalog : Nat, manual : [Prefixes -> Values], archived : BOOLEAN,
   value : ChangeValues, decision : [Changes -> Decisions], left : Nat]
DraftRecords == [st : {"none", "gone"}] \cup LiveDrafts
Receipts == [held : BOOLEAN, left : Nat]

CorrectionTypes ==
  /\ field \in ChangeValues
  /\ catalog \in Nat
  /\ draft \in [Drafts -> DraftRecords]
  /\ receipt \in [Storages -> [Requests -> Receipts]]
  /\ agreed \in [Drafts -> SUBSET (Changes \X Values)]
  /\ quiet \in [Storages -> [Requests -> Nat]]

\* What a draft has as accepted, the user has agreed to as it stands.
AcceptedIsAgreed ==
  \A d \in Drafts, c \in Changes :
    draft[d].st = "live" /\ draft[d].decision[c] = "accepted" =>
      <<c, draft[d].value[c]>> \in agreed[d]

\* A receipt is there for as long as it promises to be.
PromiseIsKept ==
  \A s \in Storages, r \in Requests :
    quiet[s][r] # 0 => receipt[s][r].held /\ quiet[s][r] <= receipt[s][r].left

\* What was written, was written to an earlier catalog.
WrittenBefore == \A w \in wrote : w[2].catalog \in Nat /\ w[2].catalog < catalog

CorrectionsInv == CorrectionTypes /\ AcceptedIsAgreed /\ PromiseIsKept /\ WrittenBefore
===============================================================================
