----------------------------- MODULE ProjectService -----------------------------
(***************************************************************************)
(* Project files, parsed and shared (src/mcpserver/loxone/project/service.py). *)
(*                                                                         *)
(* A load downloads the Miniserver's project with the caller's own token,  *)
(* reuses a parsed snapshot of the same bytes, and reads the project       *)
(* marker before and after.  One load has the slot at a time; others wait. *)
(* Loads are cancelled at any await, by their caller, when their family    *)
(* ends, or by close.                                                      *)
(*                                                                         *)
(* A content stands for the bytes and for the snapshot parsed from them.   *)
(* A family has one identity on one Miniserver.  Other uses of invalidate  *)
(* than revoke come from tools, at any time.                               *)
(***************************************************************************)
EXTENDS Integers, SequencesExt

CONSTANTS
  Families,
  Loads,        \* calls of load_snapshot, each made once
  Contents,     \* project files
  Size,         \* content -> size of its snapshot
  Markers,      \* bound: values of the marker, 1..Markers
  MaxEntries,   \* _MAX_CACHE_ENTRIES
  MaxBytes,     \* _MAX_CACHE_BYTES
  NoFamily, NoContent, NoLoad

Parameters ==
  /\ Size \in [Contents -> Nat]
  /\ Markers \in Nat \ {0} /\ MaxEntries \in Nat \ {0} /\ MaxBytes \in Nat
  /\ NoFamily \notin Families /\ NoContent \notin Contents /\ NoLoad \notin Loads

VARIABLES
  marker,      \* the Miniserver's project marker
  served,      \* family -> the content its token may download
  grant,       \* family -> its access is valid
  revoking,    \* family -> "no", "waiting", "done"
  closing,     \* "no", "waiting", "done"
  slot,        \* the load that has the slot
  load,        \* load -> where it is and what it knows
  cancelled,   \* loads told to stop
  entry,       \* family -> its cached marker and content
  order,       \* cached families, least recently used first
  known,       \* family -> its marker, 0 = none
  content,     \* family -> its content key
  view         \* family -> the content its cached view was made from

sourceVars == <<marker, served>>
endVars == <<grant, revoking, closing>>
cacheVars == <<entry, order, known, content, view>>
vars == <<sourceVars, endVars, slot, load, cancelled, cacheVars>>

Vacant == [marker |-> 0, content |-> NoContent]
NewLoad == [pc |-> "new", family |-> NoFamily, marker |-> 0, own |-> NoContent,
            shared |-> NoContent, result |-> NoContent]

Active == {"waiting", "marking", "downloading", "parsing", "again"}

Init ==
  /\ marker = 1
  /\ served \in [Families -> Contents]
  /\ grant = [f \in Families |-> TRUE]
  /\ revoking = [f \in Families |-> "no"]
  /\ closing = "no"
  /\ slot = NoLoad
  /\ load = [l \in Loads |-> NewLoad]
  /\ cancelled = {}
  /\ entry = [f \in Families |-> Vacant]
  /\ order = <<>>
  /\ known = [f \in Families |-> 0]
  /\ content = [f \in Families |-> NoContent]
  /\ view = [f \in Families |-> NoContent]

Cached(f) == entry[f] # Vacant

\* _check
Allowed(f) == grant[f] /\ closing = "no"

-------------------------------------------------------------------------------
(***************************************************************************)
(* The caches, as one record while an operation changes them.              *)
(***************************************************************************)

Caches == [entry |-> entry, order |-> order, known |-> known, content |-> content,
           view |-> view]

Become(c) ==
  /\ entry' = c.entry
  /\ order' = c.order
  /\ known' = c.known
  /\ content' = c.content
  /\ view' = c.view

\* Mutant of Discarded: the index of contents keeps the family.
DiscardedStillIndexed(c, f) ==
  [c EXCEPT !.entry[f] = Vacant, !.order = SelectSeq(@, LAMBDA g : g # f),
            !.known[f] = 0, !.view[f] = NoContent]

\* _discard, and invalidate: the families fs lose what is cached of them.
Without(h, fs, none) == [f \in Families |-> IF f \in fs THEN none ELSE h[f]]
Dropped(c, fs) ==
  [entry |-> Without(c.entry, fs, Vacant), order |-> SelectSeq(c.order, LAMBDA g : g \notin fs),
   known |-> Without(c.known, fs, 0), content |-> Without(c.content, fs, NoContent),
   view |-> Without(c.view, fs, NoContent)]

Discarded(c, f) == Dropped(c, {f})

SumSizes(S) == FoldLeft(LAMBDA t, x : t + Size[x], 0, SetToSeq(S))

\* _cache_bytes: a snapshot that several families hold counts once
Bytes(c, fs) == SumSizes({c.entry[f].content : f \in fs})

Fits(c, fs) == Cardinality(fs) <= MaxEntries /\ Bytes(c, fs) <= MaxBytes

\* The least recently used go, one by one, until the rest fits.
Evicted(c) ==
  LET Rest(n) == ToSet(SubSeq(c.order, n + 1, Len(c.order)))
      n == CHOOSE n \in 0..Len(c.order) :
             Fits(c, Rest(n)) /\ \A m \in 0..Len(c.order) : Fits(c, Rest(m)) => n <= m
  IN  Dropped(c, ToSet(SubSeq(c.order, 1, n)))

\* What a load that has verified content x under marker m leaves; a view of it is
\* cached at the same time, if view() has asked for it.
Published(c, f, x, m, viewed) ==
  LET d == Evicted([c EXCEPT !.entry[f] = [marker |-> m, content |-> x],
                             !.order = Append(SelectSeq(@, LAMBDA g : g # f), f),
                             !.known[f] = m,
                             !.content[f] = x])
  IN  IF Size[x] > MaxBytes THEN [c EXCEPT !.known[f] = m]
      ELSE IF viewed /\ d.entry[f] # Vacant THEN [d EXCEPT !.view[f] = x] ELSE d

-------------------------------------------------------------------------------
(***************************************************************************)
(* One load.                                                               *)
(***************************************************************************)

At(l, pc) == load[l].pc = pc /\ l \notin cancelled

\* Another call is admitted.  A caller with a fresh structure brings its marker.
Begin(l, f, m) ==
  /\ load[l].pc = "new"
  /\ m \in {0, marker}
  /\ load' = [load EXCEPT ![l] = [NewLoad EXCEPT !.pc = "waiting", !.family = f, !.marker = m]]
  /\ UNCHANGED <<sourceVars, endVars, slot, cancelled, cacheVars>>

Over(l) == [NewLoad EXCEPT !.pc = "over", !.family = load[l].family]

\* A check, the token, the network, the parser, a comparison, or cancellation ends
\* the load: what its family has cached goes with it.
Fail(l) ==
  /\ load[l].pc \in Active
  /\ load' = [load EXCEPT ![l] = Over(l)]
  /\ slot' = IF slot = l THEN NoLoad ELSE slot
  /\ cancelled' = cancelled \ {l}
  /\ Become(Discarded(Caches, load[l].family))
  /\ UNCHANGED <<sourceVars, endVars>>

Enter(l) ==
  /\ At(l, "waiting")
  /\ slot = NoLoad
  /\ Allowed(load[l].family)
  /\ slot' = l
  /\ load' = [load EXCEPT ![l].pc = IF load[l].marker = 0 THEN "marking" ELSE "downloading"]
  /\ UNCHANGED <<sourceVars, endVars, cancelled, cacheVars>>

Mark(l) ==
  /\ At(l, "marking")
  /\ Allowed(load[l].family)
  /\ load' = [load EXCEPT ![l].pc = "downloading", ![l].marker = marker]
  /\ UNCHANGED <<sourceVars, endVars, slot, cancelled, cacheVars>>

\* Mutant of Sharing: the marker vouches for the content.
SharingByMarker(c, x, m) == {g \in Families : c.entry[g].marker = m}

\* Families whose snapshot was parsed from the same bytes.
Sharing(c, x, m) == {g \in Families : c.entry[g] # Vacant /\ c.content[g] = x}

\* The bytes are the caller's own; what its family has of other bytes or of
\* another marker is dropped, and the content index is asked for these.
Download(l) ==
  LET f == load[l].family
      x == served[f]
      stale == Cached(f) /\ (entry[f].marker # load[l].marker \/ content[f] # x)
      c == IF stale THEN Discarded(Caches, f) ELSE Caches
      sharing == Sharing(c, x, load[l].marker)
  IN  /\ At(l, "downloading")
      /\ Allowed(f)
      /\ Become(c)
      /\ IF sharing = {}
         THEN load' = [load EXCEPT ![l].pc = "parsing", ![l].own = x]
         ELSE \E g \in sharing :
                load' = [load EXCEPT ![l].pc = "again", ![l].own = x,
                                     ![l].shared = c.entry[g].content]
      /\ UNCHANGED <<sourceVars, endVars, slot, cancelled>>

Parse(l) ==
  /\ At(l, "parsing")
  /\ Allowed(load[l].family)
  /\ load' = [load EXCEPT ![l].pc = "again", ![l].shared = load[l].own]
  /\ UNCHANGED <<sourceVars, endVars, slot, cancelled, cacheVars>>

\* The marker has been read again and is the same.
Publish(l) ==
  /\ At(l, "again")
  /\ marker = load[l].marker
  /\ Allowed(load[l].family)
  /\ \E viewed \in BOOLEAN :
       Become(Published(Caches, load[l].family, load[l].shared, marker, viewed))
  /\ load' = [load EXCEPT ![l] = [@ EXCEPT !.pc = "over", !.result = load[l].shared]]
  /\ slot' = NoLoad
  /\ UNCHANGED <<sourceVars, endVars, cancelled>>

-------------------------------------------------------------------------------
(***************************************************************************)
(* The Miniserver, and the end of families and of the service.             *)
(***************************************************************************)

\* The project is saved anew, or what a user may see of it changes under the
\* same marker.
Edit(f, x) ==
  /\ served' = [served EXCEPT ![f] = x]
  /\ marker' \in {marker, marker + 1}
  /\ marker' <= Markers
  /\ UNCHANGED <<endVars, slot, load, cancelled, cacheVars>>

EndGrant(f) ==
  /\ grant[f]
  /\ grant' = [grant EXCEPT ![f] = FALSE]
  /\ UNCHANGED <<sourceVars, revoking, closing, slot, load, cancelled, cacheVars>>

Invalidate(f) ==
  /\ known[f] # 0
  /\ Become(Discarded(Caches, f))
  /\ UNCHANGED <<sourceVars, endVars, slot, load, cancelled>>

LoadsOf(f) == {l \in Loads : load[l].pc \in Active /\ load[l].family = f}

\* Mutant of Revoke: the loads are cancelled, and clean up for themselves.
RevokeCancels(f) ==
  /\ ~ grant[f]
  /\ revoking[f] = "no"
  /\ revoking' = [revoking EXCEPT ![f] = "waiting"]
  /\ cancelled' = cancelled \cup LoadsOf(f)
  /\ UNCHANGED <<sourceVars, grant, closing, slot, load, cacheVars>>

Revoke(f) ==
  /\ ~ grant[f]
  /\ revoking[f] = "no"
  /\ revoking' = [revoking EXCEPT ![f] = "waiting"]
  /\ cancelled' = cancelled \cup LoadsOf(f)
  /\ Become(Discarded(Caches, f))
  /\ UNCHANGED <<sourceVars, grant, closing, slot, load>>

Revoked(f) ==
  /\ revoking[f] = "waiting"
  /\ LoadsOf(f) \cap cancelled = {}
  /\ revoking' = [revoking EXCEPT ![f] = "done"]
  /\ UNCHANGED <<sourceVars, grant, closing, slot, load, cancelled, cacheVars>>

Close ==
  /\ closing = "no"
  /\ closing' = "waiting"
  /\ cancelled' = cancelled \cup {l \in Loads : load[l].pc \in Active}
  /\ entry' = [f \in Families |-> Vacant]
  /\ order' = <<>>
  /\ known' = [f \in Families |-> 0]
  /\ content' = [f \in Families |-> NoContent]
  /\ view' = [f \in Families |-> NoContent]
  /\ UNCHANGED <<sourceVars, grant, revoking, slot, load>>

Closed ==
  /\ closing = "waiting"
  /\ cancelled = {}
  /\ closing' = "done"
  /\ UNCHANGED <<sourceVars, grant, revoking, slot, load, cancelled, cacheVars>>

Next ==
  \/ \E l \in Loads :
       \/ \E f \in Families, m \in 0..Markers : Begin(l, f, m)
       \/ Fail(l) \/ Enter(l) \/ Mark(l) \/ Download(l) \/ Parse(l) \/ Publish(l)
  \/ \E f \in Families :
       \/ \E x \in Contents : Edit(f, x)
       \/ EndGrant(f) \/ Invalidate(f) \/ Revoke(f) \/ Revoked(f)
  \/ Close \/ Closed

Spec == Init /\ [][Next]_vars

-------------------------------------------------------------------------------
(***************************************************************************)
(* Properties.                                                             *)
(***************************************************************************)

\* Besides the types: the parts of the cache belong together, within its bounds.
TypeOK ==
  /\ marker \in 1..Markers
  /\ slot = NoLoad \/ load[slot].pc \in Active \ {"waiting"}
  /\ \A l \in Loads : load[l].pc \in Active \cup {"new", "over"}
  /\ ToSet(order) = {f \in Families : Cached(f)} /\ Len(order) = Cardinality(ToSet(order))
  /\ Fits(Caches, ToSet(order))
  /\ \A f \in Families :
       /\ Cached(f) => known[f] = entry[f].marker /\ content[f] = entry[f].content
       /\ ~ Cached(f) => content[f] = NoContent /\ view[f] = NoContent

\* "A marker, a visible structure or another family's cached graph cannot prove
\* current project-read permission" (project-family-deduplication.md:11): what a
\* load returns is what its own token downloaded, and a cached view belongs to
\* what its family has downloaded last.
ResultIsOwn ==
  /\ \A l \in Loads : load[l].result \in {NoContent, load[l].own}
  /\ \A f \in Families : view[f] \in {NoContent, content[f]}

\* When revoke or close is done, no load that was on its way brings anything of
\* the family back.
NothingComesBack ==
  \A f \in Families : revoking[f] = "done" \/ closing = "done" =>
    ~ Cached(f) /\ known[f] = 0 /\ content[f] = NoContent /\ view[f] = NoContent

-------------------------------------------------------------------------------
(***************************************************************************)
(* Why it holds: what the theorems about it rest on.                       *)
(***************************************************************************)

CachedEntries == [marker : Nat, content : Contents] \cup {Vacant}
Keys == Contents \cup {NoContent}
LoadRecords ==
  [pc : Active \cup {"new", "over"}, family : Families \cup {NoFamily}, marker : Nat,
   own : Keys, shared : Keys, result : Keys]

ProjectTypes ==
  /\ marker \in Nat \ {0}
  /\ served \in [Families -> Contents]
  /\ grant \in [Families -> BOOLEAN]
  /\ revoking \in [Families -> {"no", "waiting", "done"}]
  /\ load \in [Loads -> LoadRecords]
  /\ \A l \in Loads : load[l].pc \in Active => load[l].family \in Families
  /\ entry \in [Families -> CachedEntries]
  /\ content \in [Families -> Keys] /\ view \in [Families -> Keys]
  /\ known \in [Families -> Nat]

\* The index of contents and the views go with the entries.
CachesAgree ==
  \A f \in Families :
    /\ Cached(f) => content[f] = entry[f].content
    /\ ~ Cached(f) => content[f] = NoContent /\ view[f] = NoContent
    /\ view[f] \in {NoContent, content[f]}

\* One load at a time is past the slot, and whatever its family has cached is of the
\* bytes it has downloaded.
Inside == Active \ {"waiting"}
OneInside == \A l \in Loads : load[l].pc \in Inside => slot = l
KnowsItsOwn ==
  \A l \in Loads :
    /\ load[l].result \in {NoContent, load[l].own}
    /\ load[l].pc # "over" => load[l].result = NoContent
    /\ load[l].pc = "again" => load[l].shared = load[l].own
    /\ load[l].pc \in {"parsing", "again"} =>
         load[l].own \in Contents /\ content[load[l].family] \in {NoContent, load[l].own}

ResultInv == ProjectTypes /\ CachesAgree /\ OneInside /\ KnowsItsOwn

\* Whoever is being revoked has no access, and nothing cached; nor has anyone while
\* the service closes.
Ending(f) == revoking[f] # "no" \/ closing # "no"
EndedHasNothing ==
  \A f \in Families :
    /\ revoking[f] # "no" => ~ grant[f]
    /\ Ending(f) => ~ Cached(f) /\ known[f] = 0 /\ content[f] = NoContent /\ view[f] = NoContent

EndInv == ResultInv /\ EndedHasNothing
===============================================================================
