--------------------------- MODULE SnapshotIndexes ---------------------------
(***************************************************************************)
(* The derived indexes of a search snapshot (core/src/index_store.rs): the  *)
(* slot of each persistent id, name and metadata postings, numeric columns, *)
(* the name and path orders, the set of path ties and the cached result     *)
(* orders.  A publication does not rebuild them: apply_changes edits only   *)
(* what a delta can have moved, on entries that keep the rows of deleted    *)
(* slots, until enough slots are dead for remap_changes to compact them.    *)
(*                                                                         *)
(* A row is its id, path, size and kind.  Names, natural (folded) keys and  *)
(* postings' terms are functions of the path, because a name is the last    *)
(* component of its path; raw paths are numbers in raw path order.          *)
(***************************************************************************)
EXTENDS Naturals, Sequences, FiniteSets, SequencesExt, FiniteSetsExt, Functions

CONSTANTS
    RawPaths,       \* raw paths, numbered in raw order
    NameOf,         \* [RawPaths -> names], the last component
    NameKey,        \* [RawPaths -> Nat], the folded name's natural rank
    PathKey,        \* [RawPaths -> Nat], the folded path's natural rank
    NameTerms,      \* [RawPaths -> SUBSET terms], bytes, pairs, trigrams, extension
    Sizes,          \* file sizes
    DeltaScopes,    \* bounds: the ids, sizes and kinds of rows, and rows in one delta
    OrderSpecs,     \* result orders a query may ask for
    BlockEntries,   \* BLOCK_ENTRIES of the numeric columns
    DeadSlack,      \* the 10_000 inactive slots tolerated before compaction
    NoRow           \* the replacement of a deleted row

VARIABLES
    snap,           \* the published snapshot
    scope           \* the member of DeltaScopes this behaviour is bounded by

TermsOf(row) == NameTerms[row.path] \cup (IF row.dir THEN {"dir"} ELSE {})

AllTerms == UNION Range(NameTerms) \cup {"dir"}

-----------------------------------------------------------------------------
(* ResultOrder::compare: the descriptors in turn, then raw path, then id.  *)

FieldKey(field, row) ==
    CASE field = "name" -> NameKey[row.path]
      [] field = "path" -> PathKey[row.path]
      [] field = "size" -> row.size
      [] field = "is_dir" -> IF row.dir THEN 1 ELSE 0

Precedes(spec, a, b) ==
    LET differing == {i \in DOMAIN spec :
                        FieldKey(spec[i].field, a) # FieldKey(spec[i].field, b)}
        i == Min(differing)
    IN  IF differing = {}
        THEN a.path < b.path \/ (a.path = b.path /\ a.id < b.id)
        ELSE spec[i].ascending <=>
                FieldKey(spec[i].field, a) < FieldKey(spec[i].field, b)

NameSpec == << [field |-> "name", ascending |-> TRUE] >>
PathSpec == << [field |-> "path", ascending |-> TRUE] >>

Sorted(entries, slots, spec) ==
    SetToSortSeq(slots, LAMBDA a, b : Precedes(spec, entries[a], entries[b]))

\* ResultOrder::affected_by_change compares raw fields, and the path for the fallback.
AffectedByChange(spec, old, new) ==
    \/ old.path # new.path
    \/ \E i \in DOMAIN spec :
        CASE spec[i].field = "name" -> NameOf[old.path] # NameOf[new.path]
          [] spec[i].field = "path" -> FALSE
          [] spec[i].field = "size" -> old.size # new.size
          [] spec[i].field = "is_dir" -> old.dir # new.dir

PrimaryPath(spec) == spec # << >> /\ spec[1].field = "path"

-----------------------------------------------------------------------------
(* updated_order: drop the changed slots, then insert the live ones of them *)
(* by partition point among the entries that stayed.                        *)

InsertOrdered(entries, spec, order, slot) ==
    LET after == {i \in DOMAIN order : Precedes(spec, entries[slot], entries[order[i]])}
        at == Min(after \cup {Len(order) + 1})
    IN  InsertAt(order, at, slot)

UpdatedOrder(order, changed, live, entries, spec) ==
    FoldLeft(LAMBDA kept, slot : InsertOrdered(entries, spec, kept, slot),
             SelectSeq(order, LAMBDA slot : slot \notin changed),
             Sorted(entries, changed \cap live, spec))

SameNaturalPath(entries, a, b) == PathKey[entries[a].path] = PathKey[entries[b].path]

PositionOf(order, slot) == {i \in DOMAIN order : order[i] = slot}

Neighbours(order, slot) ==
    {order[j] : j \in {j \in DOMAIN order :
        \E i \in PositionOf(order, slot) : j \in {i - 1, i, i + 1}}}

TiedIn(entries, order, slot) ==
    \E other \in Neighbours(order, slot) \ {slot} : SameNaturalPath(entries, slot, other)

TiesOf(entries, order) == {slot \in Range(order) : TiedIn(entries, order, slot)}

\* Mutant: only the changed slots are looked at again, not those they were next to.
PathTiesOfChanged(previous, changed, live, entries, order) ==
    (previous.pathTies \ changed)
        \cup {slot \in changed \cap live : TiedIn(entries, order, slot)}

\* updated_path_ties looks again only at the changed slots and their old and new neighbours.
UpdatedPathTies(previous, changed, live, entries, order) ==
    LET candidates == changed \cup UNION {Neighbours(previous.pathOrder, slot)
                                            \cup Neighbours(order, slot) : slot \in changed}
    IN  (previous.pathTies \ candidates)
          \cup {slot \in candidates \cap live : TiedIn(entries, order, slot)}

-----------------------------------------------------------------------------
(* FileSlots: an increasing-id prefix of the entries, and exceptions.       *)

LookupSlot(slots, entries, id) ==
    LET prefix == {s \in 1..slots.prefix : entries[s].id = id}
    IN  IF prefix # {} THEN prefix
        ELSE IF id \in DOMAIN slots.exceptions THEN {slots.exceptions[id]} ELSE {}

AppendSlot(slots, entries, id, length) ==
    IF slots.prefix = length /\ (length = 0 \/ entries[length].id < id)
    THEN [slots EXCEPT !.prefix = length + 1]
    ELSE [slots EXCEPT !.exceptions = (id :> length + 1) @@ @]

SlotsOf(entries) ==
    FoldLeftDomain(LAMBDA slots, s : AppendSlot(slots, entries, entries[s].id, s - 1),
                   [prefix |-> 0, exceptions |-> << >>], entries)

-----------------------------------------------------------------------------
(* NumericColumns: which slots have a size, and bounds of each block.       *)

KnownSizes(entries) == {s \in DOMAIN entries : ~entries[s].dir}

BlockOf(slot) == (slot - 1) \div BlockEntries

BlockBounds(entries, block) ==
    LET values == {entries[s].size : s \in {s \in KnownSizes(entries) : BlockOf(s) = block}}
    IN  IF values = {} THEN [min |-> 1, max |-> 0]
        ELSE [min |-> Min(values), max |-> Max(values)]

BlocksOf(entries) == [b \in {BlockOf(s) : s \in DOMAIN entries} |-> BlockBounds(entries, b)]

\* Column::range over the inclusive bounds: whole blocks are skipped or taken on their
\* bounds, the others are read value by value; `known` and `live` mask the result.
SizeRange(s, low, high, negate) ==
    LET inside == {slot \in DOMAIN s.entries :
            LET block == s.blocks[BlockOf(slot)]
            IN  /\ ~(block.min > block.max \/ block.max < low \/ block.min > high)
                /\ \/ block.min >= low /\ block.max <= high
                   \/ s.entries[slot].size \in low..high}
    IN  (IF negate THEN s.known \ inside ELSE inside \cap s.known) \cap s.live

-----------------------------------------------------------------------------
(* build_prepared_indexes, for a full load and for compaction.              *)

Build(entries) ==
    LET slots == DOMAIN entries
        pathOrder == Sorted(entries, slots, PathSpec)
    IN  [entries |-> entries, live |-> slots, slots |-> SlotsOf(entries),
         postings |-> [t \in AllTerms |-> {s \in slots : t \in TermsOf(entries[s])}],
         known |-> KnownSizes(entries), blocks |-> BlocksOf(entries),
         nameOrder |-> Sorted(entries, slots, NameSpec),
         pathOrder |-> pathOrder, pathTies |-> TiesOf(entries, pathOrder),
         cached |-> << >>]

\* MetadataPostings::update, insert and remove, and GramChanges::apply: the slot leaves
\* the terms only the old row has and joins those only the new one has.
MovePostings(postings, slot, before, after) ==
    [t \in AllTerms |->
        IF t \in before \ after THEN postings[t] \ {slot}
        ELSE IF t \in after \ before THEN postings[t] \cup {slot}
        ELSE postings[t]]

\* One iteration of the loop in apply_changes, for a slot that has an entry or a new one.
ReplaceRow(s, slot, isNew, row) ==
    LET wasLive == slot \in s.live
        old == s.entries[slot]
        entries == IF isNew THEN Append(s.entries, row) ELSE [s.entries EXCEPT ![slot] = row]
        renamed == ~wasLive \/ NameOf[old.path] # NameOf[row.path]
        moved == ~wasLive \/ old.path # row.path
        regrouped == renamed \/ old.dir # row.dir
        resized == isNew \/ old.size # row.size \/ old.dir # row.dir
        before == IF wasLive THEN TermsOf(old) ELSE {}
    IN  [s EXCEPT
            !.entries = entries,
            !.live = @ \cup {slot},
            !.postings = IF regrouped THEN MovePostings(@, slot, before, TermsOf(row)) ELSE @,
            !.known = IF ~resized THEN @ ELSE IF row.dir THEN @ \ {slot} ELSE @ \cup {slot},
            !.dirty = IF resized THEN @ \cup {BlockOf(slot)} ELSE @,
            !.changed = @ \cup {slot},
            !.pathChanges = IF moved THEN @ \cup {slot} ELSE @,
            !.nameChanges = IF renamed \/ moved THEN @ \cup {slot} ELSE @]

DeleteRow(s, slot) ==
    LET before == IF slot \in s.live THEN TermsOf(s.entries[slot]) ELSE {}
    IN  [s EXCEPT
            !.live = @ \ {slot},
            !.postings = MovePostings(@, slot, before, {}),
            !.changed = @ \cup {slot},
            !.pathChanges = @ \cup {slot},
            !.nameChanges = @ \cup {slot}]

ApplyChange(s, id, replacement) ==
    LET found == LookupSlot(s.slots, s.entries, id)
        slot == CHOOSE slot \in found : TRUE
        row == [id |-> id] @@ replacement
    IN  CASE replacement = NoRow /\ found = {} -> s
          [] replacement = NoRow /\ found # {} -> DeleteRow(s, slot)
          [] replacement # NoRow /\ found # {} -> ReplaceRow(s, slot, FALSE, row)
          [] OTHER -> ReplaceRow([s EXCEPT !.slots = AppendSlot(@, s.entries, id, Len(s.entries))],
                                 Len(s.entries) + 1, TRUE, row)

\* The cached orders whose rows or visibility moved are updated, the others shared.
CarryOrder(previous, s, spec, order) ==
    LET relevant == {slot \in s.changed :
            \/ (slot \in previous.live) # (slot \in s.live)
            \/ slot \notin DOMAIN previous.entries
            \/ AffectedByChange(spec, previous.entries[slot], s.entries[slot])}
    IN  UpdatedOrder(order, relevant, s.live, s.entries, spec)

ApplyChanges(previous, changes) ==
    LET start == previous @@ [changed |-> {}, pathChanges |-> {}, nameChanges |-> {},
                              dirty |-> {}]
        s == FoldLeft(LAMBDA t, id : ApplyChange(t, id, changes[id]), start,
                      SetToSortSeq(DOMAIN changes, <))
        pathOrder == UpdatedOrder(previous.pathOrder, s.pathChanges, s.live, s.entries, PathSpec)
    IN  [entries |-> s.entries, live |-> s.live, slots |-> s.slots,
         postings |-> s.postings, known |-> s.known,
         blocks |-> [b \in {BlockOf(slot) : slot \in DOMAIN s.entries} |->
                        IF b \in s.dirty \/ b \notin DOMAIN previous.blocks
                        THEN BlockBounds(s.entries, b) ELSE previous.blocks[b]],
         nameOrder |-> UpdatedOrder(previous.nameOrder, s.nameChanges, s.live, s.entries, NameSpec),
         pathOrder |-> pathOrder,
         pathTies |-> IF s.pathChanges = {} THEN previous.pathTies
                      ELSE UpdatedPathTies(previous, s.pathChanges, s.live, s.entries, pathOrder),
         cached |-> [spec \in DOMAIN previous.cached |->
                        CarryOrder(previous, s, spec, previous.cached[spec])]]

\* remap_changes: live rows merged with the replacements, in id order.
RemapChanges(previous, changes) ==
    LET live == {previous.entries[s] : s \in previous.live}
        kept == {row \in live : row.id \notin DOMAIN changes}
        put == {[id |-> id] @@ changes[id] : id \in {i \in DOMAIN changes : changes[i] # NoRow}}
    IN  Build(SetToSortSeq(kept \cup put, LAMBDA a, b : a.id < b.id))

TooManyDead(s) ==
    Len(s.entries) > Cardinality(s.live) + Cardinality(s.live) \div 4 + DeadSlack

-----------------------------------------------------------------------------
(* cached_order and result_order.                                           *)

\* The groups of equal natural path are refined by the whole comparison; the rest of the
\* path index is used as it is, reversed for a descending order.
RefineTies(s, spec) ==
    LET base == IF spec[1].ascending THEN s.pathOrder ELSE Reverse(s.pathOrder)
        group(slot) == {other \in s.pathTies : SameNaturalPath(s.entries, slot, other)}
        first(slot) == Min({i \in DOMAIN base : base[i] \in group(slot)})
    IN  [i \in DOMAIN base |->
            IF base[i] \notin s.pathTies THEN base[i]
            ELSE Sorted(s.entries, group(base[i]), spec)[i - first(base[i]) + 1]]

ComputeOrder(s, spec) ==
    IF PrimaryPath(spec) THEN RefineTies(s, spec) ELSE Sorted(s.entries, s.live, spec)

UsesPathOrder(s, spec) ==
    spec = PathSpec \/ (PrimaryPath(spec) /\ spec[1].ascending /\ s.pathTies = {})

ResultOrderOf(s, spec) ==
    CASE spec = NameSpec -> s.nameOrder
      [] UsesPathOrder(s, spec) -> s.pathOrder
      [] spec \in DOMAIN s.cached -> s.cached[spec]
      [] OTHER -> ComputeOrder(s, spec)

-----------------------------------------------------------------------------
TableOf(s) == [id \in {s.entries[slot].id : slot \in s.live} |->
    LET slot == CHOOSE slot \in s.live : s.entries[slot].id = id
    IN  [path |-> s.entries[slot].path, size |-> s.entries[slot].size,
         dir |-> s.entries[slot].dir]]

\* The committed table after a delta; its paths are UNIQUE.
Committed(table, changes) ==
    LET deleted == {id \in DOMAIN changes : changes[id] = NoRow}
    IN  Restrict(changes @@ table, (DOMAIN table \cup DOMAIN changes) \ deleted)

Consistent(table) ==
    \A a, b \in DOMAIN table : table[a].path = table[b].path => a = b

Replacements ==
    {[path |-> p] @@ a : p \in RawPaths, a \in scope.attributes} \cup {NoRow}

\* What the journal holds: the current row of each id touched, or that it has none.
Deltas ==
    UNION {[ids -> Replacements] :
            ids \in {ids \in SUBSET scope.ids : Cardinality(ids) \in 1..scope.delta}}

SnapshotInit == snap = Build(<< >>) /\ scope \in DeltaScopes

\* A publication of a delta, which may name rows it does not change.
Publish ==
    \E changes \in Deltas :
        /\ Consistent(Committed(TableOf(snap), changes))
        /\ snap' = IF TooManyDead(snap) THEN RemapChanges(snap, changes)
                   ELSE ApplyChanges(snap, changes)
        /\ UNCHANGED scope

\* A query computes an order that neither an index nor the cache holds, and caches it.
CacheOrder ==
    \E spec \in OrderSpecs :
        /\ spec # NameSpec /\ ~UsesPathOrder(snap, spec) /\ spec \notin DOMAIN snap.cached
        /\ snap' = [snap EXCEPT !.cached = (spec :> ComputeOrder(snap, spec)) @@ @]
        /\ UNCHANGED scope

SnapshotNext == Publish \/ CacheOrder

-----------------------------------------------------------------------------
(* IndexesStayExact: after any deltas, the order a query would page through *)
(* is exactly the live rows sorted from nothing by its comparison, for the  *)
(* name and path indexes, the orders carried over from an earlier           *)
(* snapshot's cache and those refined from the path ties; every persistent  *)
(* id is found at the slot of its row, each posting masked by visibility    *)
(* holds exactly the live rows with the term, and a size range answers      *)
(* exactly the files in it, whichever blocks it skips or takes whole.       *)
IndexesStayExact ==
    /\ \A spec \in OrderSpecs \cup {NameSpec, PathSpec} :
        ResultOrderOf(snap, spec) = Sorted(snap.entries, snap.live, spec)
    /\ \A slot \in DOMAIN snap.entries :
        LookupSlot(snap.slots, snap.entries, snap.entries[slot].id) = {slot}
    /\ \A t \in AllTerms :
        snap.postings[t] \cap snap.live = {s \in snap.live : t \in TermsOf(snap.entries[s])}
    /\ \A low, high \in Sizes, negate \in BOOLEAN :
        SizeRange(snap, low, high, negate) =
            {s \in snap.live : /\ ~snap.entries[s].dir
                               /\ (snap.entries[s].size \in low..high) # negate}
=============================================================================
