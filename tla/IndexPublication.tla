-------------------------- MODULE IndexPublication --------------------------
(***************************************************************************)
(* How APFSearch turns committed SQLite rows into the immutable snapshot   *)
(* that queries read, and how it recovers that snapshot after a crash      *)
(* (core/src/lib.rs, core/src/index_store.rs, core/src/cache_journal.rs).  *)
(*                                                                         *)
(* Three copies of the same rows exist: the SQLite tables (db), the        *)
(* snapshot in memory (published), and the prepared cache on disk          *)
(* (manifest).  Two changed-id journals, both maintained by triggers, tie  *)
(* them together: snapshot_changes says what the published snapshot is     *)
(* missing, cache_changes what the prepared cache is missing.  Writers     *)
(* commit between any two steps of a refresh, except while the refresh     *)
(* holds the store mutex; the process or the machine may fail at any step. *)
(***************************************************************************)
EXTENDS Integers, FiniteSets

CONSTANTS
    Ids,              \* primary keys of the files table
    Versions,         \* metadata a files row may hold
    Bodies,           \* extracted text a content row may hold
    Absent, Denied,   \* no files row; a files row with accessible=0
    NoContent,        \* no content row
    NoManifest,       \* no readable prepared cache on disk
    LimitFloor,       \* 2000 in SearchSnapshot::incremental_limit
    LimitFraction,    \* 8 in SearchSnapshot::incremental_limit
    MaxIds,           \* cache_journal::MAX_IDS
    MaxRevision,      \* bound: number of committed search changes
    Faults,           \* which of the FaultKinds happen
    MaxFaults         \* bound: how many of them

FaultKinds == {"error", "crash", "power", "cache"}

ASSUME BoundsAssumption ==
    /\ Faults \subseteq FaultKinds
    /\ LimitFloor \in Nat /\ MaxIds \in Nat
    /\ LimitFraction \in Nat \ {0}
    /\ MaxRevision \in Nat /\ MaxFaults \in Nat

ASSUME SentinelAssumption ==
    /\ IsFiniteSet(Ids)
    /\ Absent \notin Versions /\ Denied \notin Versions /\ Absent # Denied
    /\ NoContent \notin Bodies

VARIABLES
    db,          \* the committed SQLite state
    durable,     \* the committed state a power loss falls back to
    manifest,    \* the prepared cache file
    published,   \* snapshot, generation and published_revision in memory
    pc,          \* where the holder of refresh_lock is; "down": no engine
    caller,      \* why the running refresh was called
    delta,       \* the changed rows read by the running refresh
    next,        \* the snapshot the running refresh builds or persists
    written,     \* whether snapshot_cache::write succeeded
    needsRebuild,\* the needs_cache_rebuild flag
    recheck,     \* rebuild_missing_cache is past its refresh
    faults       \* how many faults have happened

memory == <<published, pc, caller, delta, next, written, needsRebuild, recheck>>
vars == <<db, durable, manifest, memory, faults>>

-----------------------------------------------------------------------------
(* Rows, snapshots and the database.                                       *)

NoRevision == -1   \* a settings key that was never written

\* What the snapshot query selects for one id: the row's metadata and whether
\* a content row joins it.  Bodies are not part of a snapshot.
Row == {Absent} \cup (Versions \X BOOLEAN)
Rows == [Ids -> Row]

Content == [Ids -> Bodies \cup {NoContent}]

\* "... WHERE f.accessible=1": deleted and denied rows are left out.
Visible(files, content) ==
    [i \in Ids |-> IF files[i] \in Versions
                     THEN <<files[i], content[i] # NoContent>>
                     ELSE Absent]

\* Ghost: what was committed at one revision.
Commit == [rows : Rows, contentRevision : Nat, content : Content]

Database ==
    [files : [Ids -> Versions \cup {Absent, Denied}],
     content : Content,
     revision : 0..MaxRevision,
     contentRevision : Nat,
     generation : Nat,
     changesBase : Nat \cup {NoRevision},      \* changes_base_revision
     snapshotChanges : SUBSET Ids,
     baseGeneration : Nat \cup {NoRevision},   \* cache_base_generation
     baseRevision : Nat \cup {NoRevision},     \* cache_base_revision
     cacheChanges : SUBSET Ids,
     overflow : BOOLEAN,                       \* cache_journal_overflow
     dirty : BOOLEAN,                          \* cache_dirty
     history : [0..MaxRevision -> Commit]]     \* ghost

CurrentRows(d) == Visible(d.files, d.content)

CommitOf(d) == [rows |-> CurrentRows(d), contentRevision |-> d.contentRevision,
                content |-> d.content]

Snapshot == [rows : Rows, generation : Nat, revision : 0..MaxRevision,
             contentRevision : Nat]

Manifest == [rows : Rows, generation : Nat, revision : 0..MaxRevision]

NoRows == [i \in Ids |-> Absent]
NoSnapshot == [rows |-> NoRows, generation |-> 0, revision |-> 0, contentRevision |-> 0]
NoDelta == [ids |-> {}, rows |-> NoRows]

EmptyDatabase ==
    LET none == [i \in Ids |-> NoContent]
    IN  [files |-> NoRows, content |-> none,
         revision |-> 0, contentRevision |-> 0, generation |-> 0,
         changesBase |-> NoRevision, snapshotChanges |-> {},
         baseGeneration |-> NoRevision, baseRevision |-> NoRevision,
         cacheChanges |-> {}, overflow |-> FALSE, dirty |-> TRUE,
         history |-> [r \in 0..MaxRevision |->
                        [rows |-> NoRows, contentRevision |-> 0, content |-> none]]]

\* Replacing exactly the journaled ids; a tombstone is the row Absent.
ApplyChanges(rows, ids, replacement) ==
    [i \in Ids |-> IF i \in ids THEN replacement[i] ELSE rows[i]]

LiveCount(rows) == Cardinality({i \in Ids : rows[i] # Absent})

IncrementalLimit(count) ==
    IF count \div LimitFraction > LimitFloor THEN count \div LimitFraction ELSE LimitFloor

\* change_reader::read: an empty journal or one past the limit yields nothing.
Readable(ids, limit) == ids # {} /\ Cardinality(ids) <= limit

\* Faults are bounded, by kind and in number.
Fails(kind) ==
    /\ kind \in Faults
    /\ faults < MaxFaults /\ faults' = faults + 1

-----------------------------------------------------------------------------
(* Write transactions.  The triggers journal every touched id, the counter *)
(* trigger gives up on a full cache journal, and mark_search_changed bumps *)
(* the revision, all in the writer's own transaction.                      *)

\* Mutant: a full journal is emptied without marking its history incomplete.
JournalForgetsOverflow(d, ids) ==
    LET pending == d.cacheChanges \cup ids
    IN  IF d.baseRevision = NoRevision
          THEN [ids |-> d.cacheChanges, overflow |-> FALSE]
          ELSE [ids |-> IF Cardinality(pending) > MaxIds THEN {} ELSE pending,
                overflow |-> FALSE]

JournalCacheChange(d, ids) ==
    LET pending == d.cacheChanges \cup ids
    IN  IF d.baseRevision = NoRevision \/ d.overflow
          THEN [ids |-> d.cacheChanges, overflow |-> d.overflow]
          ELSE IF Cardinality(pending) > MaxIds
                 THEN [ids |-> {}, overflow |-> TRUE]
                 ELSE [ids |-> pending, overflow |-> FALSE]

\* Mutant: only written text counts, not text deleted with its file.
EditsWithoutDeletes(d, content) ==
    Cardinality({i \in Ids : content[i] # d.content[i] /\ content[i] # NoContent})

\* The content triggers: one content_revision step per row they fire for.
ContentEdits(d, content) == Cardinality({i \in Ids : content[i] # d.content[i]})

\* The database after a transaction that leaves files and content and whose
\* triggers fired for the ids in touched.
SearchChanged(d, files, content, touched) ==
    LET journal == JournalCacheChange(d, touched)
        contentRevision == d.contentRevision + ContentEdits(d, content)
    IN  [files |-> files, content |-> content,
         revision |-> d.revision + 1, contentRevision |-> contentRevision,
         generation |-> d.generation,
         changesBase |-> d.changesBase,
         snapshotChanges |-> d.snapshotChanges \cup touched,
         baseGeneration |-> d.baseGeneration, baseRevision |-> d.baseRevision,
         cacheChanges |-> journal.ids, overflow |-> journal.overflow,
         dirty |-> TRUE,
         history |-> [d.history EXCEPT ![d.revision + 1] =
                        [rows |-> Visible(files, content),
                         contentRevision |-> contentRevision, content |-> content]]]

Touched(d, files, content) ==
    {i \in Ids : files[i] # d.files[i] \/ content[i] # d.content[i]}

\* No writer runs while a refresh holds the store mutex between storing the
\* generation and clearing the journal, nor before the engine is open.
StoreFree == pc \notin {"down", "opening", "clear"}

Write(files, content, touched) ==
    /\ StoreFree
    /\ db.revision < MaxRevision
    /\ db' = SearchChanged(db, files, content, touched)
    /\ UNCHANGED <<durable, manifest, memory, faults>>

\* One reconciliation batch: rows are inserted, updated or made accessible
\* again, failed aliases are denied, vanished aliases deleted.  A changed
\* file loses its extracted text unless only its name or flags changed.
Batch ==
    \E files \in [Ids -> Versions \cup {Absent, Denied}], kept \in SUBSET Ids :
        LET content == [i \in Ids |->
                          IF \/ files[i] = Absent
                             \/ files[i] \in Versions /\ files[i] # db.files[i] /\ i \notin kept
                            THEN NoContent ELSE db.content[i]]
        IN  /\ \A i \in Ids : db.files[i] = Absent => files[i] # Denied
            /\ files # db.files
            /\ Write(files, content, Touched(db, files, content))

\* The end of a pass: uncovered rows are denied, unobserved rows deleted, and
\* their text goes with them (ON DELETE CASCADE).
FinishObserved ==
    \E uncovered \in SUBSET Ids : \E removed \in SUBSET (Ids \ uncovered) :
        LET files == [i \in Ids |->
                        IF i \in removed THEN Absent
                        ELSE IF i \in uncovered /\ db.files[i] # Absent THEN Denied
                        ELSE db.files[i]]
            content == [i \in Ids |-> IF i \in removed THEN NoContent ELSE db.content[i]]
        IN  /\ files # db.files
            /\ Write(files, content, Touched(db, files, content))

\* retain_roots, clear and prune_namespace_scopes only delete rows.
RemoveRows ==
    \E removed \in SUBSET {i \in Ids : db.files[i] # Absent} :
        LET files == [i \in Ids |-> IF i \in removed THEN Absent ELSE db.files[i]]
            content == [i \in Ids |-> IF i \in removed THEN NoContent ELSE db.content[i]]
        IN  removed # {} /\ Write(files, content, removed)

PutContent ==
    \E i \in Ids, body \in Bodies :
        /\ db.files[i] # Absent
        /\ db.content[i] # body
        /\ Write(db.files, [db.content EXCEPT ![i] = body], {i})

\* The last chunk of an offline list replaces every row.  Its revision bump is
\* unconditional: an empty list over an empty index touches no id at all.
FinishFileListImport ==
    \E files \in [Ids -> Versions \cup {Absent}] :
        LET content == [i \in Ids |-> NoContent]
        IN  Write(files, content,
                  {i \in Ids : db.files[i] # Absent \/ files[i] # Absent})

-----------------------------------------------------------------------------
(* Database operations of the publisher.                                   *)

\* Mutant: the journal is consumed even if a writer moved the revision.
ClearChangesAlways(d, revision) ==
    [d EXCEPT !.snapshotChanges = {}, !.changesBase = revision]

\* clear_changes: a no-op when a writer moved the revision.
ClearChanges(d, revision) ==
    IF d.revision = revision
      THEN [d EXCEPT !.snapshotChanges = {}, !.changesBase = revision]
      ELSE d

\* Mutant: a writer that committed during the encoding is not noticed.
CheckpointAlways(d, generation, revision) ==
    [d EXCEPT !.baseGeneration = generation, !.baseRevision = revision,
              !.overflow = FALSE, !.dirty = FALSE, !.cacheChanges = {}]

\* checkpoint_cache: the cache becomes the journal's base only if its revision
\* is still current.
CheckpointCache(d, generation, revision) ==
    IF d.revision = revision
      THEN [d EXCEPT !.baseGeneration = generation, !.baseRevision = revision,
                     !.overflow = FALSE, !.dirty = FALSE, !.cacheChanges = {}]
      ELSE d

\* Whether cache_read accepts the cache on disk for this database.
CacheAccepted(d, m) ==
    /\ d.baseRevision # NoRevision /\ d.baseGeneration # NoRevision
    /\ d.baseRevision <= d.revision
    /\ ~d.overflow
    /\ m # NoManifest
    /\ m.generation = d.baseGeneration
    /\ m.revision = d.baseRevision
    /\ d.revision # d.baseRevision => Readable(d.cacheChanges, MaxIds)

\* The rows cache_read returns: the cache as it is, or with its journal replayed.
CacheRows(d, m) ==
    IF d.revision = d.baseRevision
      THEN m.rows
      ELSE ApplyChanges(m.rows, d.cacheChanges, CurrentRows(d))

-----------------------------------------------------------------------------
(* SearchEngine::open.                                                     *)

\* A cache that cannot be used is dirty, even if no row changed since.
OpenedDatabase(d, cached) == IF cached THEN d ELSE [d EXCEPT !.dirty = TRUE]

\* Mutant: an accepted cache is served as it is, at its own revision.
OpenedWithoutReplay(d, m) ==
    LET cached == CacheAccepted(d, m)
        at == IF cached THEN d.baseRevision ELSE d.revision
    IN  [rows |-> IF cached THEN m.rows ELSE CurrentRows(d),
         generation |-> d.generation, revision |-> at,
         contentRevision |-> d.history[at].contentRevision]

\* The prepared cache brought up to date by its journal or, failing that, SQL.
OpenedSnapshot(d, m) ==
    [rows |-> IF CacheAccepted(d, m) THEN CacheRows(d, m) ELSE CurrentRows(d),
     generation |-> d.generation, revision |-> d.revision,
     contentRevision |-> d.contentRevision]

OpenRead ==
    /\ pc = "down"
    /\ pc' = "opening"
    /\ published' = OpenedSnapshot(db, manifest)
    /\ db' = OpenedDatabase(db, CacheAccepted(db, manifest))
    /\ needsRebuild' = (~CacheAccepted(db, manifest) /\ CurrentRows(db) # NoRows)
    /\ UNCHANGED <<durable, manifest, caller, delta, next, written, recheck, faults>>

OpenClear ==
    /\ pc = "opening"
    /\ db' = ClearChanges(db, published.revision)
    /\ pc' = "idle"
    /\ UNCHANGED <<durable, manifest, published, caller, delta, next, written,
                   needsRebuild, recheck, faults>>

-----------------------------------------------------------------------------
(* SearchEngine::refresh, one holder of refresh_lock at a time.            *)

\* A caller that does not want a cache ("publish"), one that does
\* ("baseline"), or rebuild_missing_cache taking its flag ("rebuild").
WantsCache == caller # "publish"

Return ==
    /\ pc' = "idle"
    /\ recheck' = (recheck \/ caller = "rebuild")
    /\ caller' = "none" /\ delta' = NoDelta /\ next' = NoSnapshot /\ written' = FALSE

\* changes_since and its limit: the journal starts at the published revision
\* and holds some, but not too many, ids.
DeltaKnown ==
    /\ db.changesBase = published.revision
    /\ Readable(db.snapshotChanges, IncrementalLimit(LiveCount(published.rows)))

\* Mutant: a refresh without a usable journal has nothing to do.
StaleByJournal == db.revision # published.revision /\ DeltaKnown

Stale == db.revision # published.revision

\* Taking refresh_lock and reading the revision under the store mutex.
RefreshEnter(who) ==
    /\ pc = "idle"
    /\ who = "rebuild" => needsRebuild
    /\ needsRebuild' = IF who = "rebuild" THEN FALSE ELSE needsRebuild
    /\ UNCHANGED <<db, durable, manifest, published, written, faults>>

\* The snapshot is current; at most the cache has to be written.
RefreshCurrent(who) ==
    /\ RefreshEnter(who)
    /\ ~Stale
    /\ \/ /\ who # "publish" /\ db.dirty
          /\ pc' = "check" /\ caller' = who /\ next' = published
          /\ UNCHANGED <<delta, recheck>>
       \/ /\ who = "publish" \/ ~db.dirty
          /\ recheck' = (recheck \/ who = "rebuild")
          /\ UNCHANGED <<pc, caller, delta, next>>

\* The first critical section reads the delta and both revisions together.
RefreshStale(who) ==
    /\ RefreshEnter(who)
    /\ Stale
    /\ caller' = who
    /\ next' = [published EXCEPT !.generation = @ + 1, !.revision = db.revision,
                                 !.contentRevision = db.contentRevision]
    /\ \/ /\ DeltaKnown
          /\ pc' = "delta"
          /\ delta' = [ids |-> db.snapshotChanges, rows |-> CurrentRows(db)]
       \/ /\ ~DeltaKnown
          /\ pc' = "full" /\ UNCHANGED delta
    /\ UNCHANGED recheck

\* Outside every lock: the delta is applied to the published snapshot (in
\* place or remapped onto compacted slots), or it turns out not to apply.
BuildIncremental ==
    /\ pc = "delta"
    /\ \/ /\ pc' = "built"
          /\ next' = [next EXCEPT !.rows =
                        ApplyChanges(published.rows, delta.ids, delta.rows)]
          /\ UNCHANGED faults
       \/ /\ Fails("error")
          /\ pc' = "full" /\ UNCHANGED next
    /\ delta' = NoDelta
    /\ UNCHANGED <<db, durable, manifest, published, caller, written, needsRebuild, recheck>>

\* snapshot_read: the complete rows and both revisions of one WAL view, which
\* may be newer than the revision the refresh started from.
BuildFull ==
    /\ pc = "full"
    /\ pc' = "built"
    /\ next' = [next EXCEPT !.rows = CurrentRows(db), !.revision = db.revision,
                            !.contentRevision = db.contentRevision]
    /\ UNCHANGED <<db, durable, manifest, published, caller, delta, written,
                   needsRebuild, recheck, faults>>

\* Mutant: the generation that is about to be replaced is stored.
StoreOldGeneration ==
    /\ pc = "built"
    /\ pc' = "clear"
    /\ db' = [db EXCEPT !.generation = published.generation]
    /\ UNCHANGED <<durable, manifest, published, caller, delta, next, written,
                   needsRebuild, recheck, faults>>

\* The second critical section stores the generation ...
StoreGeneration ==
    /\ pc = "built"
    /\ pc' = "clear"
    /\ db' = [db EXCEPT !.generation = next.generation]
    /\ UNCHANGED <<durable, manifest, published, caller, delta, next, written,
                   needsRebuild, recheck, faults>>

\* ... and consumes the journal if no writer got in between.
ClearJournal ==
    /\ pc = "clear"
    /\ pc' = "publish"
    /\ db' = ClearChanges(db, next.revision)
    /\ UNCHANGED <<durable, manifest, published, caller, delta, next, written,
                   needsRebuild, recheck, faults>>

\* Queries see the new snapshot from here on.
Publish ==
    /\ pc = "publish"
    /\ published' = next
    /\ IF WantsCache
         THEN pc' = "check" /\ UNCHANGED <<caller, delta, next, written, recheck>>
         ELSE Return
    /\ UNCHANGED <<db, durable, manifest, needsRebuild, faults>>

\* An SQL error in a refresh's own reads or writes leaves memory as it was.
RefreshFails ==
    /\ pc \in {"full", "built", "clear"}
    /\ Fails("error")
    /\ Return
    /\ UNCHANGED <<db, durable, manifest, published, needsRebuild>>

-----------------------------------------------------------------------------
(* persist_snapshot_cache_with.                                            *)

PersistCheck ==
    /\ pc = "check"
    /\ IF db.revision = next.revision
         THEN pc' = "write" /\ UNCHANGED <<caller, delta, next, written, recheck>>
         ELSE Return
    /\ UNCHANGED <<db, durable, manifest, published, needsRebuild, faults>>

\* snapshot_cache::write: sections, then the manifest's rename.  An error may
\* strike before the rename or after it.
WriteManifest ==
    /\ pc = "write"
    /\ pc' = "checkpoint"
    /\ \/ /\ written' = TRUE /\ UNCHANGED faults
          /\ manifest' = [rows |-> next.rows, generation |-> next.generation,
                          revision |-> next.revision]
       \/ /\ written' = FALSE /\ Fails("error")
          /\ manifest' \in {manifest, [rows |-> next.rows, generation |-> next.generation,
                                       revision |-> next.revision]}
    /\ UNCHANGED <<db, durable, published, caller, delta, next, needsRebuild, recheck>>

Checkpoint ==
    /\ pc = "checkpoint"
    /\ db' = IF written THEN CheckpointCache(db, next.generation, next.revision)
             ELSE [db EXCEPT !.dirty = TRUE]
    /\ Return
    /\ UNCHANGED <<durable, manifest, published, needsRebuild, faults>>

\* rebuild_missing_cache looks at the dirty flag again after its refresh.
RebuildRecheck ==
    /\ recheck
    /\ pc # "clear"
    /\ recheck' = FALSE
    /\ needsRebuild' = (needsRebuild \/ db.dirty)
    /\ UNCHANGED <<db, durable, manifest, published, pc, caller, delta, next, written, faults>>

-----------------------------------------------------------------------------
(* Failures.                                                               *)

ForgetMemory ==
    /\ pc' = "down"
    /\ published' = NoSnapshot /\ next' = NoSnapshot /\ delta' = NoDelta
    /\ caller' = "none" /\ written' = FALSE /\ needsRebuild' = FALSE /\ recheck' = FALSE

\* The process ends anywhere; SQLite keeps every committed transaction.
Crash ==
    /\ pc # "down"
    /\ Fails("crash")
    /\ ForgetMemory
    /\ UNCHANGED <<db, durable, manifest>>

\* With synchronous=NORMAL the machine may lose the newest transactions, but
\* keeps a prefix of them.  The renamed manifest was fully synced.
PowerLoss ==
    /\ Fails("power")
    /\ db' = durable
    /\ ForgetMemory
    /\ UNCHANGED <<durable, manifest>>

\* SQLite checkpoints its log: everything committed so far is safe.
WalCheckpoint ==
    /\ "power" \in Faults /\ durable # db
    /\ durable' = db
    /\ UNCHANGED <<db, manifest, memory, faults>>

\* The disposable cache file is deleted or damaged.
LoseManifest ==
    /\ manifest # NoManifest
    /\ Fails("cache")
    /\ manifest' = NoManifest
    /\ UNCHANGED <<db, durable, memory>>

-----------------------------------------------------------------------------
Init ==
    /\ db = EmptyDatabase
    /\ durable = EmptyDatabase
    /\ manifest = NoManifest
    /\ published = NoSnapshot
    /\ pc = "down"
    /\ caller = "none" /\ delta = NoDelta /\ next = NoSnapshot /\ written = FALSE
    /\ needsRebuild = FALSE /\ recheck = FALSE
    /\ faults = 0

Writer == Batch \/ FinishObserved \/ RemoveRows \/ PutContent \/ FinishFileListImport

Refresh ==
    \/ \E who \in {"publish", "baseline", "rebuild"} : RefreshCurrent(who) \/ RefreshStale(who)
    \/ BuildIncremental \/ BuildFull \/ StoreGeneration \/ ClearJournal \/ Publish
    \/ PersistCheck \/ WriteManifest \/ Checkpoint

Fault == RefreshFails \/ Crash \/ PowerLoss \/ LoseManifest

Next ==
    \/ OpenRead \/ OpenClear
    \/ Writer
    \/ Refresh \/ RebuildRecheck
    \/ WalCheckpoint
    \/ Fault

Spec == Init /\ [][Next]_vars

-----------------------------------------------------------------------------
(* Properties.                                                             *)

Up == pc \notin {"down", "opening"}

\* Every variable stays in its domain.
TypeOK ==
    /\ db \in Database /\ durable \in Database
    /\ manifest \in Manifest \cup {NoManifest}
    /\ published \in Snapshot /\ next \in Snapshot
    /\ pc \in {"down", "opening", "idle", "delta", "full", "built", "clear",
               "publish", "check", "write", "checkpoint"}
    /\ caller \in {"none", "publish", "baseline", "rebuild"}
    /\ delta \in [ids : SUBSET Ids, rows : Rows]
    /\ written \in BOOLEAN /\ needsRebuild \in BOOLEAN /\ recheck \in BOOLEAN
    /\ faults \in 0..MaxFaults

\* What a query reads is exactly one committed state of SQLite: rows and
\* content revision of the published snapshot are those of its revision, even
\* though refresh reads the delta, builds, clears the journal and swaps the
\* snapshot in separate steps between which writers commit.
PublishedIsCommitted ==
    Up => /\ published.revision <= db.revision
          /\ published.rows = db.history[published.revision].rows
          /\ published.contentRevision = db.history[published.revision].contentRevision

\* Whenever the changed-id journal's base is the published revision, the
\* journal names every row in which the snapshot and SQLite differ, so the
\* next incremental refresh misses nothing.
JournalCoversDrift ==
    Up /\ db.changesBase = published.revision
        => \A i \in Ids \ db.snapshotChanges : published.rows[i] = CurrentRows(db)[i]

\* Whatever instant the process or the machine fails at, a prepared cache that
\* cache_read accepts restores exactly the rows SQLite holds: a manifest whose
\* checkpoint did not commit, a journal that overflowed and a manifest newer
\* than a rolled-back database are all rejected.
RecoveryIsExact ==
    /\ CacheAccepted(db, manifest) => CacheRows(db, manifest) = CurrentRows(db)
    /\ CacheAccepted(durable, manifest) => CacheRows(durable, manifest) = CurrentRows(durable)

\* While the engine runs, cache_dirty=false means that the cache on disk is the
\* current revision: no failed or outrun checkpoint leaves a clean flag behind.
CleanCacheIsCurrent ==
    Up /\ ~db.dirty
        => /\ db.baseRevision = db.revision
           /\ manifest # NoManifest => CacheAccepted(db, manifest)

\* validate_content_revision compares the snapshot's content revision with
\* SQLite's: when they agree, the bodies SQLite would return now are those of
\* the revision the snapshot was taken at.
ContentRevisionNamesBodies ==
    Up /\ published.contentRevision = db.contentRevision
        => db.content = db.history[published.revision].content

\* A generation becomes visible only after it is stored, and grows with every
\* publication: an engine that reopens after a crash never hands out a smaller
\* generation than one a client has already seen.
GenerationsAdvance ==
    [][Up /\ Up' /\ published' # published
        => /\ published'.generation > published.generation
           /\ published'.generation = db.generation]_vars

-----------------------------------------------------------------------------
(* The inductive invariant behind these properties: what one database      *)
(* promises about its own history and journals, what the durable prefix    *)
(* and the manifest share with it, and what the running refresh knows.     *)

HistoryOK(d) ==
    /\ d.history[d.revision] = CommitOf(d)
    /\ \A r \in 0..d.revision :
          /\ d.history[r].contentRevision <= d.contentRevision
          /\ d.history[r].contentRevision = d.contentRevision
                => d.history[r].content = d.content

\* The cache journal names every row that changed since its base revision.
BaseCovered(d) ==
    d.baseRevision # NoRevision
        => /\ d.baseGeneration # NoRevision
           /\ d.baseRevision <= d.revision
           /\ ~d.overflow => \A i \in Ids \ d.cacheChanges :
                                d.history[d.baseRevision].rows[i] = CurrentRows(d)[i]

CleanOK(d) ==
    ~d.dirty => d.baseRevision = d.revision /\ ~d.overflow

DatabaseOK(d) == HistoryOK(d) /\ BaseCovered(d) /\ CleanOK(d)

\* A power loss only forgets: the durable state is a prefix of the current one.
Lineage ==
    /\ durable.revision <= db.revision
    /\ \A r \in 0..durable.revision : durable.history[r] = db.history[r]

Matches(d, m) == m.generation = d.baseGeneration /\ m.revision = d.baseRevision

\* A manifest that a database's base settings name holds that base's rows.
ManifestOK(d) ==
    manifest # NoManifest /\ Matches(d, manifest)
        => manifest.rows = d.history[d.baseRevision].rows

Exact(s) ==
    /\ s.revision <= db.revision
    /\ s.rows = db.history[s.revision].rows
    /\ s.contentRevision = db.history[s.revision].contentRevision

EngineOK ==
    /\ pc # "down" => Exact(published)
    /\ pc = "opening" => published.revision = db.revision
    /\ pc # "down" => db.baseRevision <= published.revision
    /\ pc # "down" /\ ~db.dirty /\ manifest # NoManifest => Matches(db, manifest)
    /\ Up => \/ db.changesBase <= published.revision
             \/ pc = "publish" /\ db.changesBase = next.revision
    /\ JournalCoversDrift

Building == {"delta", "full", "built", "clear", "publish"}

JobOK ==
    /\ pc \in Building => /\ published.revision < next.revision
                          /\ next.revision <= db.revision
                          /\ next.generation > published.generation
    /\ pc = "delta" => /\ delta.rows = db.history[next.revision].rows
                       /\ next.contentRevision = db.history[next.revision].contentRevision
                       /\ \A i \in Ids \ delta.ids : published.rows[i] = delta.rows[i]
    /\ pc \in {"built", "clear", "publish"} => Exact(next)
    /\ pc \in {"clear", "publish"} => db.generation = next.generation
    /\ pc = "publish" /\ db.changesBase = next.revision
          => \A i \in Ids \ db.snapshotChanges : next.rows[i] = CurrentRows(db)[i]
    /\ pc \in {"check", "write", "checkpoint"} => next = published /\ db.dirty
    /\ pc = "checkpoint" /\ written /\ manifest # NoManifest
          => /\ manifest.rows = next.rows
             /\ manifest.generation = next.generation
             /\ manifest.revision = next.revision

IndInv ==
    /\ TypeOK
    /\ DatabaseOK(db) /\ DatabaseOK(durable)
    /\ Lineage
    /\ ManifestOK(db) /\ ManifestOK(durable)
    /\ EngineOK
    /\ JobOK

-----------------------------------------------------------------------------
(* What queries are promised, and that this publication protocol keeps it. *)

Served == INSTANCE ServedIndex WITH
    open <- Up,
    history <- db.history,
    revision <- db.revision,
    served <- IF Up THEN published.revision ELSE 0,
    answer <- IF Up THEN [rows |-> published.rows,
                          contentRevision |-> published.contentRevision]
                    ELSE [rows |-> NoRows, contentRevision |-> 0]

\* Queries see a sequence of whole committed states that never moves back while
\* the engine is open, whatever writers, failures and recoveries do meanwhile.
ServesCommittedStates == Served!Spec

-----------------------------------------------------------------------------
(* Progress.  refresh follows every reconciliation pass, content write and *)
(* import, and each of its steps ends; the service reopens a closed engine.*)

Fairness == WF_vars(OpenRead \/ OpenClear) /\ WF_vars(Refresh)

FairSpec == Spec /\ Fairness

\* A committed change is eventually visible, although writers keep committing
\* and refresh steps fail, unless a power loss takes the change back.
ChangesBecomeVisible ==
    \A r \in 1..MaxRevision :
        db.revision >= r ~> ((Up /\ published.revision >= r) \/ db.revision < r)
=============================================================================
