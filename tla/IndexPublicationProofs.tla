----------------------- MODULE IndexPublicationProofs -----------------------
(***************************************************************************)
(* IndInv is an inductive invariant of IndexPublication for every set of   *)
(* ids, versions and bodies and every bound; the safety properties of the  *)
(* publication and recovery protocol, and the implementation of            *)
(* ServedIndex, follow from it.                                            *)
(***************************************************************************)
EXTENDS IndexPublication, FiniteSetTheorems, TLAPS

-----------------------------------------------------------------------------
(* The database operators.                                                 *)

\* A snapshot query returns a row for every id (Visible).
LEMMA VisibleType ==
    ASSUME NEW files \in [Ids -> Versions \cup {Absent, Denied}], NEW content \in Content
    PROVE  Visible(files, content) \in Rows
BY DEF Visible, Rows, Row, Content

\* Counting the ids that satisfy a condition gives a natural number that is
\* zero only if there are none.
LEMMA CountIds ==
    ASSUME NEW S \in SUBSET Ids
    PROVE  /\ IsFiniteSet(S)
           /\ Cardinality(S) \in Nat
           /\ Cardinality(S) = 0 => S = {}
BY SentinelAssumption, FS_Subset, FS_CardinalityType, FS_EmptySet

\* A write transaction (SearchChanged) yields a well-formed database.
LEMMA SearchChangedType ==
    ASSUME NEW d \in Database, d.revision < MaxRevision,
           NEW files \in [Ids -> Versions \cup {Absent, Denied}],
           NEW content \in Content, NEW touched \in SUBSET Ids
    PROVE  SearchChanged(d, files, content, touched) \in Database
  <1>1. ContentEdits(d, content) \in Nat
    BY CountIds DEF ContentEdits
  <1>2. /\ JournalCacheChange(d, touched).ids \in SUBSET Ids
        /\ JournalCacheChange(d, touched).overflow \in BOOLEAN
    BY DEF JournalCacheChange, Database
  <1>3. Visible(files, content) \in Rows
    BY VisibleType
  <1> DEFINE commit == [rows |-> Visible(files, content),
                        contentRevision |-> d.contentRevision + ContentEdits(d, content),
                        content |-> content]
  <1>4. /\ d.revision + 1 \in 0..MaxRevision
        /\ d.contentRevision + ContentEdits(d, content) \in Nat
        /\ d.generation \in Nat
        /\ d.changesBase \in Nat \cup {NoRevision}
        /\ d.snapshotChanges \cup touched \in SUBSET Ids
        /\ d.baseGeneration \in Nat \cup {NoRevision}
        /\ d.baseRevision \in Nat \cup {NoRevision}
        /\ d.history \in [0..MaxRevision -> Commit]
    BY <1>1, BoundsAssumption DEF Database
  <1>5. commit \in Commit
    BY <1>3, <1>4 DEF Commit
  <1>6. [d.history EXCEPT ![d.revision + 1] = commit] \in [0..MaxRevision -> Commit]
    BY <1>4, <1>5
  <1>7. QED
    BY <1>2, <1>4, <1>6 DEF SearchChanged, Database

\* clear_changes either empties the journal at the current revision or does
\* nothing; it never touches anything else (ClearChanges).
LEMMA ClearChangesFields ==
    ASSUME NEW d \in Database, NEW r \in 0..MaxRevision,
           NEW e, e = ClearChanges(d, r)
    PROVE  /\ e \in Database
           /\ e.files = d.files /\ e.content = d.content
           /\ e.revision = d.revision /\ e.contentRevision = d.contentRevision
           /\ e.generation = d.generation
           /\ e.baseGeneration = d.baseGeneration /\ e.baseRevision = d.baseRevision
           /\ e.cacheChanges = d.cacheChanges /\ e.overflow = d.overflow
           /\ e.dirty = d.dirty /\ e.history = d.history
           /\ d.revision = r => e.snapshotChanges = {} /\ e.changesBase = r
           /\ d.revision # r => e = d
  <1>1. CASE d.revision # r
    BY <1>1 DEF ClearChanges
  <1>2. CASE d.revision = r
    <2>1. e = [d EXCEPT !.snapshotChanges = {}, !.changesBase = r]
      BY <1>2 DEF ClearChanges
    <2>2. e \in Database
      <3>1. r \in Nat
        BY BoundsAssumption
      <3>2. QED
        BY <2>1, <3>1 DEF Database
    <2>3. QED
      BY <1>2, <2>1, <2>2 DEF Database
  <1>3. QED
    BY <1>1, <1>2

\* checkpoint_cache moves the cache's base only at the current revision and
\* leaves rows, revisions and the publication journal alone (CheckpointCache).
LEMMA CheckpointCacheFields ==
    ASSUME NEW d \in Database, NEW g \in Nat, NEW r \in 0..MaxRevision,
           NEW e, e = CheckpointCache(d, g, r)
    PROVE  /\ e \in Database
           /\ e.files = d.files /\ e.content = d.content
           /\ e.revision = d.revision /\ e.contentRevision = d.contentRevision
           /\ e.generation = d.generation
           /\ e.changesBase = d.changesBase /\ e.snapshotChanges = d.snapshotChanges
           /\ e.history = d.history
           /\ d.revision = r => /\ e.baseGeneration = g /\ e.baseRevision = r
                                /\ ~e.overflow /\ ~e.dirty /\ e.cacheChanges = {}
           /\ d.revision # r => e = d
  <1>1. CASE d.revision # r
    BY <1>1 DEF CheckpointCache
  <1>2. CASE d.revision = r
    <2>1. e = [d EXCEPT !.baseGeneration = g, !.baseRevision = r,
                        !.overflow = FALSE, !.dirty = FALSE, !.cacheChanges = {}]
      BY <1>2 DEF CheckpointCache
    <2>2. e \in Database
      <3>1. r \in Nat
        BY BoundsAssumption
      <3>2. QED
        BY <2>1, <3>1, ZenonT(40) DEF Database
    <2>3. QED
      BY <1>2, <2>1, <2>2 DEF Database
  <1>3. QED
    BY <1>1, <1>2

\* Marking the cache dirty changes one column.
LEMMA MarkDirtyFields ==
    ASSUME NEW d \in Database, NEW e, e = [d EXCEPT !.dirty = TRUE]
    PROVE  /\ e \in Database
           /\ e.files = d.files /\ e.content = d.content
           /\ e.revision = d.revision /\ e.contentRevision = d.contentRevision
           /\ e.generation = d.generation
           /\ e.changesBase = d.changesBase /\ e.snapshotChanges = d.snapshotChanges
           /\ e.baseGeneration = d.baseGeneration /\ e.baseRevision = d.baseRevision
           /\ e.cacheChanges = d.cacheChanges /\ e.overflow = d.overflow
           /\ e.dirty /\ e.history = d.history
  <1>1. e \in Database
    BY DEF Database
  <1>2. QED
    BY <1>1 DEF Database

\* Storing a generation changes one column.
LEMMA StoreGenerationFields ==
    ASSUME NEW d \in Database, NEW g \in Nat, NEW e, e = [d EXCEPT !.generation = g]
    PROVE  /\ e \in Database
           /\ e.files = d.files /\ e.content = d.content
           /\ e.revision = d.revision /\ e.contentRevision = d.contentRevision
           /\ e.generation = g
           /\ e.changesBase = d.changesBase /\ e.snapshotChanges = d.snapshotChanges
           /\ e.baseGeneration = d.baseGeneration /\ e.baseRevision = d.baseRevision
           /\ e.cacheChanges = d.cacheChanges /\ e.overflow = d.overflow
           /\ e.dirty = d.dirty /\ e.history = d.history
  <1>1. e \in Database
    BY DEF Database
  <1>2. QED
    BY <1>1 DEF Database

\* A database whose journals and history are in order stays so across a write
\* transaction that journals every row it changes (SearchChanged).
LEMMA SearchChangedOK ==
    ASSUME NEW d \in Database, d.revision < MaxRevision, DatabaseOK(d),
           NEW files \in [Ids -> Versions \cup {Absent, Denied}],
           NEW content \in Content, NEW touched \in SUBSET Ids,
           \A i \in Ids \ touched : Visible(files, content)[i] = CurrentRows(d)[i],
           NEW e, e = SearchChanged(d, files, content, touched)
    PROVE  DatabaseOK(e)
  <1> DEFINE edits == ContentEdits(d, content)
  <1>0. /\ e.files = files /\ e.content = content
        /\ e.revision = d.revision + 1
        /\ e.contentRevision = d.contentRevision + edits
        /\ e.baseGeneration = d.baseGeneration /\ e.baseRevision = d.baseRevision
        /\ e.cacheChanges = JournalCacheChange(d, touched).ids
        /\ e.overflow = JournalCacheChange(d, touched).overflow
        /\ e.dirty = TRUE
        /\ e.history = [d.history EXCEPT ![d.revision + 1] =
                          [rows |-> Visible(files, content),
                           contentRevision |-> d.contentRevision + edits,
                           content |-> content]]
    BY DEF SearchChanged
  <1> HIDE DEF edits
  <1>1. edits \in Nat /\ (edits = 0 => content = d.content)
    <2>1. {i \in Ids : content[i] # d.content[i]} \in SUBSET Ids
      OBVIOUS
    <2>2. edits \in Nat /\ (edits = 0 => {i \in Ids : content[i] # d.content[i]} = {})
      BY <2>1, CountIds DEF edits, ContentEdits
    <2>3. ASSUME {i \in Ids : content[i] # d.content[i]} = {}
          PROVE  content = d.content
      BY <2>3 DEF Content, Database
    <2>4. QED
      BY <2>2, <2>3
  <1>2. /\ d.revision \in 0..MaxRevision /\ d.contentRevision \in Nat
        /\ d.history \in [0..MaxRevision -> Commit]
        /\ d.baseRevision \in Nat \cup {NoRevision}
        /\ MaxRevision \in Nat
    BY BoundsAssumption DEF Database
  <1>3. /\ e.history[e.revision] = [rows |-> Visible(files, content),
                                    contentRevision |-> d.contentRevision + edits,
                                    content |-> content]
        /\ \A r \in 0..d.revision : e.history[r] = d.history[r]
    BY <1>0, <1>2
  <1>4. HistoryOK(e)
    <2>1. e.history[e.revision] = CommitOf(e)
      BY <1>0, <1>3 DEF CommitOf, CurrentRows
    <2>2. ASSUME NEW r \in 0..e.revision
          PROVE  /\ e.history[r].contentRevision <= e.contentRevision
                 /\ e.history[r].contentRevision = e.contentRevision
                       => e.history[r].content = e.content
      <3>1. CASE r = e.revision
        BY <3>1, <1>0, <1>1, <1>2, <1>3
      <3>2. CASE r \in 0..d.revision
        <4>1. d.history[r] \in Commit
          BY <3>2, <1>2
        <4>2. /\ d.history[r].contentRevision \in Nat
              /\ d.history[r].contentRevision <= d.contentRevision
              /\ d.history[r].contentRevision = d.contentRevision
                    => d.history[r].content = d.content
          BY <3>2, <4>1 DEF DatabaseOK, HistoryOK, Commit
        <4>3. e.history[r] = d.history[r]
          BY <3>2, <1>3
        <4>4. QED
          BY <4>2, <4>3, <1>0, <1>1, <1>2
      <3>3. QED
        BY <3>1, <3>2, <1>0, <1>2
    <2>3. QED
      BY <2>1, <2>2 DEF HistoryOK
  <1>5. BaseCovered(e)
    <2> SUFFICES ASSUME e.baseRevision # NoRevision
                 PROVE  /\ e.baseGeneration # NoRevision
                        /\ e.baseRevision <= e.revision
                        /\ ~e.overflow => \A i \in Ids \ e.cacheChanges :
                              e.history[e.baseRevision].rows[i] = CurrentRows(e)[i]
      BY DEF BaseCovered
    <2>1. /\ d.baseRevision # NoRevision /\ d.baseGeneration # NoRevision
          /\ d.baseRevision <= d.revision
          /\ d.baseRevision \in 0..d.revision
          /\ ~d.overflow => \A i \in Ids \ d.cacheChanges :
                d.history[d.baseRevision].rows[i] = CurrentRows(d)[i]
      BY <1>0, <1>2 DEF DatabaseOK, BaseCovered, NoRevision
    <2>2. ASSUME ~e.overflow
          PROVE  ~d.overflow /\ e.cacheChanges = d.cacheChanges \cup touched
      BY <2>2, <2>1, <1>0 DEF JournalCacheChange
    <2>3. CurrentRows(e) = Visible(files, content)
      BY <1>0 DEF CurrentRows
    <2>4. e.history[e.baseRevision] = d.history[d.baseRevision]
      BY <1>0, <1>3, <2>1
    <2>5. QED
      BY <2>1, <2>2, <2>3, <2>4, <1>0, <1>2, SMTT(40)
  <1>6. CleanOK(e)
    BY <1>0 DEF CleanOK
  <1>7. QED
    BY <1>4, <1>5, <1>6 DEF DatabaseOK

\* The columns the proofs reason about, with their types.
LEMMA ColumnTypes ==
    ASSUME NEW d \in Database
    PROVE  /\ d.files \in [Ids -> Versions \cup {Absent, Denied}] /\ d.content \in Content
           /\ d.revision \in 0..MaxRevision /\ d.revision \in Nat
           /\ d.contentRevision \in Nat /\ d.generation \in Nat
           /\ d.changesBase \in Int /\ d.baseGeneration \in Int /\ d.baseRevision \in Int
           /\ d.baseRevision # NoRevision => d.baseRevision \in Nat
           /\ d.snapshotChanges \in SUBSET Ids /\ d.cacheChanges \in SUBSET Ids
           /\ d.overflow \in BOOLEAN /\ d.dirty \in BOOLEAN
           /\ d.history \in [0..MaxRevision -> Commit]
           /\ CurrentRows(d) \in Rows
  <1>1. CurrentRows(d) \in Rows
    BY VisibleType DEF CurrentRows, Database
  <1>2. QED
    BY <1>1, BoundsAssumption DEF Database, NoRevision

\* The revision history and the rows decide HistoryOK: any update that leaves
\* them alone preserves it.
LEMMA SameRowsHistoryOK ==
    ASSUME NEW d, NEW e, HistoryOK(d),
           e.files = d.files, e.content = d.content, e.revision = d.revision,
           e.contentRevision = d.contentRevision, e.history = d.history
    PROVE  HistoryOK(e) /\ CurrentRows(e) = CurrentRows(d)
BY DEF HistoryOK, CommitOf, CurrentRows

-----------------------------------------------------------------------------
(* The initial states.                                                     *)

\* The empty database, with no journal base and no cache, is in order.
LEMMA EmptyDatabaseOK == EmptyDatabase \in Database /\ DatabaseOK(EmptyDatabase)
  <1> DEFINE none == [i \in Ids |-> NoContent]
             first == [rows |-> NoRows, contentRevision |-> 0, content |-> none]
  <1>1. NoRows \in Rows /\ none \in Content /\ MaxRevision \in Nat
    BY BoundsAssumption DEF NoRows, Rows, Row, Content
  <1>2. first \in Commit
    BY <1>1 DEF Commit
  <1>3. [r \in 0..MaxRevision |-> first] \in [0..MaxRevision -> Commit]
    BY <1>2
  <1>4. EmptyDatabase \in Database
    BY <1>1, <1>3 DEF EmptyDatabase, Database, NoRows
  <1>5. CurrentRows(EmptyDatabase) = NoRows
    BY SentinelAssumption DEF EmptyDatabase, CurrentRows, Visible, NoRows
  <1>6. HistoryOK(EmptyDatabase)
    BY <1>1, <1>5 DEF HistoryOK, CommitOf, EmptyDatabase
  <1>7. QED
    BY <1>4, <1>6 DEF DatabaseOK, BaseCovered, CleanOK, EmptyDatabase

\* The initial state satisfies the inductive invariant.
LEMMA InitIndInv == Init => IndInv
  <1> SUFFICES ASSUME Init PROVE IndInv
    OBVIOUS
  <1>1. NoRows \in Rows /\ MaxRevision \in Nat /\ MaxFaults \in Nat
    BY BoundsAssumption DEF NoRows, Rows, Row
  <1>2. NoSnapshot \in Snapshot
    BY <1>1 DEF NoSnapshot, Snapshot
  <1>3. NoDelta \in [ids : SUBSET Ids, rows : Rows]
    BY <1>1 DEF NoDelta
  <1>4. TypeOK
    <2>1. db \in Database /\ durable \in Database
      BY EmptyDatabaseOK DEF Init
    <2>2. published \in Snapshot /\ next \in Snapshot
      BY <1>2 DEF Init
    <2>3. delta \in [ids : SUBSET Ids, rows : Rows] /\ faults \in 0..MaxFaults
      BY <1>1, <1>3 DEF Init
    <2>4. QED
      BY <2>1, <2>2, <2>3 DEF Init, TypeOK
  <1>5. DatabaseOK(db) /\ DatabaseOK(durable)
    BY EmptyDatabaseOK DEF Init
  <1>6. Lineage /\ ManifestOK(db) /\ ManifestOK(durable)
    <2>1. db = durable /\ manifest = NoManifest /\ db.revision \in Nat
      BY <1>4, ColumnTypes DEF Init, TypeOK
    <2>2. QED
      BY <2>1 DEF Lineage, ManifestOK
  <1>7. EngineOK /\ JobOK
    BY DEF Init, EngineOK, JobOK, Up, JournalCoversDrift, Building
  <1>8. QED
    BY <1>4, <1>5, <1>6, <1>7 DEF IndInv

-----------------------------------------------------------------------------
(* Writers.                                                                *)

\* Whatever a refresh has read or published stays true of the history when a
\* writer commits one more revision.
LEMMA WritePreserves ==
    ASSUME IndInv,
           NEW files \in [Ids -> Versions \cup {Absent, Denied}],
           NEW content \in Content, NEW touched \in SUBSET Ids,
           \A i \in Ids \ touched : Visible(files, content)[i] = CurrentRows(db)[i],
           Write(files, content, touched)
    PROVE  IndInv'
  <1> DEFINE edits == ContentEdits(db, content)
             commit == [rows |-> Visible(files, content),
                        contentRevision |-> db.contentRevision + edits,
                        content |-> content]
  <1>1. /\ db \in Database /\ db.revision < MaxRevision
        /\ db' = SearchChanged(db, files, content, touched)
        /\ StoreFree
        /\ UNCHANGED <<durable, manifest, published, pc, caller, delta, next, written,
                       needsRebuild, recheck, faults>>
    BY DEF IndInv, TypeOK, Write, memory
  <1>0. db' \in Database
    BY <1>1, SearchChangedType
  <1>2. /\ db'.files = files /\ db'.content = content
        /\ db'.revision = db.revision + 1
        /\ db'.changesBase = db.changesBase
        /\ db'.generation = db.generation
        /\ db'.snapshotChanges = db.snapshotChanges \cup touched
        /\ db'.baseGeneration = db.baseGeneration /\ db'.baseRevision = db.baseRevision
        /\ db'.dirty = TRUE
        /\ db'.history = [db.history EXCEPT ![db.revision + 1] = commit]
    BY <1>1 DEF SearchChanged
  <1> HIDE DEF edits, commit
  <1>3. TypeOK'
    BY <1>0, <1>1 DEF IndInv, TypeOK
  <1>4. DatabaseOK(db)'
    BY <1>1, SearchChangedOK DEF IndInv
  <1>5. /\ db.revision \in Nat /\ db.revision \in 0..MaxRevision /\ MaxRevision \in Nat
        /\ db.history \in [0..MaxRevision -> Commit]
        /\ db.baseRevision \in Int /\ db.changesBase \in Int
        /\ durable.revision \in Nat
    BY BoundsAssumption, ColumnTypes DEF IndInv, TypeOK
  <1>6. \A r \in 0..db.revision : db'.history[r] = db.history[r]
    BY <1>2, <1>5
  <1>7. Lineage'
    BY <1>1, <1>2, <1>5, <1>6 DEF IndInv, Lineage
  <1>8. ManifestOK(db)'
    <2> SUFFICES ASSUME manifest # NoManifest, Matches(db, manifest)
                 PROVE  manifest.rows = db'.history[db.baseRevision].rows
      BY <1>1, <1>2 DEF ManifestOK, Matches
    <2>1. db.baseRevision \in Nat
      BY DEF IndInv, TypeOK, Manifest, Matches
    <2>2. db.baseRevision \in 0..db.revision
      BY <2>1, <1>5 DEF IndInv, DatabaseOK, BaseCovered, NoRevision
    <2>3. QED
      BY <2>2, <1>6 DEF IndInv, ManifestOK
  <1>9. \A s \in Snapshot : Exact(s) => Exact(s)'
    <2> SUFFICES ASSUME NEW s \in Snapshot, Exact(s) PROVE Exact(s)'
      OBVIOUS
    <2>1. s.revision \in 0..db.revision
      BY <1>5 DEF Snapshot, Exact
    <2>2. QED
      BY <2>1, <1>2, <1>5, <1>6 DEF Exact
  <1>10. published \in Snapshot /\ next \in Snapshot /\ CurrentRows(db)' = Visible(files, content)
    BY <1>2 DEF IndInv, TypeOK, CurrentRows
  <1>11. EngineOK'
    <2>1. JournalCoversDrift'
      BY <1>1, <1>2, <1>10 DEF IndInv, EngineOK, JournalCoversDrift, Up
    <2>2. QED
      BY <2>1, <1>1, <1>2, <1>9, <1>10 DEF IndInv, EngineOK, Up, StoreFree
  <1>12. JobOK'
    BY <1>1, <1>2, <1>5, <1>6, <1>9, <1>10, SMTT(40) DEF IndInv, JobOK, Building, StoreFree, Snapshot
  <1>13. QED
    BY <1>1, <1>3, <1>4, <1>7, <1>8, <1>11, <1>12 DEF IndInv, DatabaseOK, HistoryOK, BaseCovered, CleanOK, ManifestOK, Matches, CommitOf, CurrentRows

\* An id whose files and content row a transaction leaves alone looks the same
\* to the snapshot query before and after it.
LEMMA UntouchedVisible ==
    ASSUME NEW files, NEW content, NEW i \in Ids,
           files[i] = db.files[i], content[i] = db.content[i]
    PROVE  Visible(files, content)[i] = CurrentRows(db)[i]
BY DEF Visible, CurrentRows

\* Every writer journals what it changes: batch, finish_observed, the removals,
\* put_content and the file-list import preserve the invariant.
LEMMA WriterPreserves == IndInv /\ Writer => IndInv'
  <1> SUFFICES ASSUME IndInv, Writer PROVE IndInv'
    OBVIOUS
  <1>1. /\ db.files \in [Ids -> Versions \cup {Absent, Denied}]
        /\ db.content \in Content /\ db.content \in [Ids -> Bodies \cup {NoContent}]
    BY ColumnTypes DEF IndInv, TypeOK, Content
  <1>2. CASE Batch
    <2>1. PICK files \in [Ids -> Versions \cup {Absent, Denied}], kept \in SUBSET Ids :
            Write(files,
                  [i \in Ids |->
                     IF \/ files[i] = Absent
                        \/ files[i] \in Versions /\ files[i] # db.files[i] /\ i \notin kept
                       THEN NoContent ELSE db.content[i]],
                  Touched(db, files,
                    [i \in Ids |->
                       IF \/ files[i] = Absent
                          \/ files[i] \in Versions /\ files[i] # db.files[i] /\ i \notin kept
                         THEN NoContent ELSE db.content[i]]))
      BY <1>2 DEF Batch
    <2> DEFINE content == [i \in Ids |->
                  IF \/ files[i] = Absent
                     \/ files[i] \in Versions /\ files[i] # db.files[i] /\ i \notin kept
                    THEN NoContent ELSE db.content[i]]
               touched == Touched(db, files, content)
    <2>2. content \in Content
      BY <1>1 DEF Content
    <2>3. Write(files, content, touched)
      BY <2>1
    <2> HIDE DEF content
    <2>4. touched \in SUBSET Ids
      BY DEF Touched
    <2>5. \A i \in Ids \ touched : Visible(files, content)[i] = CurrentRows(db)[i]
      BY UntouchedVisible DEF Touched
    <2>6. QED
      BY <2>2, <2>3, <2>4, <2>5, WritePreserves
  <1>3. CASE FinishObserved
    <2>1. PICK uncovered \in SUBSET Ids, removed \in SUBSET Ids :
            Write([i \in Ids |-> IF i \in removed THEN Absent
                                 ELSE IF i \in uncovered /\ db.files[i] # Absent THEN Denied
                                 ELSE db.files[i]],
                  [i \in Ids |-> IF i \in removed THEN NoContent ELSE db.content[i]],
                  Touched(db,
                    [i \in Ids |-> IF i \in removed THEN Absent
                                   ELSE IF i \in uncovered /\ db.files[i] # Absent THEN Denied
                                   ELSE db.files[i]],
                    [i \in Ids |-> IF i \in removed THEN NoContent ELSE db.content[i]]))
      BY <1>3 DEF FinishObserved
    <2> DEFINE files == [i \in Ids |->
                           IF i \in removed THEN Absent
                           ELSE IF i \in uncovered /\ db.files[i] # Absent THEN Denied
                           ELSE db.files[i]]
               content == [i \in Ids |-> IF i \in removed THEN NoContent ELSE db.content[i]]
               touched == Touched(db, files, content)
    <2>2. /\ content \in Content
          /\ files \in [Ids -> Versions \cup {Absent, Denied}]
      BY <1>1 DEF Content
    <2>3. Write(files, content, touched)
      BY <2>1
    <2> HIDE DEF files, content
    <2>4. touched \in SUBSET Ids
      BY DEF Touched
    <2>5. \A i \in Ids \ touched : Visible(files, content)[i] = CurrentRows(db)[i]
      BY UntouchedVisible DEF Touched
    <2>6. QED
      BY <2>2, <2>3, <2>4, <2>5, WritePreserves
  <1>4. CASE RemoveRows
    <2>1. PICK removed \in SUBSET Ids :
            Write([i \in Ids |-> IF i \in removed THEN Absent ELSE db.files[i]],
                  [i \in Ids |-> IF i \in removed THEN NoContent ELSE db.content[i]],
                  removed)
      BY <1>4 DEF RemoveRows
    <2> DEFINE files == [i \in Ids |-> IF i \in removed THEN Absent ELSE db.files[i]]
               content == [i \in Ids |-> IF i \in removed THEN NoContent ELSE db.content[i]]
    <2>2. /\ content \in Content
          /\ files \in [Ids -> Versions \cup {Absent, Denied}]
      BY <1>1 DEF Content
    <2>3. Write(files, content, removed)
      BY <2>1
    <2>4. \A i \in Ids \ removed : Visible(files, content)[i] = CurrentRows(db)[i]
      BY UntouchedVisible
    <2> HIDE DEF files, content
    <2>5. QED
      BY <2>2, <2>3, <2>4, WritePreserves
  <1>5. CASE PutContent
    <2>1. PICK i \in Ids, body \in Bodies :
            Write(db.files, [db.content EXCEPT ![i] = body], {i})
      BY <1>5 DEF PutContent
    <2> DEFINE content == [db.content EXCEPT ![i] = body]
    <2>2. content \in Content /\ {i} \in SUBSET Ids
      BY <1>1 DEF Content
    <2>3. \A j \in Ids \ {i} : Visible(db.files, content)[j] = CurrentRows(db)[j]
      BY <1>1, UntouchedVisible
    <2>4. Write(db.files, content, {i})
      BY <2>1
    <2> HIDE DEF content
    <2>5. QED
      BY <1>1, <2>2, <2>3, <2>4, WritePreserves
  <1>6. CASE FinishFileListImport
    <2> DEFINE content == [i \in Ids |-> NoContent]
    <2>1. PICK files \in [Ids -> Versions \cup {Absent}] :
            Write(files, content, {i \in Ids : db.files[i] # Absent \/ files[i] # Absent})
      BY <1>6 DEF FinishFileListImport
    <2> DEFINE touched == {i \in Ids : db.files[i] # Absent \/ files[i] # Absent}
    <2>2. /\ content \in Content /\ touched \in SUBSET Ids
          /\ files \in [Ids -> Versions \cup {Absent, Denied}]
      BY DEF Content
    <2>3. \A i \in Ids \ touched : Visible(files, content)[i] = CurrentRows(db)[i]
      BY SentinelAssumption DEF Visible, CurrentRows
    <2>4. Write(files, content, touched)
      BY <2>1
    <2> HIDE DEF content, touched
    <2>5. QED
      BY <2>2, <2>3, <2>4, WritePreserves
  <1>7. QED
    BY <1>2, <1>3, <1>4, <1>5, <1>6 DEF Writer

-----------------------------------------------------------------------------
(* Opening the engine.                                                     *)

\* A step that leaves SQLite and the cache file alone keeps what holds of them.
LEMMA SameFiles ==
    ASSUME IndInv, UNCHANGED <<db, durable, manifest>>
    PROVE  /\ DatabaseOK(db)' /\ DatabaseOK(durable)'
           /\ Lineage' /\ ManifestOK(db)' /\ ManifestOK(durable)'
BY DEF IndInv, DatabaseOK, HistoryOK, BaseCovered, CleanOK, CommitOf, CurrentRows,
       Lineage, ManifestOK, Matches

\* A step that leaves SQLite's durable state and the cache file alone keeps
\* what holds of them, whatever happens to the newest commits.
LEMMA SameDurable ==
    ASSUME IndInv, UNCHANGED <<durable, manifest>>
    PROVE  DatabaseOK(durable)' /\ ManifestOK(durable)'
BY DEF IndInv, DatabaseOK, HistoryOK, BaseCovered, CleanOK, CommitOf, CurrentRows,
       ManifestOK, Matches

\* A cache that cache_read accepts yields the rows of the database it was read
\* with: the base's rows with every later change replayed.
LEMMA AcceptedIsExact ==
    ASSUME NEW d \in Database, DatabaseOK(d), ManifestOK(d), CacheAccepted(d, manifest)
    PROVE  CacheRows(d, manifest) = CurrentRows(d)
  <1>1. /\ manifest.rows = d.history[d.baseRevision].rows
        /\ ~d.overflow
        /\ d.history[d.revision] = CommitOf(d)
        /\ \A i \in Ids \ d.cacheChanges :
              d.history[d.baseRevision].rows[i] = CurrentRows(d)[i]
    BY DEF CacheAccepted, ManifestOK, Matches, DatabaseOK, HistoryOK, BaseCovered
  <1>2. CASE d.revision = d.baseRevision
    BY <1>1, <1>2 DEF CacheRows, CommitOf
  <1>3. CASE d.revision # d.baseRevision
    <2>1. CacheRows(d, manifest) = [i \in Ids |-> IF i \in d.cacheChanges
                                                    THEN CurrentRows(d)[i]
                                                    ELSE manifest.rows[i]]
      BY <1>3 DEF CacheRows, ApplyChanges
    <2>2. CurrentRows(d) \in [Ids -> Row]
      BY ColumnTypes DEF Rows
    <2>3. QED
      BY <1>1, <2>1, <2>2
  <1>4. QED
    BY <1>2, <1>3

\* SearchEngine::open starts from the rows of the current revision, however it
\* obtained them.
LEMMA OpenReadPreserves == IndInv /\ OpenRead => IndInv'
  <1> SUFFICES ASSUME IndInv, OpenRead PROVE IndInv'
    OBVIOUS
  <1> DEFINE cached == CacheAccepted(db, manifest)
  <1>1. db \in Database /\ DatabaseOK(db) /\ ManifestOK(db) /\ manifest \in Manifest \cup {NoManifest}
    BY DEF IndInv, TypeOK
  <1>2. /\ published'.rows = CurrentRows(db)
        /\ published'.generation = db.generation
        /\ published'.revision = db.revision
        /\ published'.contentRevision = db.contentRevision
        /\ published' \in Snapshot
    <2>1. published' = [rows |-> CurrentRows(db), generation |-> db.generation,
                        revision |-> db.revision, contentRevision |-> db.contentRevision]
      BY <1>1, AcceptedIsExact DEF OpenRead, OpenedSnapshot
    <2>2. QED
      BY <1>1, <2>1, ColumnTypes DEF Snapshot
  <1>3. /\ db' \in Database
        /\ db'.files = db.files /\ db'.content = db.content
        /\ db'.revision = db.revision /\ db'.contentRevision = db.contentRevision
        /\ db'.baseGeneration = db.baseGeneration /\ db'.baseRevision = db.baseRevision
        /\ db'.cacheChanges = db.cacheChanges /\ db'.overflow = db.overflow
        /\ db'.history = db.history
        /\ ~db'.dirty => ~db.dirty /\ cached
    <2>1. db' = IF cached THEN db ELSE [db EXCEPT !.dirty = TRUE]
      BY DEF OpenRead, OpenedDatabase
    <2> HIDE DEF cached
    <2>2. CASE cached
      BY <1>1, <2>1, <2>2
    <2>3. CASE ~cached
      BY <1>1, <2>1, <2>3, MarkDirtyFields
    <2>4. QED
      BY <2>2, <2>3
  <1>4. TypeOK'
    BY <1>2, <1>3 DEF IndInv, TypeOK, OpenRead
  <1>5. HistoryOK(db)' /\ CurrentRows(db)' = CurrentRows(db)
    BY <1>1, <1>3, SameRowsHistoryOK DEF DatabaseOK
  <1>6. DatabaseOK(db)'
    BY <1>1, <1>3, <1>5 DEF DatabaseOK, BaseCovered, CleanOK
  <1>7. DatabaseOK(durable)' /\ ManifestOK(durable)'
    BY SameDurable DEF OpenRead
  <1>8. Lineage' /\ ManifestOK(db)'
    BY <1>3 DEF IndInv, Lineage, ManifestOK, Matches, OpenRead
  <1>9. EngineOK'
    <2>1. Exact(published)'
      BY <1>1, <1>2, <1>3, ColumnTypes DEF Exact, DatabaseOK, HistoryOK, CommitOf
    <2>2. db'.baseRevision <= published'.revision
      BY <1>1, <1>2, <1>3, ColumnTypes DEF DatabaseOK, BaseCovered, NoRevision
    <2>3. pc' = "opening" /\ ~Up'
      BY DEF OpenRead, Up
    <2>4. ~db'.dirty => Matches(db, manifest)'
      BY <1>3 DEF OpenRead, CacheAccepted, Matches
    <2>5. QED
      BY <1>2, <1>3, <2>1, <2>2, <2>3, <2>4 DEF EngineOK, JournalCoversDrift
  <1>10. JobOK'
    BY DEF OpenRead, JobOK, Building
  <1>11. QED
    BY <1>4, <1>6, <1>7, <1>8, <1>9, <1>10 DEF IndInv

\* The clear_changes of open makes the fresh snapshot the journal's base.
LEMMA OpenClearPreserves == IndInv /\ OpenClear => IndInv'
  <1> SUFFICES ASSUME IndInv, OpenClear PROVE IndInv'
    OBVIOUS
  <1>1. /\ db \in Database /\ DatabaseOK(db) /\ published \in Snapshot
        /\ published.revision = db.revision /\ published.revision \in 0..MaxRevision
    BY DEF IndInv, TypeOK, EngineOK, OpenClear, Snapshot
  <1>2. /\ db' \in Database
        /\ db'.files = db.files /\ db'.content = db.content
        /\ db'.revision = db.revision /\ db'.contentRevision = db.contentRevision
        /\ db'.baseGeneration = db.baseGeneration /\ db'.baseRevision = db.baseRevision
        /\ db'.cacheChanges = db.cacheChanges /\ db'.overflow = db.overflow
        /\ db'.dirty = db.dirty /\ db'.history = db.history
        /\ db'.snapshotChanges = {} /\ db'.changesBase = published.revision
    BY <1>1, ClearChangesFields DEF OpenClear
  <1>3. TypeOK'
    BY <1>2 DEF IndInv, TypeOK, OpenClear
  <1>4. HistoryOK(db)' /\ CurrentRows(db)' = CurrentRows(db)
    BY <1>1, <1>2, SameRowsHistoryOK DEF DatabaseOK
  <1>5. DatabaseOK(db)'
    BY <1>1, <1>2, <1>4 DEF DatabaseOK, BaseCovered, CleanOK
  <1>6. DatabaseOK(durable)' /\ ManifestOK(durable)'
    BY SameDurable DEF OpenClear
  <1>7. Lineage' /\ ManifestOK(db)'
    BY <1>2 DEF IndInv, Lineage, ManifestOK, Matches, OpenClear
  <1>8. EngineOK'
    <2>1. Exact(published)'
      BY <1>2 DEF IndInv, EngineOK, OpenClear, Exact
    <2>2. published.rows = CurrentRows(db)
      BY <1>1 DEF IndInv, EngineOK, OpenClear, Exact, DatabaseOK, HistoryOK, CommitOf
    <2>3. JournalCoversDrift'
      BY <1>2, <1>4, <2>2 DEF JournalCoversDrift, OpenClear
    <2>4. db'.changesBase <= published'.revision
      BY <1>1, <1>2, BoundsAssumption DEF OpenClear
    <2>5. QED
      BY <1>2, <2>1, <2>3, <2>4 DEF IndInv, EngineOK, OpenClear, Up, Matches
  <1>9. JobOK'
    BY DEF OpenClear, JobOK, Building
  <1>10. QED
    BY <1>3, <1>5, <1>6, <1>7, <1>8, <1>9 DEF IndInv

-----------------------------------------------------------------------------
(* refresh and persist_snapshot_cache_with.                                *)

\* Return leaves well-typed memory with no refresh under way.
LEMMA ReturnType ==
    ASSUME TypeOK, Return
    PROVE  /\ pc' = "idle" /\ caller' = "none" /\ written' = FALSE
           /\ recheck' \in BOOLEAN /\ next' \in Snapshot
           /\ delta' \in [ids : SUBSET Ids, rows : Rows]
  <1>1. NoRows \in Rows /\ MaxRevision \in Nat
    BY BoundsAssumption DEF NoRows, Rows, Row
  <1>2. NoSnapshot \in Snapshot
    BY <1>1 DEF NoSnapshot, Snapshot
  <1>3. NoDelta \in [ids : SUBSET Ids, rows : Rows]
    BY <1>1 DEF NoDelta
  <1>4. QED
    BY <1>2, <1>3 DEF Return, TypeOK

\* What the published snapshot owes to SQLite does not depend on where an
\* open engine's refresh is, as long as it is not about to publish.
LEMMA SameEngine ==
    ASSUME IndInv, UNCHANGED <<db, durable, manifest, published>>,
           Up, Up', pc # "publish"
    PROVE  EngineOK'
BY DEF IndInv, EngineOK, JournalCoversDrift, Up, Exact, Matches, CurrentRows

\* The entry of refresh: the delta is read with the revision it belongs to.
LEMMA RefreshEnterPreserves ==
    ASSUME IndInv, NEW who \in {"publish", "baseline", "rebuild"},
           RefreshCurrent(who) \/ RefreshStale(who)
    PROVE  IndInv'
  <1>1. /\ pc = "idle" /\ UNCHANGED <<db, durable, manifest, published, written, faults>>
        /\ needsRebuild' \in BOOLEAN
    BY DEF RefreshCurrent, RefreshStale, RefreshEnter, IndInv, TypeOK
  <1>2. /\ db \in Database /\ published \in Snapshot /\ next \in Snapshot
        /\ db.history[db.revision] = CommitOf(db)
    BY DEF IndInv, TypeOK, DatabaseOK, HistoryOK
  <1>3. Exact(published)
    BY <1>1 DEF IndInv, EngineOK
  <1>4. CASE RefreshCurrent(who)
    <2>1. TypeOK'
      BY <1>1, <1>4 DEF IndInv, TypeOK, RefreshCurrent
    <2>2. \/ pc' = "idle"
          \/ pc' = "check" /\ next' = published' /\ db'.dirty
      BY <1>1, <1>4 DEF RefreshCurrent
    <2>3. EngineOK'
      BY <1>1, <2>2, SameEngine DEF Up
    <2>4. JobOK'
      BY <2>2 DEF JobOK, Building
    <2>5. QED
      BY <1>1, <2>1, <2>3, <2>4, SameFiles DEF IndInv
  <1>5. CASE RefreshStale(who)
    <2>1. /\ next' = [published EXCEPT !.generation = published.generation + 1,
                                       !.revision = db.revision,
                                       !.contentRevision = db.contentRevision]
          /\ caller' = who /\ recheck' = recheck /\ db.revision # published.revision
      BY <1>5 DEF RefreshStale, Stale
    <2>2. /\ next' \in Snapshot
          /\ next'.generation = published.generation + 1
          /\ next'.revision = db.revision
          /\ next'.contentRevision = db.contentRevision
      <3>1. db.revision \in 0..MaxRevision /\ db.contentRevision \in Nat
        BY <1>2, ColumnTypes
      <3>2. published.generation + 1 \in Nat
        BY <1>2 DEF Snapshot
      <3>3. QED
        BY <1>2, <2>1, <3>1, <3>2 DEF Snapshot
    <2>3. \/ /\ pc' = "delta" /\ db.changesBase = published.revision
             /\ delta' = [ids |-> db.snapshotChanges, rows |-> CurrentRows(db)]
          \/ pc' = "full" /\ delta' = delta
      BY <1>5 DEF RefreshStale, DeltaKnown
    <2>4. TypeOK'
      <3>1. delta' \in [ids : SUBSET Ids, rows : Rows]
        BY <1>2, <2>3, ColumnTypes DEF IndInv, TypeOK
      <3>2. QED
        BY <1>1, <2>1, <2>2, <2>3, <3>1 DEF IndInv, TypeOK
    <2>5. EngineOK'
      BY <1>1, <2>3, SameEngine DEF Up
    <2>6. JobOK'
      <3>1. /\ published.revision < next'.revision
            /\ next'.revision <= db.revision
            /\ next'.generation > published.generation
        <4>1. /\ db.revision \in Int /\ published.revision \in Int /\ published.generation \in Int
              /\ published.revision <= db.revision
          BY <1>2, <1>3, ColumnTypes DEF Exact, Snapshot
        <4>2. QED
          BY <2>1, <2>2, <4>1
      <3>2. pc' = "delta" => /\ delta'.rows = db.history[next'.revision].rows
                             /\ next'.contentRevision =
                                  db.history[next'.revision].contentRevision
                             /\ \A i \in Ids \ delta'.ids : published.rows[i] = delta'.rows[i]
        BY <1>1, <1>2, <2>2, <2>3 DEF CommitOf, IndInv, EngineOK, JournalCoversDrift, Up
      <3>3. QED
        BY <1>1, <2>3, <3>1, <3>2 DEF JobOK, Building
    <2>7. QED
      BY <1>1, <2>4, <2>5, <2>6, SameFiles DEF IndInv
  <1>6. QED
    BY <1>4, <1>5

\* Applying the delta to the published rows gives the rows of the revision the
\* delta was read at, though writers have moved on since.
LEMMA BuildIncrementalPreserves == IndInv /\ BuildIncremental => IndInv'
  <1> SUFFICES ASSUME IndInv, BuildIncremental PROVE IndInv'
    OBVIOUS
  <1>1. /\ pc = "delta" /\ pc' \in {"built", "full"}
        /\ UNCHANGED <<db, durable, manifest, published, caller, written, needsRebuild, recheck>>
    BY DEF BuildIncremental
  <1>2. /\ published \in Snapshot /\ next \in Snapshot /\ db \in Database
        /\ delta \in [ids : SUBSET Ids, rows : Rows]
    BY DEF IndInv, TypeOK
  <1>3. delta' \in [ids : SUBSET Ids, rows : Rows]
    BY DEF BuildIncremental, NoDelta, NoRows, Rows, Row
  <1>4. /\ next' \in Snapshot
        /\ next'.revision = next.revision /\ next'.generation = next.generation
        /\ next'.contentRevision = next.contentRevision
        /\ pc' = "built" => next'.rows = delta.rows
    <2>1. CASE pc' = "full"
      BY <1>2, <2>1 DEF BuildIncremental
    <2>2. CASE pc' = "built"
      <3>1. next' = [next EXCEPT !.rows = ApplyChanges(published.rows, delta.ids, delta.rows)]
        BY <2>2 DEF BuildIncremental
      <3>2. ApplyChanges(published.rows, delta.ids, delta.rows) = delta.rows
        BY <1>1, <1>2 DEF IndInv, JobOK, ApplyChanges, Rows
      <3>3. QED
        BY <1>2, <3>1, <3>2 DEF Snapshot
    <2>3. QED
      BY <1>1, <2>1, <2>2
  <1>5. faults' \in 0..MaxFaults
    BY BoundsAssumption DEF BuildIncremental, Fails, IndInv, TypeOK
  <1>6. TypeOK'
    BY <1>1, <1>3, <1>4, <1>5 DEF IndInv, TypeOK
  <1>7. EngineOK'
    BY <1>1, SameEngine DEF Up
  <1>8. JobOK'
    BY <1>1, <1>4 DEF IndInv, JobOK, Building, Exact
  <1>9. QED
    BY <1>1, <1>6, <1>7, <1>8, SameFiles DEF IndInv

\* A full read retargets the refresh to the revision it saw.
LEMMA BuildFullPreserves == IndInv /\ BuildFull => IndInv'
  <1> SUFFICES ASSUME IndInv, BuildFull PROVE IndInv'
    OBVIOUS
  <1>1. /\ pc = "full" /\ pc' = "built"
        /\ UNCHANGED <<db, durable, manifest, published, caller, delta, written,
                       needsRebuild, recheck, faults>>
        /\ next' = [next EXCEPT !.rows = CurrentRows(db), !.revision = db.revision,
                                !.contentRevision = db.contentRevision]
    BY DEF BuildFull
  <1>2. /\ published \in Snapshot /\ next \in Snapshot /\ db \in Database
        /\ db.history[db.revision] = CommitOf(db)
    BY DEF IndInv, TypeOK, DatabaseOK, HistoryOK
  <1>3. /\ next' \in Snapshot
        /\ next'.revision = db.revision /\ next'.generation = next.generation
        /\ next'.contentRevision = db.contentRevision
        /\ next'.rows = CurrentRows(db)
    BY <1>1, <1>2, ColumnTypes DEF Snapshot
  <1>4. TypeOK'
    BY <1>1, <1>3 DEF IndInv, TypeOK
  <1>5. EngineOK'
    BY <1>1, SameEngine DEF Up
  <1>6. JobOK'
    <2>1. /\ db.revision \in Int /\ next.revision \in Int /\ published.revision \in Int
      BY <1>2, ColumnTypes DEF Snapshot
    <2>2. Exact(next)'
      BY <1>1, <1>2, <1>3, <2>1 DEF Exact, CommitOf
    <2>3. QED
      BY <1>1, <1>3, <2>1, <2>2 DEF IndInv, JobOK, Building
  <1>7. QED
    BY <1>1, <1>4, <1>5, <1>6, SameFiles DEF IndInv

\* The generation is stored while the store mutex is held.
LEMMA StoreGenerationPreserves == IndInv /\ StoreGeneration => IndInv'
  <1> SUFFICES ASSUME IndInv, StoreGeneration PROVE IndInv'
    OBVIOUS
  <1>1. /\ pc = "built" /\ pc' = "clear"
        /\ UNCHANGED <<durable, manifest, published, caller, delta, next, written,
                       needsRebuild, recheck, faults>>
        /\ db' = [db EXCEPT !.generation = next.generation]
    BY DEF StoreGeneration
  <1>2. db \in Database /\ DatabaseOK(db) /\ next.generation \in Nat
    BY DEF IndInv, TypeOK, Snapshot
  <1>3. /\ db' \in Database
        /\ db'.files = db.files /\ db'.content = db.content
        /\ db'.revision = db.revision /\ db'.contentRevision = db.contentRevision
        /\ db'.generation = next.generation
        /\ db'.changesBase = db.changesBase /\ db'.snapshotChanges = db.snapshotChanges
        /\ db'.baseGeneration = db.baseGeneration /\ db'.baseRevision = db.baseRevision
        /\ db'.cacheChanges = db.cacheChanges /\ db'.overflow = db.overflow
        /\ db'.dirty = db.dirty /\ db'.history = db.history
    BY <1>1, <1>2, StoreGenerationFields
  <1>4. TypeOK'
    BY <1>1, <1>3 DEF IndInv, TypeOK
  <1>5. HistoryOK(db)' /\ CurrentRows(db)' = CurrentRows(db)
    BY <1>2, <1>3, SameRowsHistoryOK DEF DatabaseOK
  <1>6. DatabaseOK(db)'
    BY <1>2, <1>3, <1>5 DEF DatabaseOK, BaseCovered, CleanOK
  <1>7. DatabaseOK(durable)' /\ ManifestOK(durable)'
    BY <1>1, SameDurable
  <1>8. Lineage' /\ ManifestOK(db)'
    BY <1>1, <1>3 DEF IndInv, Lineage, ManifestOK, Matches
  <1>9. EngineOK'
    BY <1>1, <1>3, <1>5 DEF IndInv, EngineOK, JournalCoversDrift, Up, Exact, Matches
  <1>10. JobOK'
    BY <1>1, <1>3 DEF IndInv, JobOK, Building, Exact
  <1>11. QED
    BY <1>4, <1>6, <1>7, <1>8, <1>9, <1>10 DEF IndInv

\* The journal is consumed only if the snapshot being published is current;
\* its base is then that snapshot's revision.
LEMMA ClearJournalPreserves == IndInv /\ ClearJournal => IndInv'
  <1> SUFFICES ASSUME IndInv, ClearJournal PROVE IndInv'
    OBVIOUS
  <1>1. /\ pc = "clear" /\ pc' = "publish"
        /\ UNCHANGED <<durable, manifest, published, caller, delta, next, written,
                       needsRebuild, recheck, faults>>
        /\ db' = ClearChanges(db, next.revision)
    BY DEF ClearJournal
  <1>2. /\ db \in Database /\ DatabaseOK(db) /\ next.revision \in 0..MaxRevision
        /\ published \in Snapshot
    BY DEF IndInv, TypeOK, Snapshot
  <1>3. /\ db' \in Database
        /\ db'.files = db.files /\ db'.content = db.content
        /\ db'.revision = db.revision /\ db'.contentRevision = db.contentRevision
        /\ db'.generation = db.generation
        /\ db'.baseGeneration = db.baseGeneration /\ db'.baseRevision = db.baseRevision
        /\ db'.cacheChanges = db.cacheChanges /\ db'.overflow = db.overflow
        /\ db'.dirty = db.dirty /\ db'.history = db.history
        /\ db.revision = next.revision
              => db'.snapshotChanges = {} /\ db'.changesBase = next.revision
        /\ db.revision # next.revision => db' = db
    BY <1>1, <1>2, ClearChangesFields
  <1>4. TypeOK'
    BY <1>1, <1>3 DEF IndInv, TypeOK
  <1>5. HistoryOK(db)' /\ CurrentRows(db)' = CurrentRows(db)
    BY <1>2, <1>3, SameRowsHistoryOK DEF DatabaseOK
  <1>6. DatabaseOK(db)'
    BY <1>2, <1>3, <1>5 DEF DatabaseOK, BaseCovered, CleanOK
  <1>7. DatabaseOK(durable)' /\ ManifestOK(durable)'
    BY <1>1, SameDurable
  <1>8. Lineage' /\ ManifestOK(db)'
    BY <1>1, <1>3 DEF IndInv, Lineage, ManifestOK, Matches
  <1>9. /\ published.revision < next.revision /\ next.revision \in Int
        /\ published.revision \in Int /\ db.changesBase \in Int
        /\ db.changesBase <= published.revision
    BY <1>1, <1>2, ColumnTypes DEF IndInv, JobOK, EngineOK, Building, Up, Snapshot
  <1>10. EngineOK'
    <2>1. CASE db.revision # next.revision
      BY <1>1, <1>3, <2>1 DEF IndInv, EngineOK, JournalCoversDrift, Up, Exact, Matches, CurrentRows
    <2>2. CASE db.revision = next.revision
      <3>1. db'.changesBase = next'.revision /\ db'.changesBase # published'.revision
        BY <1>1, <1>3, <1>9, <2>2
      <3>2. QED
        BY <1>1, <1>3, <3>1 DEF IndInv, EngineOK, JournalCoversDrift, Up, Exact, Matches
    <2>3. QED
      BY <2>1, <2>2
  <1>11. JobOK'
    <2>1. Exact(next)'
      BY <1>1, <1>3 DEF IndInv, JobOK, Exact
    <2>2. db'.changesBase = next.revision => db.revision = next.revision
      BY <1>3, <1>9
    <2>3. db.revision = next.revision => next.rows = CurrentRows(db)
      BY <1>1, <1>2 DEF IndInv, JobOK, Exact, DatabaseOK, HistoryOK, CommitOf
    <2>4. db'.generation = next'.generation
      BY <1>1, <1>3 DEF IndInv, JobOK
    <2>5. QED
      BY <1>1, <1>3, <1>5, <2>1, <2>2, <2>3, <2>4 DEF IndInv, JobOK, Building
  <1>12. QED
    BY <1>4, <1>6, <1>7, <1>8, <1>10, <1>11 DEF IndInv

\* The swap makes the next snapshot the published one; the journal's base is at
\* most its revision.
LEMMA PublishPreserves == IndInv /\ Publish => IndInv'
  <1> SUFFICES ASSUME IndInv, Publish PROVE IndInv'
    OBVIOUS
  <1>1. /\ pc = "publish" /\ published' = next
        /\ UNCHANGED <<db, durable, manifest, needsRebuild, faults>>
        /\ \/ pc' = "check" /\ UNCHANGED <<caller, delta, next, written, recheck>>
           \/ Return
    BY DEF Publish
  <1>2. /\ db \in Database /\ published \in Snapshot /\ next \in Snapshot
    BY DEF IndInv, TypeOK
  <1>3. TypeOK'
    <2>1. CASE Return
      <3>1. TypeOK
        BY DEF IndInv
      <3>2. /\ pc' = "idle" /\ caller' = "none" /\ written' = FALSE
            /\ recheck' \in BOOLEAN /\ next' \in Snapshot
            /\ delta' \in [ids : SUBSET Ids, rows : Rows]
        BY <2>1, <3>1, ReturnType
      <3>3. QED
        BY <1>1, <3>1, <3>2 DEF TypeOK
    <2>2. CASE pc' = "check" /\ UNCHANGED <<caller, delta, next, written, recheck>>
      BY <1>1, <2>2 DEF IndInv, TypeOK
    <2>3. QED
      BY <1>1, <2>1, <2>2
  <1>4. pc' = "idle" \/ (pc' = "check" /\ next' = published')
    <2>1. Return => pc' = "idle"
      BY DEF Return
    <2>2. QED
      BY <1>1, <2>1
  <1>5. /\ published.revision \in Int /\ next.revision \in Int /\ db.baseRevision \in Int
        /\ db.changesBase \in Int /\ db.revision \in Int /\ db.dirty \in BOOLEAN
        /\ published.revision < next.revision /\ next.revision <= db.revision
        /\ db.baseRevision <= published.revision
        /\ db.changesBase <= published.revision \/ db.changesBase = next.revision
    <2>1. /\ published.revision \in Int /\ next.revision \in Int /\ db.baseRevision \in Int
          /\ db.changesBase \in Int /\ db.revision \in Int /\ db.dirty \in BOOLEAN
      BY <1>2, ColumnTypes DEF Snapshot
    <2>2. QED
      BY <1>1, <2>1 DEF IndInv, JobOK, EngineOK, Building, Up
  <1>6. db.dirty
    BY <1>5 DEF IndInv, DatabaseOK, CleanOK
  <1>7. EngineOK'
    <2>1. Exact(published)'
      BY <1>1 DEF IndInv, JobOK, Exact
    <2>2. JournalCoversDrift'
      BY <1>1, <1>5 DEF IndInv, JobOK, JournalCoversDrift, CurrentRows
    <2>3. QED
      BY <1>1, <1>4, <1>5, <1>6, <2>1, <2>2 DEF EngineOK, Up
  <1>8. JobOK'
    BY <1>1, <1>4, <1>6 DEF JobOK, Building
  <1>9. QED
    BY <1>1, <1>3, <1>7, <1>8, SameFiles DEF IndInv

\* A refresh that returns, for whatever reason, leaves the published snapshot's
\* relation to SQLite and the cache as it was.
LEMMA ReturnPreserves ==
    ASSUME IndInv, Return, UNCHANGED <<db, durable, manifest, published, needsRebuild>>,
           Up, pc # "publish", faults' \in 0..MaxFaults
    PROVE  IndInv'
  <1>1. TypeOK
    BY DEF IndInv
  <1>2. /\ pc' = "idle" /\ caller' = "none" /\ written' = FALSE
        /\ recheck' \in BOOLEAN /\ next' \in Snapshot
        /\ delta' \in [ids : SUBSET Ids, rows : Rows]
    BY <1>1, ReturnType
  <1>3. TypeOK'
    BY <1>1, <1>2 DEF TypeOK
  <1>4. EngineOK'
    BY <1>2, SameEngine DEF Up
  <1>5. JobOK'
    BY <1>2 DEF JobOK, Building
  <1>6. QED
    BY <1>3, <1>4, <1>5, SameFiles DEF IndInv

\* An SQL error ends a refresh before it publishes.
LEMMA RefreshFailsPreserves == IndInv /\ RefreshFails => IndInv'
  <1> SUFFICES ASSUME IndInv, RefreshFails PROVE IndInv'
    OBVIOUS
  <1>1. Up /\ pc # "publish"
    BY DEF RefreshFails, Up
  <1>2. faults' \in 0..MaxFaults
    BY BoundsAssumption DEF RefreshFails, Fails, IndInv, TypeOK
  <1>3. Return /\ UNCHANGED <<db, durable, manifest, published, needsRebuild>>
    BY DEF RefreshFails
  <1>4. QED
    BY <1>1, <1>2, <1>3, ReturnPreserves

\* The revision check before the encoding.
LEMMA PersistCheckPreserves == IndInv /\ PersistCheck => IndInv'
  <1> SUFFICES ASSUME IndInv, PersistCheck PROVE IndInv'
    OBVIOUS
  <1>1. /\ pc = "check" /\ UNCHANGED <<db, durable, manifest, published, needsRebuild, faults>>
        /\ \/ pc' = "write" /\ UNCHANGED <<caller, delta, next, written, recheck>>
           \/ Return
    BY DEF PersistCheck
  <1>2. CASE Return
    <2>1. faults' \in 0..MaxFaults
      BY <1>1 DEF IndInv, TypeOK
    <2>2. QED
      BY <1>1, <1>2, <2>1, ReturnPreserves DEF Up
  <1>3. CASE pc' = "write" /\ UNCHANGED <<caller, delta, next, written, recheck>>
    <2>1. TypeOK'
      BY <1>1, <1>3 DEF IndInv, TypeOK
    <2>2. EngineOK'
      BY <1>1, <1>3, SameEngine DEF Up
    <2>3. JobOK'
      BY <1>1, <1>3 DEF IndInv, JobOK, Building
    <2>4. QED
      BY <1>1, <2>1, <2>2, <2>3, SameFiles DEF IndInv
  <1>4. QED
    BY <1>1, <1>2, <1>3

\* The new manifest holds the published rows; whichever database names its
\* generation and revision has those rows at its base.
LEMMA WriteManifestPreserves == IndInv /\ WriteManifest => IndInv'
  <1> SUFFICES ASSUME IndInv, WriteManifest PROVE IndInv'
    OBVIOUS
  <1> DEFINE new == [rows |-> next.rows, generation |-> next.generation,
                     revision |-> next.revision]
  <1>1. /\ pc = "write" /\ pc' = "checkpoint"
        /\ UNCHANGED <<db, durable, published, caller, delta, next, needsRebuild, recheck>>
        /\ written' \in BOOLEAN
        /\ manifest' = manifest \/ manifest' = new
        /\ written' => manifest' = new
    BY DEF WriteManifest
  <1>2. /\ next \in Snapshot /\ next = published /\ db.dirty
        /\ db \in Database /\ durable \in Database
    BY <1>1 DEF IndInv, TypeOK, JobOK
  <1>3. faults' \in 0..MaxFaults
    BY BoundsAssumption DEF WriteManifest, Fails, IndInv, TypeOK
  <1>4. TypeOK'
    <2>1. new \in Manifest
      BY <1>2 DEF Snapshot, Manifest
    <2>2. QED
      BY <1>1, <1>3, <2>1 DEF IndInv, TypeOK
  <1>5. DatabaseOK(db)' /\ DatabaseOK(durable)' /\ Lineage'
    BY <1>1 DEF IndInv, DatabaseOK, HistoryOK, BaseCovered, CleanOK, CommitOf, CurrentRows, Lineage
  <1>6. ManifestOK(db)' /\ ManifestOK(durable)'
    <2>1. CASE manifest' = manifest
      BY <1>1, <2>1 DEF IndInv, ManifestOK, Matches
    <2>2. CASE manifest' = new
      <3>1. next.rows = db.history[next.revision].rows
        BY <1>1, <1>2 DEF IndInv, EngineOK, Exact
      <3>2. ASSUME next.revision = durable.baseRevision
            PROVE  next.rows = durable.history[next.revision].rows
        <4>1. next.revision \in Nat
          BY <1>2 DEF Snapshot
        <4>2. next.revision <= durable.revision /\ durable.revision \in Nat
          BY <1>2, <3>2, <4>1, ColumnTypes DEF IndInv, DatabaseOK, BaseCovered, NoRevision
        <4>3. QED
          BY <3>1, <4>1, <4>2 DEF IndInv, Lineage
      <3>3. QED
        BY <1>1, <2>2, <3>1, <3>2 DEF ManifestOK, Matches
    <2>3. QED
      BY <1>1, <2>1, <2>2
  <1>7. EngineOK'
    BY <1>1, <1>2 DEF IndInv, EngineOK, JournalCoversDrift, Up, Exact, CurrentRows
  <1>8. JobOK'
    BY <1>1, <1>2 DEF JobOK, Building
  <1>9. QED
    BY <1>4, <1>5, <1>6, <1>7, <1>8 DEF IndInv

\* The checkpoint names the manifest just written, and only while SQLite is
\* still at its revision.
LEMMA CheckpointPreserves == IndInv /\ Checkpoint => IndInv'
  <1> SUFFICES ASSUME IndInv, Checkpoint PROVE IndInv'
    OBVIOUS
  <1>1. /\ pc = "checkpoint" /\ Return
        /\ UNCHANGED <<durable, manifest, published, needsRebuild, faults>>
        /\ db' = IF written THEN CheckpointCache(db, next.generation, next.revision)
                 ELSE [db EXCEPT !.dirty = TRUE]
    BY DEF Checkpoint
  <1>2. /\ TypeOK /\ next = published /\ DatabaseOK(db)
        /\ db \in Database /\ next \in Snapshot
        /\ next.generation \in Nat /\ next.revision \in 0..MaxRevision
    BY <1>1 DEF IndInv, TypeOK, JobOK, Snapshot
  <1>3. /\ db' \in Database
        /\ db'.files = db.files /\ db'.content = db.content
        /\ db'.revision = db.revision /\ db'.contentRevision = db.contentRevision
        /\ db'.changesBase = db.changesBase /\ db'.snapshotChanges = db.snapshotChanges
        /\ db'.history = db.history
    <2>1. CASE written
      BY <1>1, <1>2, <2>1, CheckpointCacheFields
    <2>2. CASE ~written
      BY <1>1, <1>2, <2>2, MarkDirtyFields
    <2>3. QED
      BY <2>1, <2>2
  <1>4. \/ /\ written /\ db.revision = next.revision
           /\ db'.baseGeneration = next.generation /\ db'.baseRevision = next.revision
           /\ ~db'.overflow /\ ~db'.dirty /\ db'.cacheChanges = {}
        \/ /\ db'.baseGeneration = db.baseGeneration /\ db'.baseRevision = db.baseRevision
           /\ db'.overflow = db.overflow /\ db'.cacheChanges = db.cacheChanges
           /\ db'.dirty
    <2>1. CASE written /\ db.revision = next.revision
      BY <1>1, <1>2, <2>1, CheckpointCacheFields
    <2>2. CASE written /\ db.revision # next.revision
      <3>1. db' = db
        BY <1>1, <2>2 DEF CheckpointCache
      <3>2. db.dirty
        BY <1>1 DEF IndInv, JobOK
      <3>3. QED
        BY <3>1, <3>2
    <2>3. CASE ~written
      BY <1>1, <1>2, <2>3, MarkDirtyFields
    <2>4. QED
      BY <2>1, <2>2, <2>3
  <1>5. TypeOK'
    <2>1. /\ pc' = "idle" /\ caller' = "none" /\ written' = FALSE
          /\ recheck' \in BOOLEAN /\ next' \in Snapshot
          /\ delta' \in [ids : SUBSET Ids, rows : Rows]
      BY <1>1, <1>2, ReturnType
    <2>2. QED
      BY <1>1, <1>2, <1>3, <2>1 DEF TypeOK
  <1>6. HistoryOK(db)' /\ CurrentRows(db)' = CurrentRows(db)
    BY <1>2, <1>3, SameRowsHistoryOK DEF DatabaseOK
  <1>7. /\ db.history[db.revision].rows = CurrentRows(db)
        /\ next.rows = db.history[next.revision].rows
        /\ db.revision \in Int /\ next.revision \in Int /\ db.changesBase \in Int
    BY <1>1, <1>2, ColumnTypes DEF DatabaseOK, HistoryOK, CommitOf, IndInv, EngineOK, Exact
  <1>8. DatabaseOK(db)'
    <2>1. BaseCovered(db)'
      BY <1>2, <1>3, <1>4, <1>6, <1>7 DEF DatabaseOK, BaseCovered, NoRevision
    <2>2. CleanOK(db)'
      BY <1>3, <1>4 DEF CleanOK
    <2>3. QED
      BY <1>6, <2>1, <2>2 DEF DatabaseOK
  <1>9. DatabaseOK(durable)' /\ ManifestOK(durable)' /\ Lineage'
    BY <1>1, <1>3, SameDurable DEF IndInv, Lineage
  <1>10. /\ ManifestOK(db)'
         /\ ~db'.dirty /\ manifest' # NoManifest => Matches(db, manifest)'
    <2>1. CASE db'.dirty /\ db'.baseGeneration = db.baseGeneration
                         /\ db'.baseRevision = db.baseRevision
      BY <1>1, <1>3, <2>1 DEF IndInv, ManifestOK, Matches
    <2>2. CASE /\ written
               /\ db'.baseGeneration = next.generation /\ db'.baseRevision = next.revision
      BY <1>1, <1>3, <1>7, <2>2 DEF IndInv, JobOK, ManifestOK, Matches
    <2>3. QED
      BY <1>4, <2>1, <2>2
  <1>11. EngineOK'
    <2>1. Exact(published)'
      BY <1>1, <1>3 DEF IndInv, EngineOK, Exact
    <2>2. db'.baseRevision <= published'.revision
      BY <1>1, <1>2, <1>4, <1>7 DEF IndInv, EngineOK
    <2>3. JournalCoversDrift' /\ db'.changesBase <= published'.revision
      BY <1>1, <1>3, <1>6 DEF IndInv, EngineOK, JournalCoversDrift, Up
    <2>4. pc' = "idle"
      BY <1>1 DEF Return
    <2>5. QED
      BY <1>10, <2>1, <2>2, <2>3, <2>4 DEF EngineOK
  <1>12. JobOK'
    BY <1>1 DEF Return, JobOK, Building
  <1>13. QED
    BY <1>5, <1>8, <1>9, <1>10, <1>11, <1>12 DEF IndInv

-----------------------------------------------------------------------------
(* The remaining steps, and the inductive invariant.                       *)

\* Every step of refresh preserves the invariant.
LEMMA RefreshPreserves == IndInv /\ Refresh => IndInv'
BY RefreshEnterPreserves, BuildIncrementalPreserves, BuildFullPreserves,
   StoreGenerationPreserves, ClearJournalPreserves, PublishPreserves,
   PersistCheckPreserves, WriteManifestPreserves, CheckpointPreserves DEF Refresh

\* rebuild_missing_cache's second look only raises a flag.
LEMMA RebuildRecheckPreserves == IndInv /\ RebuildRecheck => IndInv'
  <1> SUFFICES ASSUME IndInv, RebuildRecheck PROVE IndInv'
    OBVIOUS
  <1>1. /\ UNCHANGED <<db, durable, manifest, published, pc, caller, delta, next, written, faults>>
        /\ recheck' \in BOOLEAN /\ needsRebuild' \in BOOLEAN
    BY DEF RebuildRecheck
  <1>2. TypeOK'
    BY <1>1 DEF IndInv, TypeOK
  <1>3. EngineOK' /\ JobOK'
    BY <1>1 DEF IndInv, EngineOK, JobOK, JournalCoversDrift, Up, Exact, Matches, CurrentRows, Building
  <1>4. QED
    BY <1>1, <1>2, <1>3, SameFiles DEF IndInv

\* Without an engine nothing is promised of its memory.
LEMMA ForgetMemoryOK ==
    ASSUME TypeOK, ForgetMemory, db' \in Database, durable' \in Database,
           manifest' \in Manifest \cup {NoManifest}, faults' \in 0..MaxFaults
    PROVE  TypeOK' /\ EngineOK' /\ JobOK'
  <1>1. NoRows \in Rows /\ MaxRevision \in Nat
    BY BoundsAssumption DEF NoRows, Rows, Row
  <1>2. NoSnapshot \in Snapshot /\ NoDelta \in [ids : SUBSET Ids, rows : Rows]
    BY <1>1 DEF NoSnapshot, Snapshot, NoDelta
  <1>3. TypeOK'
    BY <1>2 DEF ForgetMemory, TypeOK
  <1>4. EngineOK' /\ JobOK'
    BY DEF ForgetMemory, EngineOK, JobOK, JournalCoversDrift, Up, Building
  <1>5. QED
    BY <1>3, <1>4

\* A crash keeps the committed state and the cache file.
LEMMA CrashPreserves == IndInv /\ Crash => IndInv'
  <1> SUFFICES ASSUME IndInv, Crash PROVE IndInv'
    OBVIOUS
  <1>1. ForgetMemory /\ UNCHANGED <<db, durable, manifest>> /\ TypeOK
    BY DEF Crash, IndInv
  <1>2. faults' \in 0..MaxFaults
    BY BoundsAssumption DEF Crash, Fails, IndInv, TypeOK
  <1>3. TypeOK' /\ EngineOK' /\ JobOK'
    BY <1>1, <1>2, ForgetMemoryOK DEF TypeOK
  <1>4. QED
    BY <1>1, <1>3, SameFiles DEF IndInv

\* A power loss makes the durable prefix the current state; the manifest may
\* be newer than it.
LEMMA PowerLossPreserves == IndInv /\ PowerLoss => IndInv'
  <1> SUFFICES ASSUME IndInv, PowerLoss PROVE IndInv'
    OBVIOUS
  <1>1. ForgetMemory /\ UNCHANGED <<durable, manifest>> /\ db' = durable' /\ TypeOK
    BY DEF PowerLoss, IndInv
  <1>2. faults' \in 0..MaxFaults
    BY BoundsAssumption DEF PowerLoss, Fails, IndInv, TypeOK
  <1>3. TypeOK' /\ EngineOK' /\ JobOK'
    BY <1>1, <1>2, ForgetMemoryOK DEF TypeOK
  <1>4. DatabaseOK(durable)' /\ ManifestOK(durable)'
    BY <1>1, SameDurable
  <1>5. DatabaseOK(db)' /\ ManifestOK(db)'
    BY <1>1, <1>4
  <1>6. Lineage'
    <2>1. durable.revision \in Nat
      BY <1>1, ColumnTypes DEF TypeOK
    <2>2. QED
      BY <1>1, <2>1 DEF Lineage
  <1>7. QED
    BY <1>3, <1>4, <1>5, <1>6 DEF IndInv

\* SQLite's own checkpoint makes the current state the durable one.
LEMMA WalCheckpointPreserves == IndInv /\ WalCheckpoint => IndInv'
  <1> SUFFICES ASSUME IndInv, WalCheckpoint PROVE IndInv'
    OBVIOUS
  <1>1. /\ durable' = db
        /\ UNCHANGED <<db, manifest, published, pc, caller, delta, next, written,
                       needsRebuild, recheck, faults>>
    BY DEF WalCheckpoint, memory
  <1>2. TypeOK'
    BY <1>1 DEF IndInv, TypeOK
  <1>3. /\ DatabaseOK(db)' /\ ManifestOK(db)'
    BY <1>1 DEF IndInv, DatabaseOK, HistoryOK, BaseCovered, CleanOK, CommitOf, CurrentRows,
                ManifestOK, Matches
  <1>4. durable' = db'
    BY <1>1
  <1>5. DatabaseOK(durable)' /\ ManifestOK(durable)'
    BY <1>3, <1>4
  <1>6. Lineage'
    <2>1. db.revision \in Nat
      BY ColumnTypes DEF IndInv, TypeOK
    <2>2. QED
      BY <1>1, <2>1 DEF Lineage
  <1>7. EngineOK' /\ JobOK'
    BY <1>1 DEF IndInv, EngineOK, JobOK, JournalCoversDrift, Up, Exact, Matches, CurrentRows, Building
  <1>8. QED
    BY <1>2, <1>3, <1>5, <1>6, <1>7 DEF IndInv

\* Losing the disposable cache file costs nothing but the file.
LEMMA LoseManifestPreserves == IndInv /\ LoseManifest => IndInv'
  <1> SUFFICES ASSUME IndInv, LoseManifest PROVE IndInv'
    OBVIOUS
  <1>1. /\ manifest' = NoManifest
        /\ UNCHANGED <<db, durable, published, pc, caller, delta, next, written,
                       needsRebuild, recheck>>
    BY DEF LoseManifest, memory
  <1>2. faults' \in 0..MaxFaults
    BY BoundsAssumption DEF LoseManifest, Fails, IndInv, TypeOK
  <1>3. TypeOK'
    BY <1>1, <1>2 DEF IndInv, TypeOK
  <1>4. DatabaseOK(db)' /\ DatabaseOK(durable)' /\ Lineage'
    BY <1>1 DEF IndInv, DatabaseOK, HistoryOK, BaseCovered, CleanOK, CommitOf, CurrentRows, Lineage
  <1>5. ManifestOK(db)' /\ ManifestOK(durable)'
    BY <1>1 DEF ManifestOK
  <1>6. EngineOK' /\ JobOK'
    BY <1>1 DEF IndInv, EngineOK, JobOK, JournalCoversDrift, Up, Exact, CurrentRows, Building
  <1>7. QED
    BY <1>3, <1>4, <1>5, <1>6 DEF IndInv

\* A stuttering step changes nothing.
LEMMA StutterPreserves == IndInv /\ UNCHANGED vars => IndInv'
  <1> SUFFICES ASSUME IndInv, UNCHANGED vars PROVE IndInv'
    OBVIOUS
  <1>1. UNCHANGED <<db, durable, manifest, published, pc, caller, delta, next, written,
                    needsRebuild, recheck, faults>>
    BY DEF vars, memory
  <1>2. TypeOK'
    BY <1>1 DEF IndInv, TypeOK
  <1>3. EngineOK' /\ JobOK'
    BY <1>1 DEF IndInv, EngineOK, JobOK, JournalCoversDrift, Up, Exact, Matches, CurrentRows, Building
  <1>4. QED
    BY <1>1, <1>2, <1>3, SameFiles DEF IndInv

\* IndInv is inductive: one lemma per action.
LEMMA NextIndInv == IndInv /\ [Next]_vars => IndInv'
BY OpenReadPreserves, OpenClearPreserves, WriterPreserves, RefreshPreserves,
   RebuildRecheckPreserves, WalCheckpointPreserves, RefreshFailsPreserves, CrashPreserves,
   PowerLossPreserves, LoseManifestPreserves, StutterPreserves DEF Next, Fault

\* Every behaviour of the publication protocol satisfies the inductive invariant.
THEOREM Inductive == Spec => []IndInv
BY InitIndInv, NextIndInv, PTL DEF Spec

-----------------------------------------------------------------------------
(* The properties of the protocol.                                         *)

\* Every variable of the publication protocol stays in its domain.
THEOREM TypeCorrect == Spec => []TypeOK
  <1>1. IndInv => TypeOK
    BY DEF IndInv
  <1>2. QED
    BY <1>1, Inductive, PTL

\* What queries read is one committed state of SQLite, although refresh reads
\* the delta, builds, clears the journal and publishes in separate steps.
THEOREM SnapshotIsCommitted == Spec => []PublishedIsCommitted
  <1>1. IndInv => PublishedIsCommitted
    BY DEF IndInv, EngineOK, Exact, PublishedIsCommitted, Up
  <1>2. QED
    BY <1>1, Inductive, PTL

\* The journal that starts at the published revision names every row in which
\* the published snapshot and SQLite differ.
THEOREM JournalIsComplete == Spec => []JournalCoversDrift
  <1>1. IndInv => JournalCoversDrift
    BY DEF IndInv, EngineOK
  <1>2. QED
    BY <1>1, Inductive, PTL

\* A cache that cache_read would accept, now or after a power loss, restores
\* exactly the rows of the database it is read with.
THEOREM RecoveryExact == Spec => []RecoveryIsExact
  <1>1. IndInv => RecoveryIsExact
    BY AcceptedIsExact DEF IndInv, TypeOK, RecoveryIsExact
  <1>2. QED
    BY <1>1, Inductive, PTL

\* A clean flag means that the cache on disk is the current revision.
THEOREM CleanCacheCurrent == Spec => []CleanCacheIsCurrent
  <1>1. IndInv => CleanCacheIsCurrent
    <2> SUFFICES ASSUME IndInv, Up, ~db.dirty
                 PROVE  /\ db.baseRevision = db.revision
                        /\ manifest # NoManifest => CacheAccepted(db, manifest)
      BY DEF CleanCacheIsCurrent
    <2>1. db.baseRevision = db.revision /\ ~db.overflow
      BY DEF IndInv, DatabaseOK, CleanOK
    <2>2. db.revision \in Nat
      BY ColumnTypes DEF IndInv, TypeOK
    <2>3. db.baseRevision # NoRevision /\ db.baseGeneration # NoRevision
      BY <2>1, <2>2 DEF IndInv, DatabaseOK, BaseCovered, NoRevision
    <2>4. manifest # NoManifest => Matches(db, manifest)
      BY DEF IndInv, EngineOK, Up
    <2>5. QED
      BY <2>1, <2>2, <2>3, <2>4 DEF CacheAccepted, Matches
  <1>2. QED
    BY <1>1, Inductive, PTL

\* Equal content revisions mean equal bodies, so a content query that validates
\* the revision reads the text of the snapshot it searches.
THEOREM ContentRevisionSound == Spec => []ContentRevisionNamesBodies
  <1>1. IndInv => ContentRevisionNamesBodies
    <2> SUFFICES ASSUME IndInv, Up, published.contentRevision = db.contentRevision
                 PROVE  db.content = db.history[published.revision].content
      BY DEF ContentRevisionNamesBodies
    <2>1. Exact(published)
      BY DEF IndInv, EngineOK, Up
    <2>2. published.revision \in 0..db.revision
      BY <2>1, ColumnTypes DEF IndInv, TypeOK, Exact, Snapshot
    <2>3. QED
      BY <2>1, <2>2 DEF Exact, IndInv, DatabaseOK, HistoryOK
  <1>2. QED
    BY <1>1, Inductive, PTL

\* While an engine stays open only Publish changes what it publishes.
LEMMA OnlyPublishPublishes ==
    ASSUME [Next]_vars, Up, Up', published' # published
    PROVE  Publish
BY DEF Next, vars, memory, Up, OpenRead, OpenClear, Writer, Batch, FinishObserved, RemoveRows,
       PutContent, FinishFileListImport, Write, Refresh, RefreshCurrent, RefreshStale,
       RefreshEnter, BuildIncremental, BuildFull, StoreGeneration, ClearJournal, PersistCheck,
       WriteManifest, Checkpoint, RebuildRecheck, WalCheckpoint, Fault, RefreshFails, Crash,
       PowerLoss, ForgetMemory, LoseManifest

\* A publication carries a larger generation than the one it replaces, and
\* that generation is already stored.
THEOREM GenerationsGrow == Spec => GenerationsAdvance
  <1>1. IndInv /\ [Next]_vars =>
          [Up /\ Up' /\ published' # published
             => /\ published'.generation > published.generation
                /\ published'.generation = db.generation]_vars
    <2> SUFFICES ASSUME IndInv, [Next]_vars, Up, Up', published' # published
                 PROVE  /\ published'.generation > published.generation
                        /\ published'.generation = db.generation
      OBVIOUS
    <2>1. pc = "publish" /\ published' = next
      BY OnlyPublishPublishes DEF Publish
    <2>2. QED
      BY <2>1 DEF IndInv, JobOK, Building
  <1>2. QED
    BY <1>1, Inductive, PTL DEF Spec, GenerationsAdvance

-----------------------------------------------------------------------------
(* The protocol implements ServedIndex.                                    *)

servedVars == <<Up, db.history, db.revision,
                IF Up THEN published.revision ELSE 0,
                IF Up THEN [rows |-> published.rows,
                            contentRevision |-> published.contentRevision]
                      ELSE [rows |-> NoRows, contentRevision |-> 0]>>

\* A step that neither opens or closes the engine, nor publishes or commits, is
\* invisible to clients.
LEMMA ServedStutter ==
    ASSUME Up' = Up, published' = published,
           db'.history = db.history, db'.revision = db.revision
    PROVE  UNCHANGED servedVars
BY DEF servedVars

\* One committed state more, and nothing else, is what a writer shows clients.
LEMMA WriteServes ==
    ASSUME IndInv, NEW files, NEW content, NEW touched, Write(files, content, touched)
    PROVE  Served!Commit
  <1>1. /\ db' = SearchChanged(db, files, content, touched) /\ db.revision < MaxRevision
        /\ pc' = pc /\ published' = published
    BY DEF Write, memory
  <1>2. db.revision \in Nat /\ db.history \in [0..MaxRevision -> Commit]
    BY ColumnTypes DEF IndInv, TypeOK
  <1>3. /\ db'.revision = db.revision + 1
        /\ db'.history = [db.history EXCEPT ![db.revision + 1] =
                            [rows |-> Visible(files, content),
                             contentRevision |-> db.contentRevision + ContentEdits(db, content),
                             content |-> content]]
    BY <1>1 DEF SearchChanged
  <1>4. \A r \in 0..db.revision : db'.history[r] = db.history[r]
    BY <1>1, <1>2, <1>3
  <1>5. Up' = Up
    BY <1>1 DEF Up
  <1>6. QED
    BY <1>1, <1>3, <1>4, <1>5 DEF Served!Commit

\* Every step of the protocol is a step of the served index or invisible to it.
LEMMA ServedStep == IndInv /\ IndInv' /\ [Next]_vars => [Served!Next]_servedVars
  <1> SUFFICES ASSUME IndInv, IndInv', [Next]_vars
               PROVE  Served!Next \/ UNCHANGED servedVars
    OBVIOUS
  <1>1. /\ db \in Database /\ published \in Snapshot /\ next \in Snapshot
        /\ db.revision \in Nat /\ durable.revision \in Nat
    BY ColumnTypes DEF IndInv, TypeOK
  <1>2. CASE Writer
    BY <1>2, WriteServes DEF Writer, Batch, FinishObserved, RemoveRows, PutContent,
         FinishFileListImport, Served!Next
  <1>3. CASE OpenRead
    <2>1. db'.history = db.history /\ db'.revision = db.revision
      <3>1. db' = db \/ db' = [db EXCEPT !.dirty = TRUE]
        BY <1>3 DEF OpenRead, OpenedDatabase
      <3>2. QED
        BY <1>1, <3>1, MarkDirtyFields
    <2>2. ~Up /\ ~Up' /\ Up' = Up
      BY <1>3 DEF OpenRead, Up
    <2>3. QED
      BY <2>1, <2>2 DEF servedVars
  <1>4. CASE OpenClear
    <2>1. /\ db'.history = db.history /\ db'.revision = db.revision
      BY <1>1, <1>4, ClearChangesFields DEF OpenClear, Snapshot
    <2>2. ~Up /\ Up' /\ published' = published /\ published.revision = db.revision
      BY <1>4 DEF OpenClear, Up, IndInv, EngineOK
    <2>3. Exact(published)
      BY <1>4 DEF OpenClear, IndInv, EngineOK
    <2>4. Served!Open
      BY <2>1, <2>2, <2>3 DEF Served!Open, Served!AnswerAt, Exact
    <2>5. QED
      BY <2>4 DEF Served!Next
  <1>5. CASE Publish
    <2>1. /\ pc = "publish" /\ published' = next /\ db' = db /\ pc' \in {"idle", "check"}
      BY <1>5 DEF Publish, Return
    <2>2. /\ Exact(next) /\ published.revision < next.revision /\ next.revision <= db.revision
      BY <2>1 DEF IndInv, JobOK, Building
    <2>3. next.revision \in published.revision + 1 .. db.revision
      BY <1>1, <2>2 DEF Snapshot
    <2>4. Up /\ Up'
      BY <2>1 DEF Up
    <2>5. Served!Advance
      BY <2>1, <2>2, <2>3, <2>4 DEF Served!Advance, Served!AnswerAt, Exact
    <2>6. QED
      BY <2>5 DEF Served!Next
  <1>6. CASE Refresh /\ ~Publish
    <2>1. Up' = Up /\ published' = published
      BY <1>6 DEF Refresh, RefreshCurrent, RefreshStale, RefreshEnter, BuildIncremental,
           BuildFull, StoreGeneration, ClearJournal, PersistCheck, WriteManifest, Checkpoint,
           Return, Up
    <2>2. db'.history = db.history /\ db'.revision = db.revision
      <3>1. CASE StoreGeneration
        BY <1>1, <3>1, StoreGenerationFields DEF StoreGeneration, Snapshot
      <3>2. CASE ClearJournal
        BY <1>1, <3>2, ClearChangesFields DEF ClearJournal, Snapshot
      <3>3. CASE Checkpoint
        <4>1. \/ db' = CheckpointCache(db, next.generation, next.revision)
              \/ db' = [db EXCEPT !.dirty = TRUE]
          BY <3>3 DEF Checkpoint
        <4>2. next.generation \in Nat /\ next.revision \in 0..MaxRevision
          BY <1>1 DEF Snapshot
        <4>3. CASE db' = CheckpointCache(db, next.generation, next.revision)
          BY <1>1, <4>2, <4>3, CheckpointCacheFields
        <4>4. CASE db' = [db EXCEPT !.dirty = TRUE]
          BY <1>1, <4>4, MarkDirtyFields
        <4>5. QED
          BY <4>1, <4>3, <4>4
      <3>4. CASE db' = db
        BY <3>4
      <3>5. QED
        BY <1>6, <3>1, <3>2, <3>3, <3>4 DEF Refresh, RefreshCurrent, RefreshStale, RefreshEnter,
             BuildIncremental, BuildFull, PersistCheck, WriteManifest
    <2>3. QED
      BY <2>1, <2>2, ServedStutter
  <1>7. CASE RebuildRecheck \/ WalCheckpoint \/ RefreshFails \/ LoseManifest \/ UNCHANGED vars
    <2>1. Up' = Up /\ published' = published /\ db' = db
      BY <1>7 DEF RebuildRecheck, WalCheckpoint, RefreshFails, LoseManifest, vars, memory,
           Return, Up
    <2>2. QED
      BY <2>1, ServedStutter
  <1>8. CASE Crash \/ PowerLoss
    <2>1. ~Up'
      BY <1>8 DEF Crash, PowerLoss, ForgetMemory, Up
    <2>2. db'.revision <= db.revision /\ \A r \in 0..db'.revision : db'.history[r] = db.history[r]
      BY <1>1, <1>8 DEF Crash, PowerLoss, IndInv, Lineage
    <2>3. Served!Close
      BY <2>1, <2>2 DEF Served!Close, Served!Closed, Served!NoRows, NoRows
    <2>4. QED
      BY <2>3 DEF Served!Next
  <1>9. QED
    BY <1>2, <1>3, <1>4, <1>5, <1>6, <1>7, <1>8 DEF Next, Fault, Refresh

\* Clients of the publication protocol see a ServedIndex: whole committed
\* states, in order, for as long as the engine is open.
THEOREM ImplementsServedIndex == Spec => ServesCommittedStates
  <1>1. Init => Served!Init
    BY DEF Init, Served!Init, Served!Closed, Served!NoRows, NoRows, Up, EmptyDatabase
  <1>2. IndInv /\ IndInv' /\ [Next]_vars => [Served!Next]_servedVars
    BY ServedStep
  <1>3. QED
    BY <1>1, <1>2, Inductive, PTL DEF Spec, ServesCommittedStates, Served!Spec, servedVars

=============================================================================
