------------------------------ MODULE MCEngine ------------------------------
(***************************************************************************)
(* One instance of each part of the engine that needs no step of another.  *)
(* A behaviour steps the part in `focus' and leaves the others where they   *)
(* begin, so the state spaces of the parts are added and not multiplied.   *)
(***************************************************************************)
EXTENDS QuerySessions, DerivedCache, FileListImport, PreparedBatch, SnapshotIndexes,
        QueryLanguage, Relations, OfflineLists, ContentIndexing, DirectoryScan

CONSTANTS c1, c2

VARIABLE focus

-----------------------------------------------------------------------------
(* QuerySessions *)

Slice(k, r, u, t, o, w, c) ==
  [clock |-> k, revision |-> r, updates |-> u, texts |-> t, owners |-> o, worker |-> w,
   clients |-> c]
Slices ==
  { Slice(3, 1, 0, {"none"}, {"window", "operation"}, FALSE, {c1, c2}),
    Slice(1, 1, 0, {"date"}, {"window"}, FALSE, {c1, c2}),
    Slice(0, 1, 1, {"name"}, {"window"}, FALSE, {c1, c2}),
    Slice(0, 2, 0, {"relation"}, {}, TRUE, {c1}),
    Slice(0, 3, 0, {"content"}, {"window"}, FALSE, {c1}),
    Slice(0, 1, 3, {}, {}, FALSE, {c1, c2}),
    Slice(0, 3, 0, {"none"}, {"window"}, TRUE, {c1}) }

(* DerivedCache: two snapshots, two shards; an allocation is shared by products. *)
SmallKeys == {"a", "b", "c", "d"}
SmallOwner(k) == IF k \in {"a", "b"} THEN "s1" ELSE "s2"
SmallShard(k) == IF k \in {"a", "c"} THEN "h1" ELSE "h2"
SmallBytes == [x |-> 2, y |-> 3]
SmallProducts == {[allocs |-> {"x"}, overhead |-> 1], [allocs |-> {"x", "y"}, overhead |-> 1]}

(* FileListImport: a path that two batches name. *)
SmallBatches == {<<"p">>, <<"q", "p">>}

(* SnapshotIndexes: three paths, two of one name and one folded path. *)
Field(f, a) == [field |-> f, ascending |-> a]
Kind(s, d) == [size |-> s, dir |-> d]
SmallNameOf == <<"a", "a", "b">>
SmallNameKey == <<2, 2, 1>>
SmallPathKey == <<1, 1, 2>>
SmallNameTerms == <<{"x"}, {"x"}, {"x", "y"}>>
SmallSpecs == {<<Field("path", FALSE), Field("size", FALSE)>>,
               <<Field("size", TRUE), Field("is_dir", TRUE)>>}
SmallScopes ==
  { [ids |-> {1, 2}, attributes |-> {Kind(0, FALSE), Kind(0, TRUE)}, delta |-> 2],
    [ids |-> {1, 2}, attributes |-> {Kind(0, FALSE), Kind(1, FALSE)}, delta |-> 2],
    [ids |-> {1, 2, 3}, attributes |-> {Kind(0, FALSE)}, delta |-> 1] }

(* QueryLanguage: a macro of a disjunction, one that names itself, an empty one. *)
SmallMacros == [m |-> <<"n", "Or", "p">>, w |-> <<"w">>, e |-> << >>]
SmallInputs ==
  { [symbols |-> {"n", "c", "Or", "Not", "L", "R"}, length |-> 5],
    [symbols |-> {"n", "p", "dir", "L", "R"}, length |-> 5],
    [symbols |-> {"c", "m", "w", "e", "Or", "And", "R", "Not"}, length |-> 4],
    [symbols |-> {"Not", "L", "c"}, length |-> 5] }

(* Relations: root/d/e/f and root/d/g. *)
SmallTree == [root |-> "root", d |-> "root", e |-> "d", f |-> "e", g |-> "d"]

(* DirectoryScan: two directories, a foreign mount, a pruned and an odd name. *)
SmallParents == [top |-> "none", a |-> "top", b |-> "top", m |-> "top", bad |-> "top",
                 p |-> "top", f |-> "a", g |-> "b"]
SmallMounts == [e \in DOMAIN SmallParents |-> IF e = "m" THEN "smb" ELSE "apfs"]
SmallRequests == {[recursive |-> TRUE, paths |-> {"top"}],
                  [recursive |-> FALSE, paths |-> {"a", "f", "m", "p"}]}

-----------------------------------------------------------------------------
Parts == {"sessions", "cache", "import", "batch", "indexes", "query", "relations", "offline",
          "content", "scan"}

\* The one initial state a part waits in while another is in focus.
Parked(part, state) == IF focus = part THEN TRUE ELSE state

EngineInit ==
  /\ focus \in Parts
  /\ Parked("sessions", limit = Slice(0, 1, 3, {}, {}, FALSE, {c1, c2}))
  /\ Parked("import", active = FALSE)
  /\ Parked("batch", disk = [p \in Paths |-> NoFile])
  /\ Parked("indexes", scope = CHOOSE s \in SmallScopes : s.delta = 1)
  /\ Parked("query", text = << >>)
  /\ Parked("relations", known = [p \in DOMAIN Tree |-> "absent"]
                         /\ coverage = [complete |-> FALSE, roots |-> {"d"}, uncovered |-> {}]
                         /\ question = [ask |-> "child", wanted |-> 0])
  /\ Parked("scan", scanRequest = [recursive |-> TRUE, paths |-> {"top"}])
  /\ SessionsInit /\ CacheInit /\ ImportInit /\ BatchInit /\ SnapshotInit /\ ParserInit
  /\ RelationInit /\ OfflineInit /\ ContentInit /\ ScanInit

indexVars == <<snap, scope>>

EngineNext ==
  \/ /\ focus = "sessions" /\ SessionsNext
     /\ UNCHANGED <<focus, cacheVars, importVars, batchVars, indexVars,
                     parserVars, relationVars, offlineVars, contentVars, scanVars>>
  \/ /\ focus = "cache" /\ CacheNext
     /\ UNCHANGED <<focus, sessionVars, importVars, batchVars, indexVars,
                     parserVars, relationVars, offlineVars, contentVars, scanVars>>
  \/ /\ focus = "import" /\ ImportNext
     /\ UNCHANGED <<focus, sessionVars, cacheVars, batchVars, indexVars,
                     parserVars, relationVars, offlineVars, contentVars, scanVars>>
  \/ /\ focus = "batch" /\ BatchNext
     /\ UNCHANGED <<focus, sessionVars, cacheVars, importVars, indexVars,
                     parserVars, relationVars, offlineVars, contentVars, scanVars>>
  \/ /\ focus = "indexes" /\ SnapshotNext
     /\ UNCHANGED <<focus, sessionVars, cacheVars, importVars, batchVars,
                     parserVars, relationVars, offlineVars, contentVars, scanVars>>
  \/ /\ focus = "query" /\ ParserNext
     /\ UNCHANGED <<focus, sessionVars, cacheVars, importVars, batchVars,
                     indexVars, relationVars, offlineVars, contentVars, scanVars>>
  \/ /\ focus = "relations" /\ Resolve
     /\ UNCHANGED <<focus, sessionVars, cacheVars, importVars, batchVars,
                     indexVars, parserVars, offlineVars, contentVars, scanVars>>
  \/ /\ focus = "offline" /\ OfflineNext
     /\ UNCHANGED <<focus, sessionVars, cacheVars, importVars, batchVars,
                     indexVars, parserVars, relationVars, contentVars, scanVars>>
  \/ /\ focus = "content" /\ ContentNext
     /\ UNCHANGED <<focus, sessionVars, cacheVars, importVars, batchVars,
                     indexVars, parserVars, relationVars, offlineVars, scanVars>>
  \/ /\ focus = "scan" /\ ScanNext
     /\ UNCHANGED <<focus, sessionVars, cacheVars, importVars, batchVars,
                     indexVars, parserVars, relationVars, offlineVars, contentVars>>
=============================================================================
