---------------------------- MODULE PreparedBatch ----------------------------
(***************************************************************************)
(* Hard-linked files in the index.  A changed path must be committed       *)
(* together with every alias of the objects it names or named, or a later  *)
(* pass that finds the path unchanged would never repair the alias.  The   *)
(* aliases are found and read without the store's mutex; the commit        *)
(* replays those reads under it, if the revision and the mounts are those  *)
(* the reads began with.  Objects verified earlier in the same pass are    *)
(* not read again while every observation agrees with the version read.    *)
(*                                                                         *)
(* An observation is [path, obj, ver, links].  A row keeps obj and ver;    *)
(* ver changes with every write, link and unlink of the object (ctime) and *)
(* stands for all of FileObjectVersion but its link count.                 *)
(***************************************************************************)
EXTENDS Integers, FiniteSets, FiniteSetsExt, Functions

CONSTANTS Paths, Objects, NoFile,
          MaxVersion,      \* bound on the changes of one object
          MaxBatch,        \* entries of a batch
          MaxVerified,     \* MAX_VERIFIED_LINK_OBJECTS
          MaxAttempts, MaxMounts

ASSUME BatchAssumption ==
  IsFiniteSet(Paths) /\ NoFile \notin Objects /\ MaxVersion \in Nat \ {0}

VARIABLES disk,      \* the object at each path
          version,   \* of each object
          mount,     \* identity of the mount namespace
          rows,      \* files: [obj, ver, accessible] by path
          tracker,   \* VerifiedFileObjects: [ver, links] by object
          bound,     \* the mount identity the tracker is bound to
          queue,     \* entries enumerated for the next batch
          prep       \* observe_prepared_batch under way
batchVars == <<disk, version, mount, rows, tracker, bound, queue, prep>>

AbsentRow == [obj |-> NoFile, ver |-> 0, accessible |-> FALSE]
Links(o) == Cardinality({p \in Paths : disk[p] = o})
ReadOf(p) == [path |-> p, obj |-> disk[p], ver |-> version[disk[p]], links |-> Links(disk[p])]
Waiting == [pc |-> "idle"]

BatchInit ==
  /\ disk \in [Paths -> Objects \cup {NoFile}]
  /\ version = [o \in Objects |-> 1]
  /\ mount = 1
  /\ rows = [p \in Paths |-> AbsentRow]
  /\ tracker = <<>> /\ bound = 0
  /\ queue = {}
  /\ prep = Waiting

-----------------------------------------------------------------------------
(* The file system. *)

Touch(os) == version' = [o \in Objects |-> IF o \in os THEN version[o] + 1 ELSE version[o]]
DiskKeeps == UNCHANGED <<mount, rows, tracker, bound, queue, prep>>
WriteFile(o) ==
  /\ version[o] < MaxVersion /\ Links(o) > 0
  /\ Touch({o}) /\ UNCHANGED disk /\ DiskKeeps
\* A link, unlink or rename over a path changes the objects it touches.
Replace(p, o) ==
  /\ disk[p] # o
  /\ \A x \in {disk[p], o} \ {NoFile} : version[x] < MaxVersion
  /\ disk' = [disk EXCEPT ![p] = o]
  /\ Touch({disk[p], o}) /\ DiskKeeps
Remount ==
  /\ mount < MaxMounts
  /\ mount' = mount + 1
  /\ UNCHANGED <<disk, version, rows, tracker, bound, queue, prep>>

-----------------------------------------------------------------------------
(* What an observation means for the rows and the tracker. *)

Differs(r, e) == r # [obj |-> e.obj, ver |-> e.ver, accessible |-> TRUE]
Known(r) == r.obj # NoFile
Version(e) == [ver |-> e.ver, links |-> e.links]

\* VerifiedFileObjects.observe: only a hard-linked object with the version read.
Reusable(t, e) == e.links > 1 /\ e.obj \in DOMAIN t /\ t[e.obj] = Version(e)

ObserveOnly(t, rs, es) == t

\* The tracker after the observations: mismatches are forgotten before any
\* work that may fail, and so is the object a replaced path named.
Observe(t, rs, es) ==
  LET forget == {e.obj : e \in {x \in es : ~Reusable(t, x)}}
        \cup {rs[e.path].obj : e \in {x \in es : /\ Known(rs[x.path]) /\ Differs(rs[x.path], x)
                                                 /\ ~Reusable(t, x) \/ rs[x.path].obj # x.obj}}
  IN Restrict(t, DOMAIN t \ forget)
\* The objects whose aliases must be read: those of changed paths, old and new,
\* and every object that is or may be linked; unless the tracker vouches.
ObjectsOf(rs, es) ==
  {rs[e.path].obj : e \in {x \in es : Known(rs[x.path]) /\ Differs(rs[x.path], x)}}
    \cup {e.obj : e \in {x \in es : Differs(rs[x.path], x) \/ x.links # 1}}
ToVerify(t, rs, es) == ObjectsOf(rs, es) \ DOMAIN Observe(t, rs, es)
Peers(rs, os) == {p \in Paths : rs[p].accessible /\ rs[p].obj \in os}

\* verification_paths: the accessible rows of those objects, and the entries.
VerificationPaths(rs, es, t) ==
  LET os == ToVerify(t, rs, es)
  IN Peers(rs, os) \cup {e.path : e \in {x \in es : x.obj \in os}}

-----------------------------------------------------------------------------
(* observe_prepared_batch *)

\* The scanner queues what it reads; a batch is taken when it likes.
Enumerate(p) ==
  /\ prep = Waiting /\ disk[p] # NoFile
  /\ Cardinality(queue) < MaxBatch /\ \A e \in queue : e.path # p
  /\ queue' = queue \cup {ReadOf(p)}
  /\ UNCHANGED <<disk, version, mount, rows, tracker, bound, prep>>

\* An attempt: bind_mount drops the proofs of another namespace.
Attempt(es, n) ==
  /\ prep' = [pc |-> "plan", entries |-> es, all |-> es, reads |-> {}, gone |-> {},
              unread |-> {}, visited |-> {}, todo |-> {}, round |-> {}, scope |-> mount,
              statScope |-> mount, attempt |-> n]
  /\ tracker' = IF bound = mount THEN tracker ELSE <<>>
  /\ bound' = mount
StartBatch ==
  /\ prep = Waiting /\ queue # {}
  /\ Attempt(queue, 1)
  /\ queue' = {}
  /\ UNCHANGED <<disk, version, mount, rows>>

\* One round of the closure, under the store's mutex.
PlanOnce ==
  /\ prep.pc = "plan"
  /\ LET paths == VerificationPaths(rows, prep.all, tracker) \ prep.visited
     IN prep' = IF prep.visited # {} \/ paths = {} THEN [prep EXCEPT !.pc = "check"]
                ELSE [prep EXCEPT !.pc = "stat", !.todo = paths, !.visited = @ \cup paths]
  /\ tracker' = Observe(tracker, rows, prep.all)
  /\ UNCHANGED <<disk, version, mount, rows, bound, queue>>

PlanRound ==
  /\ prep.pc = "plan"
  /\ LET paths == VerificationPaths(rows, prep.all, tracker) \ prep.visited
     IN prep' = IF paths = {} THEN [prep EXCEPT !.pc = "check"]
                ELSE [prep EXCEPT !.pc = "stat", !.todo = paths, !.visited = @ \cup paths]
  /\ tracker' = Observe(tracker, rows, prep.all)
  /\ UNCHANGED <<disk, version, mount, rows, bound, queue>>

\* stat_entries reads the paths one after the other, without the mutex, under a
\* mount scope of its own.
BeginStat ==
  /\ prep.pc = "stat"
  /\ prep' = [prep EXCEPT !.pc = "read", !.statScope = mount]
  /\ UNCHANGED <<disk, version, mount, rows, tracker, bound, queue>>

\* A stat may fail for a file that is there; check_links looks whether it is gone.
StatOutcomes(p) == IF disk[p] = NoFile THEN {"gone", "unread"} ELSE {"read", "unread"}
ReadPath(p) ==
  /\ prep.pc = "read" /\ p \in prep.todo
  /\ \E outcome \in StatOutcomes(p) :
       prep' = [prep EXCEPT !.todo = @ \ {p},
                  !.round = IF outcome = "read" THEN @ \cup {ReadOf(p)} ELSE @,
                  !.gone = IF outcome = "gone" THEN @ \cup {p} ELSE @,
                  !.unread = IF outcome = "unread" THEN @ \cup {p} ELSE @]
  /\ UNCHANGED <<disk, version, mount, rows, tracker, bound, queue>>

\* Cancelled, or a parent was replaced or a mount moved under the reads: nothing
\* of the round is used, and the pass starts over.
AbortStat ==
  /\ prep.pc = "read"
  /\ prep' = Waiting /\ queue' = {}
  /\ UNCHANGED <<disk, version, mount, rows, tracker, bound>>

StillCurrent == mount = prep.statScope

\* The object may change between those reads: all its paths get what was read
\* last, but each keeps its own link count.
Agreed(reads) ==
  {[e EXCEPT !.ver = Max({f.ver : f \in {x \in reads : x.obj = e.obj}})] : e \in reads}

ReadDone ==
  /\ prep.pc = "read" /\ prep.todo = {} /\ StillCurrent
  /\ prep' = [prep EXCEPT !.pc = "plan", !.reads = @ \cup Agreed(prep.round),
                          !.all = @ \cup Agreed(prep.round), !.round = {}]
  /\ UNCHANGED <<disk, version, mount, rows, tracker, bound, queue>>

\* Cancelled, or the mounts changed: the batch is dropped, and the pass with it.
GiveUp ==
  /\ prep.pc \in {"plan", "check"}
  /\ prep' = Waiting /\ queue' = {}
  /\ UNCHANGED <<disk, version, mount, rows, tracker, bound>>

\* Another writer advanced the revision: recollect, for eight attempts.
Conflict ==
  /\ prep.pc \in {"plan", "check"} /\ prep.attempt < MaxAttempts
  /\ Attempt(prep.entries, prep.attempt + 1)
  /\ UNCHANGED <<disk, version, mount, rows, queue>>

\* The revision and the mounts are still those of the attempt.
BeginCommit ==
  /\ prep.pc = "check" /\ mount = prep.scope
  /\ prep' = [pc |-> "commit", rows |-> rows, tracker |-> tracker, batch |-> prep.entries,
              all |-> prep.all, reads |-> prep.reads, gone |-> prep.gone, unread |-> prep.unread,
              objects |-> {}, paths |-> {}, fresh |-> {}, complete |-> TRUE, missing |-> {}]
  /\ UNCHANGED <<disk, version, mount, rows, tracker, bound, queue>>

-----------------------------------------------------------------------------
(* batch_inner, one round at a time; the transaction holds the store's mutex. *)

Upsert(rs, es) ==
  [p \in Paths |-> LET mine == {e \in es : e.path = p} IN
     IF mine = {} THEN rs[p]
     ELSE LET e == CHOOSE x \in mine : TRUE
          IN [obj |-> e.obj, ver |-> e.ver, accessible |-> TRUE]]

\* Rows are written, then the aliases not yet visited are asked for.
CommitRound ==
  /\ prep.pc = "commit" /\ prep.batch # {}
  /\ LET es    == prep.batch
         t     == Observe(prep.tracker, prep.rows, es)
         os    == ToVerify(prep.tracker, prep.rows, es) \ prep.objects
         after == Upsert(prep.rows, es)
         asked == Peers(after, os) \ prep.paths
         read  == {e \in prep.reads : e.path \in asked}
     IN prep' = [prep EXCEPT
          !.tracker = t,
          !.rows = [p \in Paths |->
                      IF p \in asked \cap prep.gone THEN AbsentRow
                      ELSE IF p \in asked \cap prep.unread THEN [after[p] EXCEPT !.accessible = FALSE]
                      ELSE after[p]],
          !.objects = @ \cup os, !.paths = @ \cup asked, !.fresh = @ \cup read,
          !.complete = @ /\ asked \cap prep.unread = {},
          !.missing = asked \ ({e.path : e \in prep.reads} \cup prep.gone \cup prep.unread),
          !.batch = read]
  /\ UNCHANGED <<disk, version, mount, rows, tracker, bound, queue>>

\* An object is proved by its fresh reads only if they agree and are of links.
Proofs == {o \in prep.objects :
  LET mine == {e \in prep.fresh : e.obj = o}
  IN mine # {} /\ \A e, f \in mine : Version(e) = Version(f) /\ e.links > 1}

CommitDone ==
  /\ prep.pc = "commit" /\ prep.batch = {} /\ prep.missing = {}
  /\ rows' = prep.rows
  /\ \E kept \in SUBSET Objects :
       LET proofs == IF prep.complete THEN Proofs ELSE {}
           old    == DOMAIN prep.tracker \ proofs
           Read(o) == Version(CHOOSE e \in prep.fresh : e.obj = o)
       IN /\ kept \subseteq proofs \cup old
          /\ Cardinality(kept) <= MaxVerified
          \* the oldest proofs make room, and no more than are needed
          /\ Cardinality(proofs \cup old) <= MaxVerified => kept = proofs \cup old
          /\ tracker' = [o \in kept |-> IF o \in proofs THEN Read(o) ELSE prep.tracker[o]]
  /\ prep' = Waiting
  /\ UNCHANGED <<disk, version, mount, bound, queue>>

BatchNext ==
  \/ \E o \in Objects : WriteFile(o)
  \/ \E p \in Paths, o \in Objects \cup {NoFile} : Replace(p, o)
  \/ Remount
  \/ \E p \in Paths : Enumerate(p) \/ ReadPath(p)
  \/ StartBatch \/ PlanRound \/ BeginStat \/ ReadDone \/ AbortStat \/ GiveUp \/ Conflict
  \/ BeginCommit \/ CommitRound \/ CommitDone

BatchSpec == BatchInit /\ [][BatchNext]_batchVars

-----------------------------------------------------------------------------
\* The commit never asks for an alias the preparation did not read: the closure
\* computed from the rows before the transaction covers the one the transaction
\* computes while it changes them ("Incomplete prepared alias closure").
ClosureIsPrepared == prep.pc = "commit" => prep.missing = {}

\* A proof that lets later entries skip the aliases of an object is true of
\* every row: all accessible rows of the object have the version proved, however
\* the files changed while they were read and whatever failed in between
\* (VerifiedFileObjects, batch_inner).
ProofsHoldOfRows ==
  \A o \in DOMAIN tracker : \A p \in Peers(rows, {o}) : rows[p].ver = tracker[o].ver

-----------------------------------------------------------------------------
(* The inductive invariant behind them. *)

Observations == [path : Paths, obj : Objects, ver : 1 .. MaxVersion, links : Nat]
FileRows == [obj : Objects \cup {NoFile}, ver : Nat, accessible : BOOLEAN]
Preparing ==
  [pc : {"plan", "stat", "read", "check"}, entries : SUBSET Observations,
   all : SUBSET Observations, reads : SUBSET Observations, round : SUBSET Observations,
   gone : SUBSET Paths, unread : SUBSET Paths, visited : SUBSET Paths, todo : SUBSET Paths,
   scope : Nat, statScope : Nat, attempt : Nat]
\* The transaction forgets nothing that the preparation has not forgotten.
Committing ==
  [pc : {"commit"}, rows : [Paths -> FileRows], tracker : {tracker}, batch : SUBSET Observations,
   all : SUBSET Observations, reads : SUBSET Observations, fresh : SUBSET Observations,
   gone : SUBSET Paths, unread : SUBSET Paths, paths : SUBSET Paths, missing : SUBSET Paths,
   objects : SUBSET Objects, complete : BOOLEAN]

BatchTypeOK ==
  /\ disk \in [Paths -> Objects \cup {NoFile}] /\ version \in [Objects -> 1 .. MaxVersion]
  /\ mount \in Nat /\ rows \in [Paths -> FileRows] /\ queue \subseteq Observations
  /\ DOMAIN tracker \subseteq Objects /\ tracker = [o \in DOMAIN tracker |-> tracker[o]]
  /\ prep \in {Waiting} \cup Preparing \cup Committing

PathsOf(es) == {e.path : e \in es}

\* Where every path asked for is: still to be read, or read with one outcome.
ReadsAreSorted ==
  prep \in Preparing =>
    /\ prep.all = prep.entries \cup prep.reads
    /\ prep.visited = PathsOf(prep.reads \cup prep.round) \cup prep.gone \cup prep.unread \cup prep.todo
    /\ PathsOf(prep.reads \cup prep.round) \cap (prep.gone \cup prep.unread \cup prep.todo) = {}
    /\ prep.todo \cap (prep.gone \cup prep.unread) = {}
    /\ prep.pc \in {"plan", "check"} => prep.todo = {} /\ prep.round = {}

\* The observations leave the tracker as it is, and their closure was visited.
ClosureVisited(es, seen) ==
  /\ Observe(tracker, rows, es) = tracker
  /\ VerificationPaths(rows, es, tracker) \subseteq seen
Unverified(es) == ObjectsOf(rows, es) \ DOMAIN tracker

PlanIsSettled == prep.pc = "check" => ClosureVisited(prep.all, prep.visited)

\* The transaction stays within the closure: it writes what was observed, and asks
\* for the aliases of objects that the preparation found unverified.
CommitIsPrepared ==
  prep.pc = "commit" =>
    /\ ClosureVisited(prep.all, PathsOf(prep.reads) \cup prep.gone \cup prep.unread)
    /\ PathsOf(prep.reads) \cap (prep.gone \cup prep.unread) = {}
    /\ prep.reads \subseteq prep.all /\ prep.batch \subseteq prep.all /\ prep.fresh \subseteq prep.reads
    /\ prep.missing = {}
    /\ prep.objects \subseteq Unverified(prep.all)
    /\ \A p \in Paths : prep.rows[p].accessible =>
         prep.rows[p] = rows[p] \/ \E e \in prep.all : e.path = p /\ ~Differs(prep.rows[p], e)
    /\ \A e \in prep.batch :
         \/ prep.rows[e.path] = rows[e.path]
         \/ prep.rows[e.path].accessible /\ prep.rows[e.path].obj \in prep.objects

\* The aliases of the objects verified so far were asked for, and what was read of
\* them is in their rows or about to be written.
AliasesAreWritten ==
  prep.pc = "commit" =>
    /\ Peers(prep.rows, prep.objects) \subseteq prep.paths
    /\ \A p \in prep.paths :
         \/ p \in prep.gone /\ ~prep.rows[p].accessible
         \/ p \in prep.unread /\ ~prep.complete
         \/ \E e \in prep.fresh : e.path = p /\ (e \in prep.batch \/ ~Differs(prep.rows[p], e))
    /\ \/ prep.objects = {} /\ prep.paths = {}
       \/ \A e \in prep.batch : e \in prep.fresh /\ e.path \in prep.paths

BatchInv ==
  /\ BatchTypeOK /\ ReadsAreSorted /\ PlanIsSettled /\ CommitIsPrepared /\ AliasesAreWritten
  /\ ProofsHoldOfRows
=============================================================================
