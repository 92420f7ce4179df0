---------------------------- MODULE QuerySessions ----------------------------
(***************************************************************************)
(* How a multi-page search keeps to one snapshot while the index moves on. *)
(* A first page pins a generation, the preferences, the clock and the      *)
(* coverage of the directory scopes in a lease; later pages read through   *)
(* it.  Meanwhile the worker reconciles and publishes, contents are put,   *)
(* preferences change and leases expire.                                   *)
(*                                                                         *)
(* An answer is abstracted to the inputs it was computed from: a query     *)
(* text is one of four kinds, which tell what its answer depends on        *)
(* besides the rows and the preferences ("name" nothing, "date" the clock, *)
(* "relation" the coverage, "content" the stored bodies); "none" is a       *)
(* request for the lease alone (retain_snapshot, renew_snapshot).           *)
(***************************************************************************)
EXTENDS Integers, FiniteSets, Sequences, SequencesExt

CONSTANTS Clients, Bodied, Lifetime, WindowCapacity, OperationCapacity, NoContext,
          Limits    \* bounds to explore: [clock, revision, updates, texts, owners, worker, clients]

Owners == {"none", "window", "operation"}
Texts == {"name", "date", "relation", "content", "none"}

ASSUME SessionsAssumption ==
  /\ Lifetime \in Nat /\ NoContext \notin [renewed : Nat]
  /\ \A l \in Limits : l.clients \subseteq Clients /\ l.texts \subseteq Texts /\ l.owners \subseteq Owners

VARIABLES limit,      \* the bounds of this behaviour, one of Limits
          clock,      \* the monotonic clock the leases read
          db,         \* the committed rows and bodies, as revisions
          shots,      \* every published snapshot, by generation; the last is current
          previous,   \* SearchEngine.previous
          refreshing, \* the refresh that holds refresh_lock
          worker,     \* the state cell and the flags of the index worker
          prefs,      \* SearchEngine.preferences
          saved,      \* the preferences in SQLite, and who holds the store
          leases,     \* SnapshotLeases.records
          pages,      \* cached pages, by generation and key
          req,        \* the request each client has under way
          held        \* the lease each client was given and still uses
sessionVars == <<limit, clock, db, shots, previous, refreshing, worker, prefs, saved,
                 leases, pages, req, held>>

PrefKeys == {"macros", "exclusions"}
current == Len(shots)

Unread == -1
NoneSeen == [b \in Bodied |-> Unread]

\* A revision is whole when no reconciliation pass was half done at it.
Shot(d) == [revision |-> d.revision, content |-> d.content, bodies |-> d.bodies]

\* What a request has read so far; a client without one is idle.
Idle ==
  [pc |-> "idle", generation |-> 0, text |-> "none", owner |-> "none", first |-> FALSE,
   leased |-> FALSE, prefs |-> NoContext, time |-> 0, complete |-> FALSE, from |-> 0, now |-> 0,
   seen |-> NoneSeen, answer |-> NoContext, key |-> "macros", value |-> 0, next |-> NoContext]
SessionsInit ==
  /\ limit \in Limits
  /\ clock = 0
  /\ db = [revision |-> 1, content |-> 0, bodies |-> [b \in Bodied |-> 0],
           dirty |-> FALSE, whole |-> {1}]
  /\ shots = <<Shot(db)>>
  /\ previous = <<>>
  /\ refreshing = {}
  /\ worker = [state |-> "watching", scanning |-> FALSE, initial |-> TRUE,
             replaying |-> FALSE, pc |-> "watch"]
  /\ prefs = [k \in PrefKeys |-> 0]
  /\ saved = [values |-> prefs, updates |-> 0]
  /\ leases = [c \in {} |-> NoContext]
  /\ pages = {}
  /\ req = [c \in Clients |-> Idle]
  /\ held = [c \in Clients |-> NoContext]

Tick == /\ clock < limit.clock
        /\ clock' = clock + 1
        /\ UNCHANGED <<limit, db, shots, previous, refreshing, worker, prefs, saved, leases, pages, req, held>>

-----------------------------------------------------------------------------
(* Snapshots: who keeps a generation alive, and who may still pin it. *)

Pinned(g) == \E c \in Clients : req[c].pc # "idle" /\ req[c].generation = g
Alive(g) ==
  \/ g = current
  \/ \E i \in DOMAIN previous : previous[i].generation = g /\ previous[i].retained
  \/ \E c \in DOMAIN leases : leases[c].generation = g
  \/ Pinned(g)

\* pin: the current generation, or one of the last two that is still alive.
Pinnable == {current} \cup
  {g \in {previous[i].generation : i \in DOMAIN previous} : Alive(g)}

RelationCoverageOfAnyGeneration(g) ==
  /\ ~worker.scanning
  /\ worker.initial
  /\ worker.state \in {"ready", "watching"}

\* relation_coverage: complete only for the current generation, with every
\* pass finished.
RelationCoverage(g) ==
  /\ ~worker.scanning
  /\ g = current
  /\ worker.initial
  /\ worker.state \in {"ready", "watching"}

-----------------------------------------------------------------------------
(* SnapshotLeases. Every operation reads the clock before it takes the lock. *)

Expired(now) == {c \in DOMAIN leases : leases[c].deadline <= now}
Without(cs) == [c \in DOMAIN leases \ cs |-> leases[c]]
Inserted(c, lease) == [x \in DOMAIN leases \cup {c} |-> IF x = c THEN lease ELSE leases[x]]
DiscardExpired(now) == leases' = Without(Expired(now))

Capacity(owner) == IF owner = "window" THEN WindowCapacity ELSE OperationCapacity
Full(owner) ==
  Cardinality({c \in DOMAIN leases : leases[c].owner = owner}) >= Capacity(owner)

NotRenewed(lease, now) == lease

Renewed(lease, now) == [lease EXCEPT !.deadline = now + Lifetime]

\* release_snapshot, and the end of a first page that failed.
Release(c) == leases' = Without({c})

-----------------------------------------------------------------------------
(* Refresh: publication of what is committed, under refresh_lock. *)

RefreshStart ==
  /\ refreshing = {}
  /\ shots[current].revision # db.revision
  /\ \E mode \in {"incremental", "full"} :
       /\ refreshing' = {[shot |-> Shot(db), mode |-> mode]}
       \* release_previous_snapshots
       /\ IF mode = "full"
            THEN /\ previous' = [i \in DOMAIN previous |-> [previous[i] EXCEPT !.retained = FALSE]]
                 /\ DiscardExpired(clock)
            ELSE UNCHANGED <<previous, leases>>
  /\ UNCHANGED <<limit, clock, db, shots, worker, prefs, saved, pages, req, held>>

RefreshPublish ==
  \E r \in refreshing :
    LET old == [generation |-> current, retained |-> r.mode = "incremental"]
        all == Append(previous, old)
    IN /\ shots' = Append(shots, r.shot)
       /\ previous' = IF Len(all) > 2 THEN Tail(all) ELSE all
       /\ refreshing' = {}
       /\ UNCHANGED <<limit, clock, db, worker, prefs, saved, leases, pages, req, held>>

\* put_content: the body and its revision commit together.
PutContent(b) ==
  /\ db.revision < limit.revision
  /\ db' = [db EXCEPT !.revision = @ + 1, !.content = @ + 1,
                      !.bodies[b] = db.content + 1,
                      !.whole = IF db.dirty THEN @ ELSE @ \cup {db.revision + 1}]
  /\ UNCHANGED <<limit, clock, shots, previous, refreshing, worker, prefs, saved, leases, pages, req, held>>

-----------------------------------------------------------------------------
(* The worker, as far as coverage depends on it. *)

WorkerKeeps == UNCHANGED <<limit, clock, shots, previous, refreshing, prefs, saved, leases, pages, req, held>>

\* start_worker, once the last worker was joined: a baseline begins.
StartScan ==
  /\ worker.pc = "end"
  /\ worker' = [state |-> "scanning", scanning |-> TRUE, initial |-> FALSE,
                replaying |-> FALSE, pc |-> "pass"]
  /\ UNCHANGED db /\ WorkerKeeps

\* reconcile_pass for a drain of events, the ones of an interrupted pass included.
BeginUpdate ==
  /\ worker.pc \in {"watch", "pending"} /\ limit.worker
  /\ worker' = [worker EXCEPT !.state = "updating", !.pc = "pass"]
  /\ UNCHANGED db /\ WorkerKeeps

CommitBatch ==
  /\ worker.pc = "pass"
  /\ db.revision < limit.revision
  /\ db' = [db EXCEPT !.revision = @ + 1, !.dirty = TRUE]
  /\ UNCHANGED worker /\ WorkerKeeps

\* finish_observed ends the pass: what is committed now is whole.
FinishObserved ==
  /\ worker.pc = "pass"
  /\ db' = [db EXCEPT !.dirty = FALSE, !.whole = @ \cup {db.revision}]
  /\ worker' = [worker EXCEPT !.pc = "publish"]
  /\ WorkerKeeps

\* A pass over events that is cancelled or must be retried keeps its events.
InterruptPass ==
  /\ worker.pc = "pass" /\ worker.initial
  /\ \E s \in {"updating", "cancelled"} :
       worker' = [worker EXCEPT !.state = s, !.pc = "pending"]
  /\ UNCHANGED db /\ WorkerKeeps

Reported == IF worker.initial
  THEN [worker EXCEPT !.state = IF @ = "updating" /\ worker.replaying THEN "catching_up" ELSE "watching",
                      !.pc = "watch"]
  ELSE [worker EXCEPT !.state = "ready", !.initial = TRUE, !.pc = "scanned"]

\* The state cell is written when the refresh after the pass has returned.
ReportPass ==
  /\ worker.pc = "publish"
  /\ refreshing = {}
  /\ shots[current].revision = db.revision
  /\ worker' = Reported
  /\ UNCHANGED db /\ WorkerKeeps

\* scanning ends after the report; a worker that does not watch ends here.
EndScan ==
  /\ worker.pc = "scanned"
  /\ \E pc \in {"replay", "end"} : worker' = [worker EXCEPT !.scanning = FALSE, !.pc = pc]
  /\ UNCHANGED db /\ WorkerKeeps

BeginReplay ==
  /\ worker.pc = "replay"
  /\ worker' = [worker EXCEPT !.state = "catching_up", !.replaying = TRUE, !.pc = "watch"]
  /\ UNCHANGED db /\ WorkerKeeps

HistoryDone ==
  /\ worker.pc = "watch" /\ worker.replaying
  /\ worker' = [worker EXCEPT !.state = "watching", !.replaying = FALSE]
  /\ UNCHANGED db /\ WorkerKeeps

\* Stop, an error, or a cancelled baseline ends the worker.
EndWorker ==
  /\ worker.pc \in {"pass", "watch"} /\ limit.worker
  /\ worker' = [worker EXCEPT !.state = "stopped", !.scanning = FALSE, !.pc = "end"]
  /\ UNCHANGED db /\ WorkerKeeps

-----------------------------------------------------------------------------
(* Preferences. *)

PrefsKeep == UNCHANGED <<limit, clock, db, shots, previous, refreshing, worker, leases, pages, held>>

\* The update that finds its values in memory returns without the store.
SetPreference(c, k, v) ==
  /\ req[c].pc = "idle"
  /\ saved.updates < limit.updates
  /\ prefs[k] # v
  /\ req' = [req EXCEPT ![c] = [Idle EXCEPT !.pc = "set", !.key = k, !.value = v, !.next = prefs]]
  /\ UNCHANGED <<prefs, saved>> /\ PrefsKeep

StoreHeld == \E c \in Clients : req[c].pc = "write"

NextOfUnlockedCopy(c) == [req[c].next EXCEPT ![req[c].key] = req[c].value]

\* Under the store's mutex: read memory again, write SQL; or fail.
NextPreferences(c) == [prefs EXCEPT ![req[c].key] = req[c].value]

CommitPreference(c) ==
  /\ req[c].pc = "set" /\ ~StoreHeld
  /\ prefs[req[c].key] # req[c].value
  /\ saved.updates < limit.updates
  /\ saved' = [values |-> [saved.values EXCEPT ![req[c].key] = req[c].value],
               updates |-> saved.updates + 1]
  /\ req' = [req EXCEPT ![c] = [@ EXCEPT !.pc = "write", !.next = NextPreferences(c)]]
  /\ UNCHANGED prefs /\ PrefsKeep

\* The commit failed, or another update has made the values equal already.
ReturnPreference(c) ==
  /\ req[c].pc = "set" /\ ~StoreHeld
  /\ req' = [req EXCEPT ![c] = Idle]
  /\ UNCHANGED <<prefs, saved>> /\ PrefsKeep

\* Memory is written, and the store unlocked, after the commit.
PublishPreference(c) ==
  /\ req[c].pc = "write"
  /\ prefs' = req[c].next
  /\ req' = [req EXCEPT ![c] = Idle]
  /\ UNCHANGED saved /\ PrefsKeep

-----------------------------------------------------------------------------
(* Queries. *)

QueryKeeps == UNCHANGED <<limit, clock, db, shots, previous, refreshing, worker, prefs, saved>>

\* What an answer is computed from, and what its key in the cache records.
Answer(g, text, p, time, complete, seen) ==
  [generation |-> g, text |-> text, prefs |-> p,
   time |-> IF text = "date" THEN time ELSE 0,
   complete |-> text = "relation" /\ complete,
   bodies |-> IF text = "content" THEN seen ELSE NoContext]

QueryKeyOfText(text, p, time, complete) ==
  [text |-> text, prefs |-> 0, time |-> 0, complete |-> FALSE]

QueryKey(text, p, time, complete) ==
  [text |-> text, prefs |-> p,
   time |-> IF text = "date" THEN time ELSE 0,
   complete |-> text = "relation" /\ complete]

CacheKey(r) == QueryKey(r.text, r.prefs, r.time, r.complete)

\* query with retain_snapshot (a client has one lease at a time): pin, then preferences, then clock and coverage.
FirstPage(c, g, text, owner) ==
  /\ req[c].pc = "idle" /\ held[c] = NoContext
  /\ g \in Pinnable
  /\ req' = [req EXCEPT ![c] = [Idle EXCEPT !.pc = "prefs", !.generation = g, !.text = text,
                                            !.owner = owner, !.first = TRUE, !.leased = TRUE]]
  /\ UNCHANGED <<leases, pages, held>> /\ QueryKeeps

\* A page without a lease: it pins, and reads the rest when it evaluates.
BarePage(c, g, text) ==
  /\ req[c].pc = "idle" /\ text # "none"
  /\ g \in Pinnable
  /\ req' = [req EXCEPT ![c] = [Idle EXCEPT !.pc = "prefs", !.generation = g, !.text = text]]
  /\ UNCHANGED <<leases, pages, held>> /\ QueryKeeps

ReadPreferences(c) ==
  /\ req[c].pc = "prefs"
  /\ req' = [req EXCEPT ![c] = [@ EXCEPT !.pc = "coverage", !.prefs = prefs]]
  /\ UNCHANGED <<leases, pages, held>> /\ QueryKeeps

ReadCoverage(c) ==
  /\ req[c].pc = "coverage"
  /\ req' = [req EXCEPT ![c] = [@ EXCEPT !.pc = IF req[c].leased THEN "retain" ELSE "lookup",
                                         !.time = clock, !.from = clock,
                                         !.complete = RelationCoverage(req[c].generation)]]
  /\ UNCHANGED <<leases, pages, held>> /\ QueryKeeps

\* The clock is read, expired records are discarded, then the lock is taken again.
RetainDiscard(c) ==
  LET r == req[c] IN
  /\ r.pc \in {"retain", "get"}
  /\ \E now \in r.from .. clock :
       /\ DiscardExpired(now)
       /\ req' = [req EXCEPT ![c] = [r EXCEPT !.pc = IF r.pc = "retain" THEN "retain_locked" ELSE "get_locked",
                                              !.now = now]]
  /\ UNCHANGED <<pages, held>> /\ QueryKeeps

RetainInsert(c) ==
  LET r == req[c] IN
  /\ r.pc = "retain_locked"
  /\ IF Full(r.owner)
       THEN /\ req' = [req EXCEPT ![c] = Idle]
            /\ UNCHANGED <<leases, held>>
       ELSE /\ leases' = Inserted(c, [generation |-> r.generation, prefs |-> r.prefs, time |-> r.time,
                                      complete |-> r.complete, owner |-> r.owner,
                                      deadline |-> r.now + Lifetime])
            /\ held' = [held EXCEPT ![c] = [renewed |-> r.now]]
            /\ req' = [req EXCEPT ![c] = IF r.text = "none" THEN Idle
                                         ELSE [r EXCEPT !.pc = "get", !.from = clock]]
  /\ UNCHANGED pages /\ QueryKeeps

\* A later page, or renew_snapshot: only the token is known so far.
LaterPage(c, text) ==
  /\ req[c].pc = "idle" /\ held[c] # NoContext
  /\ req' = [req EXCEPT ![c] = [Idle EXCEPT !.pc = "get", !.text = text, !.leased = TRUE,
                                            !.from = clock]]
  /\ UNCHANGED <<leases, pages, held>> /\ QueryKeeps

\* get: the record renews its deadline and lends its context.
GetLease(c) ==
  LET r == req[c] IN
  /\ r.pc = "get_locked"
  /\ IF c \in DOMAIN leases
       THEN /\ leases' = [leases EXCEPT ![c] = Renewed(@, r.now)]
            /\ held' = [held EXCEPT ![c] = [renewed |-> r.now]]
            /\ req' = [req EXCEPT ![c] = IF r.text = "none" THEN Idle ELSE
                 [r EXCEPT !.pc = "lookup", !.generation = leases[c].generation,
                           !.prefs = leases[c].prefs, !.time = leases[c].time,
                           !.complete = leases[c].complete]]
       ELSE /\ req' = [req EXCEPT ![c] = Idle]
            /\ held' = [held EXCEPT ![c] = NoContext]
            /\ UNCHANGED leases
  /\ UNCHANGED pages /\ QueryKeeps

\* The error return of a query: the first page gives its lease back.
FailQuery(c) ==
  /\ req' = [req EXCEPT ![c] = Idle]
  /\ IF req[c].first
       THEN Release(c) /\ held' = [held EXCEPT ![c] = NoContext]
       ELSE UNCHANGED <<leases, held>>
  /\ UNCHANGED pages

ContentCurrent(r) == r.text # "content" \/ db.content = shots[r.generation].content

\* validate_content_revision, then the page cache.
Lookup(c) ==
  LET r == req[c]
      hits == {p \in pages : p.answer.generation = r.generation /\ p.key = CacheKey(r)}
  IN /\ r.pc = "lookup"
     /\ IF ~ContentCurrent(r)
          THEN FailQuery(c)
          ELSE /\ IF hits # {} /\ r.text # "content"
                    THEN \E p \in hits :
                           req' = [req EXCEPT ![c] = [r EXCEPT !.pc = "replied", !.answer = p.answer]]
                    ELSE req' = [req EXCEPT ![c] = [r EXCEPT !.pc = "reply", !.seen = NoneSeen]]
               /\ UNCHANGED <<leases, pages, held>>
     /\ QueryKeeps

\* content_for: one body at a time, each under its own lock of the store.
ReadBody(c) ==
  LET r == req[c] IN
  /\ r.pc = "reply" /\ r.text = "content"
  /\ \E b \in Bodied :
       /\ r.seen[b] = Unread
       /\ req' = [req EXCEPT ![c] = [r EXCEPT !.seen = [@ EXCEPT ![b] = db.bodies[b]]]]
  /\ UNCHANGED <<leases, pages, held>> /\ QueryKeeps

\* The rows are matched; the revision is checked again and the page is cached.
Reply(c) ==
  LET r == req[c]
      a == Answer(r.generation, r.text, r.prefs, r.time, r.complete, r.seen)
  IN /\ r.pc = "reply"
     /\ r.text = "content" => \A b \in Bodied : r.seen[b] # Unread
     /\ IF ContentCurrent(r)
          THEN /\ req' = [req EXCEPT ![c] = [r EXCEPT !.pc = "replied", !.answer = a]]
               /\ pages' = IF r.text = "content" THEN pages
                           ELSE pages \cup {[key |-> CacheKey(r), answer |-> a]}
               /\ UNCHANGED <<leases, held>>
          ELSE FailQuery(c)
     /\ QueryKeeps

\* The client has its page, and keeps the lease of a first page.
Answered(c) ==
  /\ req[c].pc = "replied"
  /\ req' = [req EXCEPT ![c] = Idle]
  /\ UNCHANGED <<leases, pages, held>> /\ QueryKeeps

\* A cancelled query stops at its next check of the token.
CancelQuery(c) ==
  /\ req[c].pc \in {"lookup", "reply"}
  /\ FailQuery(c) /\ QueryKeeps

ReleaseSnapshot(c) ==
  /\ req[c].pc = "idle" /\ held[c] # NoContext
  /\ Release(c)
  /\ held' = [held EXCEPT ![c] = NoContext]
  /\ UNCHANGED <<req, pages>> /\ QueryKeeps

\* The derived cache drops pages: under its budget, on memory pressure, or
\* with the last owner of a snapshot.
DropPage ==
  /\ \E p \in pages : pages' = pages \ {p}
  /\ UNCHANGED <<leases, req, held>> /\ QueryKeeps

SessionsNext ==
  \/ Tick \/ RefreshStart \/ RefreshPublish \/ \E b \in Bodied : PutContent(b)
  \/ StartScan \/ BeginUpdate \/ CommitBatch \/ FinishObserved
  \/ InterruptPass \/ ReportPass \/ EndScan \/ BeginReplay \/ HistoryDone \/ EndWorker
  \/ DropPage
  \/ \E c \in limit.clients :
       \/ \E k \in PrefKeys, v \in {0, 1} : SetPreference(c, k, v)
       \/ CommitPreference(c) \/ ReturnPreference(c) \/ PublishPreference(c)
       \/ \E g \in DOMAIN shots, t \in limit.texts, o \in limit.owners : FirstPage(c, g, t, o)
       \/ \E g \in DOMAIN shots, t \in limit.texts : BarePage(c, g, t)
       \/ \E t \in limit.texts : LaterPage(c, t)
       \/ ReadPreferences(c) \/ ReadCoverage(c) \/ RetainDiscard(c) \/ RetainInsert(c)
       \/ GetLease(c) \/ Lookup(c) \/ ReadBody(c) \/ Reply(c) \/ Answered(c)
       \/ CancelQuery(c) \/ ReleaseSnapshot(c)

SessionsSpec == SessionsInit /\ [][SessionsNext]_sessionVars

-----------------------------------------------------------------------------
\* Every page a client is given is the answer of its own query for the context
\* it runs under: the lease's generation, preferences, clock and coverage, or
\* the ones a page without a lease read; and every stored body behind it is
\* the one its snapshot was published with, although pages are cached across
\* clients and bodies are replaced meanwhile (query_inner).
AnswersMatchContext ==
  \A c \in Clients : req[c].pc = "replied" =>
    LET r == req[c] IN
    r.answer = Answer(r.generation, r.text, r.prefs, r.time, r.complete,
                      shots[r.generation].bodies)

\* Coverage is reported complete only for a generation that holds a finished
\* reconciliation: never for a snapshot taken while a pass was half committed
\* (relation_coverage), and so never in a lease either.
CoverageIsHonest ==
  /\ \A c \in DOMAIN leases :
       leases[c].complete => shots[leases[c].generation].revision \in db.whole
  /\ \A c \in Clients :
       req[c].pc = "replied" /\ req[c].answer.complete
         => shots[req[c].generation].revision \in db.whole

\* Unless an update holds the store, the preferences served from memory are
\* the committed ones: concurrent updates of different keys never overwrite
\* each other (preferences).
PreferencesAgree == ~StoreHeld => prefs = saved.values

\* A lease its client still uses is gone only when the client let a whole
\* lifetime pass since the clock its last renewal read (get_at and
\* discard_expired_at of other clients, which read theirs before the lock).
LeaseSurvives ==
  \A c \in Clients : held[c] # NoContext /\ c \notin DOMAIN leases
    => clock >= held[c].renewed + Lifetime

-----------------------------------------------------------------------------
(* The inductive invariant behind the four.                                *)

Prefs == [PrefKeys -> {0, 1}]
SeenBodies == [Bodied -> Nat \cup {Unread}]
Shots == [revision : Nat, content : Nat, bodies : [Bodied -> Nat]]
Answers == [generation : Nat, text : Texts, prefs : Prefs \cup {NoContext}, time : Nat,
            complete : BOOLEAN, bodies : SeenBodies \cup {NoContext}]
Leases == [generation : Nat, prefs : Prefs \cup {NoContext}, time : Nat, complete : BOOLEAN,
           owner : Owners, deadline : Nat]
Requests ==
  [pc : {"idle", "set", "write", "prefs", "coverage", "retain", "retain_locked", "get", "get_locked",
         "lookup", "reply", "replied"},
   generation : Nat, text : Texts, owner : Owners, first : BOOLEAN, leased : BOOLEAN,
   prefs : Prefs \cup {NoContext}, time : Nat, complete : BOOLEAN, from : Nat, now : Nat,
   seen : SeenBodies, answer : Answers \cup {NoContext}, key : PrefKeys, value : {0, 1},
   next : Prefs \cup {NoContext}]

Workers == [state : {"scanning", "ready", "watching", "updating", "cancelled", "catching_up", "stopped"},
            scanning : BOOLEAN, initial : BOOLEAN, replaying : BOOLEAN,
            pc : {"watch", "pass", "pending", "publish", "scanned", "replay", "end"}]

SessionsTypeOK ==
  /\ limit \in Limits /\ clock \in Nat
  /\ db \in [revision : Nat, content : Nat, bodies : [Bodied -> Nat], dirty : BOOLEAN,
             whole : SUBSET Nat]
  /\ shots \in Seq(Shots) /\ shots # << >>
  /\ \A r \in refreshing : r.shot \in Shots
  /\ worker \in Workers
  /\ prefs \in Prefs /\ saved \in [values : Prefs, updates : Nat]
  /\ DOMAIN leases \subseteq Clients /\ leases \in [DOMAIN leases -> Leases]
  /\ req \in [Clients -> Requests]
  /\ held \in [Clients -> [renewed : Nat] \cup {NoContext}]

\* Stored bodies only move on from those of a snapshot with the content revision.
BodiesMoveOn(shot) ==
  /\ shot.content <= db.content
  /\ shot.content = db.content => shot.bodies = db.bodies
ShotsAreBehind ==
  /\ \A g \in DOMAIN shots : BodiesMoveOn(shots[g])
  /\ \A r \in refreshing : BodiesMoveOn(r.shot)

\* Requests and leases name published snapshots, and say so of whole ones only.
Whole(g) == g \in DOMAIN shots /\ shots[g].revision \in db.whole
ContextsAreHonest ==
  /\ \A c \in DOMAIN leases :
       leases[c].generation \in DOMAIN shots /\ (leases[c].complete => Whole(leases[c].generation))
  /\ \A c \in Clients :
       /\ req[c].pc \in {"prefs", "coverage", "retain", "retain_locked", "lookup", "reply", "replied"}
            => req[c].generation \in DOMAIN shots
       /\ req[c].pc \in {"retain", "retain_locked", "lookup", "reply", "replied"} /\ req[c].complete
            => Whole(req[c].generation)

\* Bodies read so far are the snapshot's unless the content has moved on.
SeenIsOfShot ==
  \A c \in Clients : req[c].pc = "reply" /\ req[c].text = "content"
    /\ db.content = shots[req[c].generation].content =>
      \A b \in Bodied : req[c].seen[b] \in {Unread, shots[req[c].generation].bodies[b]}

\* A cached page is the answer to every request with its key.
PagesAnswerKeys ==
  \A p \in pages :
    /\ p.key.text # "content"
    /\ p.answer = [generation |-> p.answer.generation, text |-> p.key.text, prefs |-> p.key.prefs,
                   time |-> p.key.time, complete |-> p.key.complete, bodies |-> NoContext]
    /\ p.answer \in Answers

\* Outside a pass everything committed is whole, and so is what will be published.
Settled == worker.pc \in {"watch", "scanned", "replay"} \/ (worker.pc = "end" /\ worker.state = "ready")
WorkerSettles ==
  /\ ~db.dirty => db.revision \in db.whole
  /\ Settled \/ worker.pc = "publish" => ~db.dirty
  /\ Settled => shots[current].revision \in db.whole /\ \A r \in refreshing : r.shot.revision \in db.whole
  /\ worker.state \in {"ready", "watching"} => Settled
  /\ worker.pc = "scanned" => worker.state = "ready"

\* One update at a time is between its commit and its publication.
WritersTakeTurns ==
  \A c \in Clients : req[c].pc = "write" =>
    req[c].next = saved.values /\ \A d \in Clients : req[d].pc = "write" => d = c

LeasesRunOut ==
  \A c \in Clients : held[c] # NoContext =>
    \/ c \in DOMAIN leases /\ leases[c].deadline >= held[c].renewed + Lifetime
    \/ clock >= held[c].renewed + Lifetime

SessionsInv ==
  /\ SessionsTypeOK /\ ShotsAreBehind /\ ContextsAreHonest /\ SeenIsOfShot /\ PagesAnswerKeys
  /\ WorkerSettles /\ WritersTakeTurns /\ PreferencesAgree /\ LeasesRunOut /\ AnswersMatchContext
=============================================================================
