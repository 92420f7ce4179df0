------------------------- MODULE QuerySessionsProofs -------------------------
(***************************************************************************)
(* Sessions with any number of clients, generations, bodies and updates.   *)
(***************************************************************************)
EXTENDS QuerySessions, SequenceTheorems, TLAPS

\* The parts of the invariant that speak of a request and of a lease alone.
RequestFits(r) ==
  /\ r.pc \in {"prefs", "coverage", "retain", "retain_locked", "lookup", "reply", "replied"}
       => r.generation \in DOMAIN shots
  /\ r.pc \in {"retain", "retain_locked", "lookup", "reply", "replied"} /\ r.complete
       => Whole(r.generation)
  /\ r.pc = "reply" /\ r.text = "content" /\ db.content = shots[r.generation].content =>
       \A b \in Bodied : r.seen[b] \in {Unread, shots[r.generation].bodies[b]}
  /\ r.pc = "replied" =>
       r.answer = Answer(r.generation, r.text, r.prefs, r.time, r.complete, shots[r.generation].bodies)
LeaseFits(l) == l.generation \in DOMAIN shots /\ (l.complete => Whole(l.generation))

LEMMA FitParts ==
    ContextsAreHonest /\ SeenIsOfShot /\ AnswersMatchContext <=>
      /\ \A c \in DOMAIN leases : LeaseFits(leases[c])
      /\ \A c \in Clients : RequestFits(req[c])
  BY DEF ContextsAreHonest, SeenIsOfShot, AnswersMatchContext, RequestFits, LeaseFits

\* Snapshots are only added, and revisions become whole and stay so.
Grows ==
  /\ shots' \in Seq(Shots) /\ shots' # << >> /\ DOMAIN shots \subseteq DOMAIN shots'
  /\ \A g \in DOMAIN shots : shots'[g] = shots[g]
  /\ db.whole \subseteq db'.whole

LEMMA LeaseStays ==
    ASSUME Grows, NEW l, LeaseFits(l)
    PROVE  LeaseFits(l)'
  BY DEF Grows, LeaseFits, Whole

\* A request that nobody touches still fits.
LEMMA RequestStays ==
    ASSUME Grows, NEW r, RequestFits(r),
           \/ db'.content = db.content
           \/ \A g \in DOMAIN shots : db'.content # shots[g].content
    PROVE  RequestFits(r)'
  <1>1. r.pc \in {"reply", "replied"} =>
          r.generation \in DOMAIN shots /\ shots'[r.generation] = shots[r.generation]
    BY DEF RequestFits, Grows
  <1>2. r.pc \in {"prefs", "coverage", "retain", "retain_locked", "lookup", "reply", "replied"}
          => r.generation \in DOMAIN shots'
    BY DEF RequestFits, Grows
  <1>3. r.pc \in {"retain", "retain_locked", "lookup", "reply", "replied"} /\ r.complete
          => Whole(r.generation)'
    BY DEF Whole, Grows, RequestFits
  <1>4. r.pc = "reply" /\ r.text = "content" /\ db'.content = shots'[r.generation].content =>
          \A b \in Bodied : r.seen[b] \in {Unread, shots'[r.generation].bodies[b]}
    BY <1>1 DEF RequestFits
  <1>5. r.pc = "replied" =>
          r.answer = Answer(r.generation, r.text, r.prefs, r.time, r.complete,
                            shots'[r.generation].bodies)
    BY <1>1 DEF RequestFits
  <1>6. QED
    BY <1>2, <1>3, <1>4, <1>5 DEF RequestFits

\* A step of the clock, the worker or a refresh, which touches no request.
LEMMA OutsideStep ==
    ASSUME SessionsInv, SessionsTypeOK', Grows, ShotsAreBehind', WorkerSettles',
           \/ db'.content = db.content
           \/ \A g \in DOMAIN shots : db'.content # shots[g].content,
           DOMAIN leases' \subseteq DOMAIN leases, \A c \in DOMAIN leases' : leases'[c] = leases[c],
           LeasesRunOut', UNCHANGED <<prefs, saved, pages, req>>
    PROVE  SessionsInv'
  <1>1. /\ \A c \in DOMAIN leases : LeaseFits(leases[c])
        /\ \A c \in Clients : RequestFits(req[c])
    BY FitParts DEF SessionsInv
  <1>2. ASSUME NEW c \in DOMAIN leases' PROVE LeaseFits(leases[c])'
    <2>1. PICK l : l = leases[c]
      OBVIOUS
    <2>2. LeaseFits(l)'
      BY <1>1, <2>1, LeaseStays
    <2>3. QED
      BY <2>1, <2>2 DEF LeaseFits
  <1>3. ASSUME NEW c \in Clients PROVE RequestFits(req[c])'
    <2>1. PICK r : r = req[c]
      OBVIOUS
    <2>2. RequestFits(r)'
      BY <1>1, <2>1, RequestStays
    <2>3. QED
      BY <2>1, <2>2
  <1>4. (ContextsAreHonest /\ SeenIsOfShot /\ AnswersMatchContext)'
    BY <1>2, <1>3 DEF ContextsAreHonest, SeenIsOfShot, AnswersMatchContext, RequestFits, LeaseFits
  <1>5. PagesAnswerKeys' /\ WritersTakeTurns' /\ PreferencesAgree'
    BY DEF SessionsInv, PagesAnswerKeys, WritersTakeTurns, PreferencesAgree, StoreHeld
  <1>6. QED
    BY <1>4, <1>5 DEF SessionsInv

\* Without a step the snapshots grow by nothing.
LEMMA NothingGrows ==
    ASSUME SessionsTypeOK, UNCHANGED shots, db.whole \subseteq db'.whole
    PROVE  Grows
  BY DEF Grows, SessionsTypeOK

LEMMA TickStep ==
    ASSUME SessionsInv, Tick
    PROVE  SessionsInv'
  <1>1. /\ SessionsTypeOK /\ clock' = clock + 1
        /\ UNCHANGED <<limit, db, shots, refreshing, worker, prefs, saved, leases, pages, req, held>>
    BY DEF Tick, SessionsInv
  <1>2. SessionsTypeOK' /\ Grows
    BY <1>1, NothingGrows DEF SessionsTypeOK
  <1>3. ShotsAreBehind' /\ WorkerSettles'
    BY <1>1 DEF SessionsInv, ShotsAreBehind, BodiesMoveOn, WorkerSettles, Settled, current
  <1>4. LeasesRunOut'
    <2>1. SUFFICES ASSUME NEW c \in Clients, held[c] # NoContext
                   PROVE  \/ c \in DOMAIN leases /\ leases[c].deadline >= held[c].renewed + Lifetime
                          \/ clock + 1 >= held[c].renewed + Lifetime
      BY <1>1 DEF LeasesRunOut
    <2>2. held[c].renewed \in Nat /\ clock \in Nat /\ Lifetime \in Nat
      BY <1>1, <2>1, SessionsAssumption DEF SessionsTypeOK
    <2>3. QED
      BY <2>1, <2>2 DEF SessionsInv, LeasesRunOut
  <1>5. QED
    BY <1>1, <1>2, <1>3, <1>4, OutsideStep

\* The records with a deadline that is past are no longer needed.
LEMMA DiscardStep ==
    ASSUME SessionsTypeOK, LeasesRunOut, NEW now \in Nat, now <= clock, DiscardExpired(now),
           UNCHANGED <<clock, held>>
    PROVE  /\ LeasesRunOut' /\ DOMAIN leases' \subseteq DOMAIN leases
           /\ \A c \in DOMAIN leases' : leases'[c] = leases[c]
           /\ leases' \in [DOMAIN leases' -> Leases]
  <1>1. /\ DOMAIN leases' = DOMAIN leases \ Expired(now)
        /\ \A c \in DOMAIN leases' : leases'[c] = leases[c]
    BY DEF DiscardExpired, Without
  <1>2. leases' \in [DOMAIN leases' -> Leases]
    BY <1>1 DEF SessionsTypeOK, DiscardExpired, Without
  <1>3. LeasesRunOut'
    <2>1. SUFFICES ASSUME NEW c \in Clients, held[c] # NoContext
                   PROVE  \/ c \in DOMAIN leases' /\ leases'[c].deadline >= held[c].renewed + Lifetime
                          \/ clock >= held[c].renewed + Lifetime
      BY DEF LeasesRunOut
    <2>2. held[c].renewed \in Nat /\ clock \in Nat /\ Lifetime \in Nat
      BY <2>1, SessionsAssumption DEF SessionsTypeOK
    <2>3. CASE c \in DOMAIN leases /\ leases[c].deadline >= held[c].renewed + Lifetime
      <3>1. leases[c].deadline \in Nat
        BY <2>3 DEF SessionsTypeOK, Leases
      <3>2. c \in Expired(now) => leases[c].deadline <= now
        BY DEF Expired
      <3>3. QED
        BY <1>1, <2>2, <2>3, <3>1, <3>2
    <2>4. QED
      BY <2>1, <2>3 DEF LeasesRunOut
  <1>4. QED
    BY <1>1, <1>2, <1>3

LEMMA RefreshStartStep ==
    ASSUME SessionsInv, RefreshStart
    PROVE  SessionsInv'
  <1>1. /\ SessionsTypeOK /\ ShotsAreBehind /\ WorkerSettles /\ LeasesRunOut
        /\ UNCHANGED <<limit, clock, db, shots, worker, prefs, saved, pages, req, held>>
    BY DEF RefreshStart, SessionsInv
  <1>2. PICK mode \in {"incremental", "full"} :
          /\ refreshing' = {[shot |-> Shot(db), mode |-> mode]}
          /\ DiscardExpired(clock) \/ UNCHANGED leases
    BY DEF RefreshStart
  <1>3. /\ LeasesRunOut' /\ DOMAIN leases' \subseteq DOMAIN leases
        /\ \A c \in DOMAIN leases' : leases'[c] = leases[c]
        /\ leases' \in [DOMAIN leases' -> Leases]
    <2>1. CASE DiscardExpired(clock)
      <3>1. clock \in Nat /\ clock <= clock
        BY <1>1 DEF SessionsTypeOK
      <3>2. QED
        BY <1>1, <2>1, <3>1, DiscardStep
    <2>2. CASE UNCHANGED leases
      BY <1>1, <2>2 DEF LeasesRunOut, SessionsTypeOK
    <2>3. QED
      BY <1>2, <2>1, <2>2
  <1>4. /\ Shot(db) \in Shots /\ Shot(db).revision = db.revision /\ Shot(db).content = db.content
        /\ Shot(db).bodies = db.bodies
    BY <1>1 DEF SessionsTypeOK, Shot, Shots
  <1>5. SessionsTypeOK' /\ Grows
    BY <1>1, <1>2, <1>3, <1>4, NothingGrows DEF SessionsTypeOK
  <1>6. ShotsAreBehind'
    BY <1>1, <1>2, <1>4 DEF ShotsAreBehind, BodiesMoveOn, SessionsTypeOK
  <1>7. WorkerSettles'
    BY <1>1, <1>2, <1>4 DEF WorkerSettles, Settled, current
  <1>8. QED
    BY <1>1, <1>3, <1>5, <1>6, <1>7, OutsideStep

LEMMA RefreshPublishStep ==
    ASSUME SessionsInv, RefreshPublish
    PROVE  SessionsInv'
  <1>1. /\ SessionsTypeOK /\ ShotsAreBehind /\ WorkerSettles /\ LeasesRunOut
        /\ refreshing' = {}
        /\ UNCHANGED <<limit, clock, db, worker, prefs, saved, leases, pages, req, held>>
    BY DEF RefreshPublish, SessionsInv
  <1>2. PICK r \in refreshing : shots' = Append(shots, r.shot)
    BY DEF RefreshPublish
  <1>3. shots \in Seq(Shots) /\ r.shot \in Shots /\ Len(shots) \in Nat
    BY <1>1 DEF SessionsTypeOK
  <1>4. /\ shots' \in Seq(Shots) /\ Len(shots') = Len(shots) + 1 /\ shots'[Len(shots) + 1] = r.shot
        /\ \A g \in 1 .. Len(shots) : shots'[g] = shots[g]
    BY <1>2, <1>3, AppendProperties
  <1>5. DOMAIN shots = 1 .. Len(shots) /\ DOMAIN shots' = 1 .. (Len(shots) + 1)
    BY <1>3, <1>4
  <1>6. Grows
    BY <1>1, <1>3, <1>4, <1>5 DEF Grows
  <1>7. SessionsTypeOK'
    BY <1>1, <1>6 DEF SessionsTypeOK, Grows
  <1>8. ShotsAreBehind'
    <2>1. SUFFICES ASSUME NEW g \in DOMAIN shots' PROVE BodiesMoveOn(shots'[g])
      BY <1>1 DEF ShotsAreBehind, BodiesMoveOn
    <2>2. CASE g \in DOMAIN shots
      BY <1>1, <1>4, <1>5, <2>2 DEF ShotsAreBehind
    <2>3. CASE g = Len(shots) + 1
      BY <1>1, <1>2, <1>4, <2>3 DEF ShotsAreBehind
    <2>4. QED
      BY <1>3, <1>5, <2>2, <2>3
  <1>9. WorkerSettles'
    BY <1>1, <1>2, <1>4 DEF WorkerSettles, Settled, current
  <1>10. QED
    BY <1>1, <1>6, <1>7, <1>8, <1>9, OutsideStep DEF LeasesRunOut

LEMMA PutContentStep ==
    ASSUME SessionsInv, NEW b \in Bodied, PutContent(b)
    PROVE  SessionsInv'
  <1>1. /\ SessionsTypeOK /\ ShotsAreBehind /\ WorkerSettles /\ LeasesRunOut
        /\ UNCHANGED <<limit, clock, shots, refreshing, worker, prefs, saved, leases, pages, req, held>>
    BY DEF PutContent, SessionsInv
  <1>2. /\ db'.revision = db.revision + 1 /\ db'.content = db.content + 1 /\ db'.dirty = db.dirty
        /\ db'.whole = (IF db.dirty THEN db.whole ELSE db.whole \cup {db.revision + 1})
        /\ db' \in [revision : Nat, content : Nat, bodies : [Bodied -> Nat], dirty : BOOLEAN,
                    whole : SUBSET Nat]
    <2>1. db \in [revision : Nat, content : Nat, bodies : [Bodied -> Nat], dirty : BOOLEAN,
                  whole : SUBSET Nat]
      BY <1>1 DEF SessionsTypeOK
    <2>2. /\ db.revision \in Nat /\ db.content \in Nat /\ db.bodies \in [Bodied -> Nat]
          /\ db.dirty \in BOOLEAN /\ db.whole \in SUBSET Nat
      BY <2>1
    <2>3. PICK w \in SUBSET Nat : w = (IF db.dirty THEN db.whole ELSE db.whole \cup {db.revision + 1})
      <3>1. db.whole \cup {db.revision + 1} \in SUBSET Nat
        BY <2>2
      <3>2. QED
        BY <2>2, <3>1, Zenon
    <2>4. PICK t \in [Bodied -> Nat] : t = [db.bodies EXCEPT ![b] = db.content + 1]
      <3>1. db.content + 1 \in Nat
        BY <2>2
      <3>2. QED
        BY <2>2, <3>1
    <2>5. db' = [db EXCEPT !.revision = db.revision + 1, !.content = db.content + 1, !.bodies = t,
                           !.whole = w]
      BY <2>1, <2>3, <2>4 DEF PutContent
    <2>6. /\ db'.revision = db.revision + 1 /\ db'.content = db.content + 1 /\ db'.dirty = db.dirty
          /\ db'.whole = w
      BY <2>1, <2>5
    <2>7. db' \in [revision : Nat, content : Nat, bodies : [Bodied -> Nat], dirty : BOOLEAN,
                   whole : SUBSET Nat]
      <3>1. PICK n \in Nat, m \in Nat : n = db.revision + 1 /\ m = db.content + 1
        BY <2>2
      <3>2. db' = [db EXCEPT !.revision = n, !.content = m, !.bodies = t, !.whole = w]
        BY <2>5, <3>1
      <3>3. QED
        BY <2>1, <3>2
    <2>8. QED
      BY <2>3, <2>6, <2>7, Zenon
  <1>3. SessionsTypeOK' /\ Grows
    <2>1. db.whole \subseteq db'.whole
      BY <1>2
    <2>2. QED
      BY <1>1, <1>2, <2>1, NothingGrows DEF SessionsTypeOK
  <1>4. /\ \A g \in DOMAIN shots : shots[g].content \in Nat /\ shots[g].content < db'.content
        /\ \A r \in refreshing : r.shot.content \in Nat /\ r.shot.content < db'.content
    <2>1. db.content \in Nat /\ \A g \in DOMAIN shots : shots[g] \in Shots
      BY <1>1, ElementOfSeq DEF SessionsTypeOK
    <2>2. \A r \in refreshing : r.shot \in Shots
      BY <1>1 DEF SessionsTypeOK
    <2>3. QED
      BY <1>1, <1>2, <2>1, <2>2 DEF ShotsAreBehind, BodiesMoveOn, Shots
  <1>5. ShotsAreBehind'
    BY <1>1, <1>2, <1>4 DEF ShotsAreBehind, BodiesMoveOn, SessionsTypeOK
  <1>6. WorkerSettles'
    BY <1>1, <1>2 DEF WorkerSettles, Settled, current
  <1>7. \A g \in DOMAIN shots : db'.content # shots[g].content
    BY <1>1, <1>2, <1>4 DEF SessionsTypeOK
  <1>8. QED
    BY <1>1, <1>3, <1>5, <1>6, <1>7, OutsideStep DEF LeasesRunOut

\* What a step of the worker has to show: how it moves the rows and itself.
LEMMA WorkerStep ==
    ASSUME SessionsInv, WorkerKeeps, WorkerSettles',
           db' \in [revision : Nat, content : Nat, bodies : [Bodied -> Nat], dirty : BOOLEAN,
                    whole : SUBSET Nat],
           worker' \in Workers,
           db'.content = db.content, db'.bodies = db.bodies, db.whole \subseteq db'.whole
    PROVE  SessionsInv'
  <1>1. /\ SessionsTypeOK /\ ShotsAreBehind /\ LeasesRunOut
        /\ UNCHANGED <<limit, clock, shots, refreshing, prefs, saved, leases, pages, req, held>>
    BY DEF SessionsInv, WorkerKeeps
  <1>2. SessionsTypeOK' /\ Grows
    BY <1>1, NothingGrows DEF SessionsTypeOK
  <1>3. ShotsAreBehind'
    BY <1>1 DEF ShotsAreBehind, BodiesMoveOn
  <1>4. LeasesRunOut'
    BY <1>1 DEF LeasesRunOut
  <1>5. QED
    BY <1>1, <1>2, <1>3, <1>4, OutsideStep

WorkerMoves ==
  \/ StartScan \/ BeginUpdate \/ InterruptPass \/ ReportPass \/ EndScan \/ BeginReplay
  \/ HistoryDone \/ EndWorker

\* The steps of the worker that commit nothing.
LEMMA WorkerMovesStep ==
    ASSUME SessionsInv, WorkerMoves
    PROVE  SessionsInv'
  <1>1. /\ SessionsTypeOK /\ WorkerSettles /\ UNCHANGED db /\ WorkerKeeps
        /\ UNCHANGED <<shots, refreshing>>
    BY DEF SessionsInv, WorkerMoves, StartScan, BeginUpdate, InterruptPass, ReportPass, EndScan,
           BeginReplay, HistoryDone, EndWorker, WorkerKeeps
  <1>2. worker \in Workers
    BY <1>1 DEF SessionsTypeOK
  <1>3. worker' \in Workers /\ WorkerSettles'
    <2>1. CASE StartScan
      <3>1. worker' \in Workers /\ worker'.state = "scanning" /\ worker'.pc = "pass"
        BY <1>2, <2>1 DEF StartScan, Workers
      <3>2. WorkerSettles'
        BY <1>1, <2>1, <3>1 DEF StartScan, WorkerSettles, Settled, current
      <3>3. QED
        BY <3>1, <3>2
    <2>2. CASE BeginUpdate
      <3>1. worker' \in Workers /\ worker'.state = "updating" /\ worker'.pc = "pass"
        BY <1>2, <2>2 DEF BeginUpdate, Workers
      <3>2. WorkerSettles'
        BY <1>1, <2>2, <3>1 DEF BeginUpdate, WorkerSettles, Settled, current
      <3>3. QED
        BY <3>1, <3>2
    <2>3. CASE InterruptPass
      <3>1. worker' \in Workers /\ worker'.state \in {"updating", "cancelled"} /\ worker'.pc = "pending"
        BY <1>2, <2>3 DEF InterruptPass, Workers
      <3>2. WorkerSettles'
        BY <1>1, <2>3, <3>1 DEF InterruptPass, WorkerSettles, Settled, current
      <3>3. QED
        BY <3>1, <3>2
    <2>4. CASE ReportPass
      <3>1. /\ worker.pc = "publish" /\ refreshing = {} /\ shots[current].revision = db.revision
            /\ worker' = Reported
        BY <2>4 DEF ReportPass
      <3>2. worker' \in Workers /\ worker'.pc \in {"watch", "scanned"}
            /\ (worker'.pc = "scanned" => worker'.state = "ready")
        <4>1. CASE worker.initial
          <5>1. PICK s \in {"catching_up", "watching"} :
                  s = IF worker.state = "updating" /\ worker.replaying THEN "catching_up" ELSE "watching"
            BY Zenon
          <5>2. worker' = [worker EXCEPT !.state = s, !.pc = "watch"]
            BY <3>1, <4>1, <5>1, Zenon DEF Reported
          <5>3. QED
            BY <1>2, <5>2 DEF Workers
        <4>2. CASE ~worker.initial
          <5>1. worker' = [worker EXCEPT !.state = "ready", !.initial = TRUE, !.pc = "scanned"]
            BY <3>1, <4>2 DEF Reported
          <5>2. QED
            BY <1>2, <5>1 DEF Workers
        <4>3. QED
          BY <4>1, <4>2
      <3>3. WorkerSettles'
        BY <1>1, <3>1, <3>2 DEF WorkerSettles, Settled, current
      <3>4. QED
        BY <3>2, <3>3
    <2>5. CASE EndScan
      <3>1. worker' \in Workers /\ worker'.state = worker.state /\ worker'.pc \in {"replay", "end"}
        BY <1>2, <2>5 DEF EndScan, Workers
      <3>2. WorkerSettles'
        BY <1>1, <2>5, <3>1 DEF EndScan, WorkerSettles, Settled, current
      <3>3. QED
        BY <3>1, <3>2
    <2>6. CASE BeginReplay
      <3>1. worker' \in Workers /\ worker'.state = "catching_up" /\ worker'.pc = "watch"
        BY <1>2, <2>6 DEF BeginReplay, Workers
      <3>2. WorkerSettles'
        BY <1>1, <2>6, <3>1 DEF BeginReplay, WorkerSettles, Settled, current
      <3>3. QED
        BY <3>1, <3>2
    <2>7. CASE HistoryDone
      <3>1. worker' \in Workers /\ worker'.state = "watching" /\ worker'.pc = "watch"
        BY <1>2, <2>7 DEF HistoryDone, Workers
      <3>2. WorkerSettles'
        BY <1>1, <2>7, <3>1 DEF HistoryDone, WorkerSettles, Settled, current
      <3>3. QED
        BY <3>1, <3>2
    <2>8. CASE EndWorker
      <3>1. worker' \in Workers /\ worker'.state = "stopped" /\ worker'.pc = "end"
        BY <1>2, <2>8 DEF EndWorker, Workers
      <3>2. WorkerSettles'
        BY <1>1, <2>8, <3>1 DEF EndWorker, WorkerSettles, Settled, current
      <3>3. QED
        BY <3>1, <3>2
    <2>9. QED
      BY <2>1, <2>2, <2>3, <2>4, <2>5, <2>6, <2>7, <2>8 DEF WorkerMoves
  <1>4. QED
    BY <1>1, <1>3, WorkerStep DEF SessionsTypeOK

\* A pass that commits leaves no request and no published snapshot behind.
LEMMA CommitBatchStep ==
    ASSUME SessionsInv, CommitBatch
    PROVE  SessionsInv'
  <1>1. /\ SessionsTypeOK /\ WorkerSettles /\ UNCHANGED worker /\ WorkerKeeps
        /\ UNCHANGED <<shots, refreshing>> /\ worker.pc = "pass"
        /\ db' = [db EXCEPT !.revision = db.revision + 1, !.dirty = TRUE]
    BY DEF SessionsInv, CommitBatch, WorkerKeeps, SessionsTypeOK
  <1>2. PICK n \in Nat : n = db.revision + 1
    BY <1>1 DEF SessionsTypeOK
  <1>3. db' = [db EXCEPT !.revision = n, !.dirty = TRUE]
    BY <1>1, <1>2
  <1>4. /\ db'.content = db.content /\ db'.bodies = db.bodies /\ db'.whole = db.whole /\ db'.dirty
        /\ db' \in [revision : Nat, content : Nat, bodies : [Bodied -> Nat], dirty : BOOLEAN,
                    whole : SUBSET Nat]
    BY <1>1, <1>3 DEF SessionsTypeOK
  <1>5. WorkerSettles'
    BY <1>1, <1>4 DEF WorkerSettles, Settled, current
  <1>6. QED
    BY <1>1, <1>4, <1>5, WorkerStep DEF SessionsTypeOK

LEMMA FinishObservedStep ==
    ASSUME SessionsInv, FinishObserved
    PROVE  SessionsInv'
  <1>1. /\ SessionsTypeOK /\ WorkerSettles /\ WorkerKeeps
        /\ UNCHANGED <<shots, refreshing>> /\ worker.pc = "pass"
        /\ db' = [db EXCEPT !.dirty = FALSE, !.whole = db.whole \cup {db.revision}]
        /\ worker' = [worker EXCEPT !.pc = "publish"]
    BY DEF SessionsInv, FinishObserved, WorkerKeeps, SessionsTypeOK
  <1>2. PICK w \in SUBSET Nat : w = db.whole \cup {db.revision}
    BY <1>1 DEF SessionsTypeOK
  <1>3. /\ db'.content = db.content /\ db'.bodies = db.bodies /\ db'.whole = w /\ ~db'.dirty
        /\ db'.revision = db.revision
        /\ db' \in [revision : Nat, content : Nat, bodies : [Bodied -> Nat], dirty : BOOLEAN,
                    whole : SUBSET Nat]
    BY <1>1, <1>2 DEF SessionsTypeOK
  <1>4. worker' \in Workers
        /\ worker'.pc = "publish" /\ worker'.state = worker.state
    BY <1>1 DEF SessionsTypeOK, Workers
  <1>5. WorkerSettles'
    BY <1>1, <1>2, <1>3, <1>4 DEF WorkerSettles, Settled, current
  <1>6. QED
    BY <1>1, <1>2, <1>3, <1>4, <1>5, WorkerStep

-----------------------------------------------------------------------------
(* The steps of a client: one request moves, under a fixed snapshot. *)

LEMMA RequestChanges ==
    ASSUME SessionsInv, QueryKeeps, NEW c \in Clients, NEW r \in Requests, RequestFits(r),
           req' = [req EXCEPT ![c] = r], req[c].pc # "write", r.pc # "write",
           DOMAIN leases' \subseteq Clients, leases' \in [DOMAIN leases' -> Leases],
           \A x \in DOMAIN leases' : LeaseFits(leases'[x]),
           held' \in [Clients -> [renewed : Nat] \cup {NoContext}],
           LeasesRunOut', PagesAnswerKeys'
    PROVE  SessionsInv'
  <1>1. /\ SessionsTypeOK
        /\ UNCHANGED <<limit, clock, db, shots, refreshing, worker, prefs, saved>>
    BY DEF SessionsInv, QueryKeeps
  <1>2. /\ req \in [Clients -> Requests] /\ req' \in [Clients -> Requests] /\ req'[c] = r
        /\ \A d \in Clients : d # c => req'[d] = req[d]
    BY <1>1 DEF SessionsTypeOK
  <1>3. SessionsTypeOK'
    BY <1>1, <1>2 DEF SessionsTypeOK
  <1>4. ShotsAreBehind' /\ WorkerSettles'
    BY <1>1 DEF SessionsInv, ShotsAreBehind, BodiesMoveOn, WorkerSettles, Settled, current
  <1>5. WritersTakeTurns' /\ PreferencesAgree'
    <2>1. \A d \in Clients : req'[d].pc = "write" <=> req[d].pc = "write"
      BY <1>2
    <2>2. \A d \in Clients : req[d].pc = "write" => req'[d] = req[d]
      BY <1>2
    <2>3. QED
      BY <1>1, <2>1, <2>2 DEF SessionsInv, WritersTakeTurns, PreferencesAgree, StoreHeld
  <1>6. \A d \in Clients : RequestFits(req'[d])
    BY <1>2, FitParts DEF SessionsInv
  <1>7. (ContextsAreHonest /\ SeenIsOfShot /\ AnswersMatchContext)'
    <2>1. \A x \in DOMAIN leases' : LeaseFits(leases[x])'
      BY <1>1 DEF LeaseFits, Whole
    <2>2. \A d \in Clients : RequestFits(req[d])'
      BY <1>1, <1>6, SMTT(40) DEF RequestFits, Whole, Answer
    <2>3. QED
      BY <2>1, <2>2 DEF ContextsAreHonest, SeenIsOfShot, AnswersMatchContext, RequestFits, LeaseFits
  <1>8. QED
    BY <1>3, <1>4, <1>5, <1>7 DEF SessionsInv

\* A step that touches nothing but a request.
LEMMA RequestMoves ==
    ASSUME SessionsInv, QueryKeeps, UNCHANGED <<leases, pages, held>>,
           NEW c \in Clients, NEW r \in Requests, RequestFits(r),
           req' = [req EXCEPT ![c] = r], req[c].pc # "write", r.pc # "write"
    PROVE  SessionsInv'
  <1>1. /\ DOMAIN leases' \subseteq Clients /\ leases' \in [DOMAIN leases' -> Leases]
        /\ held' \in [Clients -> [renewed : Nat] \cup {NoContext}]
    BY DEF SessionsInv, SessionsTypeOK
  <1>2. \A x \in DOMAIN leases' : LeaseFits(leases'[x])
    BY FitParts DEF SessionsInv
  <1>3. LeasesRunOut' /\ PagesAnswerKeys'
    BY DEF SessionsInv, QueryKeeps, LeasesRunOut, PagesAnswerKeys
  <1>4. QED
    BY <1>1, <1>2, <1>3, RequestChanges

LEMMA IdleFits == Idle \in Requests /\ RequestFits(Idle) /\ Idle.pc = "idle"
  <1>1. NoneSeen \in SeenBodies
    BY DEF NoneSeen, SeenBodies
  <1>2. Idle \in Requests
    BY <1>1 DEF Idle, Requests, Owners, Texts, PrefKeys
  <1>3. Idle.pc = "idle"
    BY DEF Idle
  <1>4. QED
    BY <1>2, <1>3 DEF RequestFits

\* What the invariant says of the request a client has under way.
LEMMA OwnRequest ==
    ASSUME SessionsInv, NEW c \in Clients
    PROVE  req[c] \in Requests /\ RequestFits(req[c])
  BY FitParts DEF SessionsInv, SessionsTypeOK

LEMMA ReturnIdle ==
    ASSUME SessionsInv, QueryKeeps, UNCHANGED <<leases, pages, held>>, NEW c \in Clients,
           req' = [req EXCEPT ![c] = Idle], req[c].pc # "write"
    PROVE  SessionsInv'
  <1>1. PICK r \in Requests : r = Idle
    BY IdleFits
  <1>2. QED
    BY <1>1, IdleFits, RequestMoves

LEMMA FirstPageStep ==
    ASSUME SessionsInv, NEW c \in Clients, NEW g \in DOMAIN shots, NEW text \in Texts,
           NEW owner \in Owners, FirstPage(c, g, text, owner)
    PROVE  SessionsInv'
  <1>1. PICK r : r = [Idle EXCEPT !.pc = "prefs", !.generation = g, !.text = text,
                                  !.owner = owner, !.first = TRUE, !.leased = TRUE]
    OBVIOUS
  <1>2. g \in Nat
    BY DEF SessionsInv, SessionsTypeOK
  <1>3. r \in Requests /\ r.pc = "prefs" /\ r.generation = g
    BY <1>1, <1>2, IdleFits DEF Requests
  <1>4. RequestFits(r)
    BY <1>3 DEF RequestFits
  <1>5. QED
    BY <1>1, <1>3, <1>4, RequestMoves DEF FirstPage

LEMMA BarePageStep ==
    ASSUME SessionsInv, NEW c \in Clients, NEW g \in DOMAIN shots, NEW text \in Texts,
           BarePage(c, g, text)
    PROVE  SessionsInv'
  <1>1. PICK r : r = [Idle EXCEPT !.pc = "prefs", !.generation = g, !.text = text]
    OBVIOUS
  <1>2. g \in Nat
    BY DEF SessionsInv, SessionsTypeOK
  <1>3. r \in Requests /\ r.pc = "prefs" /\ r.generation = g
    BY <1>1, <1>2, IdleFits DEF Requests
  <1>4. RequestFits(r)
    BY <1>3 DEF RequestFits
  <1>5. QED
    BY <1>1, <1>3, <1>4, RequestMoves DEF BarePage

LEMMA LaterPageStep ==
    ASSUME SessionsInv, NEW c \in Clients, NEW text \in Texts, LaterPage(c, text)
    PROVE  SessionsInv'
  <1>1. PICK r : r = [Idle EXCEPT !.pc = "get", !.text = text, !.leased = TRUE, !.from = clock]
    OBVIOUS
  <1>2. clock \in Nat
    BY DEF SessionsInv, SessionsTypeOK
  <1>3. r \in Requests /\ r.pc = "get"
    BY <1>1, <1>2, IdleFits DEF Requests
  <1>4. RequestFits(r)
    BY <1>3 DEF RequestFits
  <1>5. QED
    BY <1>1, <1>3, <1>4, RequestMoves DEF LaterPage

LEMMA ReadPreferencesStep ==
    ASSUME SessionsInv, NEW c \in Clients, ReadPreferences(c)
    PROVE  SessionsInv'
  <1>1. PICK q : q = req[c]
    OBVIOUS
  <1>2. PICK r : r = [q EXCEPT !.pc = "coverage", !.prefs = prefs]
    OBVIOUS
  <1>3. q \in Requests /\ RequestFits(q) /\ q.pc = "prefs" /\ prefs \in Prefs
    BY <1>1, OwnRequest DEF ReadPreferences, SessionsInv, SessionsTypeOK
  <1>4. r \in Requests /\ r.pc = "coverage" /\ r.generation = q.generation
    BY <1>2, <1>3 DEF Requests
  <1>5. RequestFits(r)
    BY <1>3, <1>4 DEF RequestFits
  <1>6. req' = [req EXCEPT ![c] = r]
    BY <1>1, <1>2, <1>3 DEF ReadPreferences, SessionsInv, SessionsTypeOK
  <1>7. QED
    BY <1>1, <1>3, <1>4, <1>5, <1>6, RequestMoves DEF ReadPreferences

\* Coverage is complete only for the current snapshot of a settled worker.
LEMMA CoverageIsOfWhole ==
    ASSUME SessionsInv, NEW g \in DOMAIN shots, RelationCoverage(g)
    PROVE  Whole(g)
  BY DEF SessionsInv, WorkerSettles, RelationCoverage, Whole, current

LEMMA ReadCoverageStep ==
    ASSUME SessionsInv, NEW c \in Clients, ReadCoverage(c)
    PROVE  SessionsInv'
  <1>1. PICK q : q = req[c]
    OBVIOUS
  <1>2. PICK pc \in {"retain", "lookup"} : pc = IF q.leased THEN "retain" ELSE "lookup"
    BY Zenon
  <1>3. PICK done \in BOOLEAN : done = RelationCoverage(q.generation)
    BY DEF RelationCoverage
  <1>4. PICK r : r = [q EXCEPT !.pc = pc, !.time = clock, !.from = clock, !.complete = done]
    OBVIOUS
  <1>5. q \in Requests /\ RequestFits(q) /\ q.pc = "coverage" /\ clock \in Nat
    BY <1>1, OwnRequest DEF ReadCoverage, SessionsInv, SessionsTypeOK
  <1>6. r \in Requests /\ r.pc = pc /\ r.generation = q.generation /\ r.complete = done
    BY <1>4, <1>5 DEF Requests
  <1>7. RequestFits(r)
    BY <1>3, <1>5, <1>6, CoverageIsOfWhole DEF RequestFits
  <1>8. req' = [req EXCEPT ![c] = r]
    BY <1>1, <1>2, <1>3, <1>4, <1>5 DEF ReadCoverage, SessionsInv, SessionsTypeOK
  <1>9. QED
    BY <1>1, <1>5, <1>6, <1>7, <1>8, RequestMoves DEF ReadCoverage

LEMMA RetainDiscardStep ==
    ASSUME SessionsInv, NEW c \in Clients, RetainDiscard(c)
    PROVE  SessionsInv'
  <1>1. PICK q : q = req[c]
    OBVIOUS
  <1>2. /\ q \in Requests /\ RequestFits(q) /\ q.pc \in {"retain", "get"} /\ clock \in Nat /\ q.from \in Nat
        /\ SessionsTypeOK /\ LeasesRunOut /\ QueryKeeps /\ UNCHANGED <<clock, held, pages>>
    BY <1>1, OwnRequest DEF RetainDiscard, SessionsInv, SessionsTypeOK, Requests, QueryKeeps
  <1>3. PICK now \in q.from .. clock :
          /\ DiscardExpired(now)
          /\ req' = [req EXCEPT ![c] = [q EXCEPT !.pc = IF q.pc = "retain" THEN "retain_locked" ELSE "get_locked",
                                                 !.now = now]]
    BY <1>1, Zenon DEF RetainDiscard
  <1>4. now \in Nat /\ now <= clock
    BY <1>2
  <1>5. PICK pc \in {"retain_locked", "get_locked"} :
          pc = IF q.pc = "retain" THEN "retain_locked" ELSE "get_locked"
    BY Zenon
  <1>6. PICK r : r = [q EXCEPT !.pc = pc, !.now = now]
    OBVIOUS
  <1>7. r \in Requests /\ r.pc = pc /\ r.generation = q.generation /\ r.complete = q.complete
    BY <1>2, <1>4, <1>6 DEF Requests
  <1>8. RequestFits(r)
    BY <1>2, <1>5, <1>7 DEF RequestFits
  <1>9. req' = [req EXCEPT ![c] = r]
    BY <1>3, <1>5, <1>6, Zenon
  <1>10. /\ LeasesRunOut' /\ DOMAIN leases' \subseteq DOMAIN leases
         /\ \A x \in DOMAIN leases' : leases'[x] = leases[x]
         /\ leases' \in [DOMAIN leases' -> Leases]
    BY <1>2, <1>3, <1>4, DiscardStep
  <1>11. /\ DOMAIN leases' \subseteq Clients /\ \A x \in DOMAIN leases' : LeaseFits(leases'[x])
         /\ held' \in [Clients -> [renewed : Nat] \cup {NoContext}]
    BY <1>2, <1>10, FitParts DEF SessionsInv, SessionsTypeOK
  <1>12. PagesAnswerKeys'
    BY <1>2 DEF SessionsInv, PagesAnswerKeys
  <1>13. QED
    BY <1>1, <1>2, <1>7, <1>8, <1>9, <1>10, <1>11, <1>12, RequestChanges

\* A lease that is inserted or renewed runs for a lifetime from the clock read.
LEMMA LeaseGranted ==
    ASSUME SessionsInv, QueryKeeps, NEW c \in Clients, NEW now \in Nat, NEW lease \in Leases,
           LeaseFits(lease), lease.deadline = now + Lifetime,
           leases' = Inserted(c, lease), held' = [held EXCEPT ![c] = [renewed |-> now]]
    PROVE  /\ DOMAIN leases' \subseteq Clients /\ leases' \in [DOMAIN leases' -> Leases]
           /\ \A x \in DOMAIN leases' : LeaseFits(leases'[x])
           /\ held' \in [Clients -> [renewed : Nat] \cup {NoContext}]
           /\ LeasesRunOut'
  <1>1. SessionsTypeOK /\ LeasesRunOut /\ UNCHANGED clock
    BY DEF SessionsInv, QueryKeeps
  <1>2. /\ DOMAIN leases' = DOMAIN leases \cup {c} /\ leases'[c] = lease
        /\ \A x \in DOMAIN leases : x # c => leases'[x] = leases[x]
    BY DEF Inserted
  <1>3. DOMAIN leases' \subseteq Clients /\ leases' \in [DOMAIN leases' -> Leases]
    <2>1. DOMAIN leases \subseteq Clients /\ \A x \in DOMAIN leases : leases[x] \in Leases
      BY <1>1 DEF SessionsTypeOK
    <2>2. \A x \in DOMAIN leases' : leases'[x] \in Leases
      BY <1>2, <2>1
    <2>3. leases' = [x \in DOMAIN leases' |-> leases'[x]]
      BY DEF Inserted
    <2>4. QED
      BY <1>2, <2>1, <2>2, <2>3
  <1>4. \A x \in DOMAIN leases' : LeaseFits(leases'[x])
    BY <1>2, FitParts DEF SessionsInv
  <1>5. /\ held' \in [Clients -> [renewed : Nat] \cup {NoContext}] /\ held'[c] = [renewed |-> now]
        /\ \A x \in Clients : x # c => held'[x] = held[x]
    BY <1>1 DEF SessionsTypeOK
  <1>6. LeasesRunOut'
    <2>1. SUFFICES ASSUME NEW x \in Clients, held'[x] # NoContext
                   PROVE  \/ x \in DOMAIN leases' /\ leases'[x].deadline >= held'[x].renewed + Lifetime
                          \/ clock >= held'[x].renewed + Lifetime
      BY <1>1 DEF LeasesRunOut
    <2>2. CASE x = c
      <3>1. leases'[x].deadline = now + Lifetime /\ held'[x].renewed = now /\ now + Lifetime \in Nat
        BY <1>2, <1>5, <2>2, SessionsAssumption
      <3>2. QED
        BY <1>2, <2>2, <3>1
    <2>3. CASE x # c
      BY <1>1, <1>2, <1>5, <2>1, <2>3 DEF LeasesRunOut
    <2>4. QED
      BY <2>2, <2>3
  <1>7. QED
    BY <1>3, <1>4, <1>5, <1>6

LEMMA RetainInsertStep ==
    ASSUME SessionsInv, NEW c \in Clients, RetainInsert(c)
    PROVE  SessionsInv'
  <1>1. PICK q : q = req[c]
    OBVIOUS
  <1>2. /\ q \in Requests /\ RequestFits(q) /\ q.pc = "retain_locked" /\ clock \in Nat
        /\ QueryKeeps /\ UNCHANGED pages
    BY <1>1, OwnRequest DEF RetainInsert, SessionsInv, SessionsTypeOK
  <1>3. CASE Full(q.owner)
    BY <1>1, <1>2, <1>3, ReturnIdle DEF RetainInsert
  <1>4. CASE ~Full(q.owner)
    <2>1. PICK lease : lease = [generation |-> q.generation, prefs |-> q.prefs, time |-> q.time,
                                complete |-> q.complete, owner |-> q.owner,
                                deadline |-> q.now + Lifetime]
      OBVIOUS
    <2>2. PICK deadline \in Nat : deadline = q.now + Lifetime
      BY <1>2, SessionsAssumption DEF Requests
    <2>3. lease \in Leases /\ lease.deadline = q.now + Lifetime /\ q.now \in Nat
      BY <1>2, <2>1, <2>2 DEF Leases, Requests
    <2>4. LeaseFits(lease)
      BY <1>2, <2>1 DEF RequestFits, LeaseFits
    <2>5. leases' = Inserted(c, lease) /\ held' = [held EXCEPT ![c] = [renewed |-> q.now]]
      BY <1>1, <1>4, <2>1 DEF RetainInsert
    <2>6. /\ DOMAIN leases' \subseteq Clients /\ leases' \in [DOMAIN leases' -> Leases]
          /\ \A x \in DOMAIN leases' : LeaseFits(leases'[x])
          /\ held' \in [Clients -> [renewed : Nat] \cup {NoContext}]
          /\ LeasesRunOut'
      BY <1>2, <2>3, <2>4, <2>5, LeaseGranted
    <2>7. PagesAnswerKeys'
      BY <1>2 DEF SessionsInv, PagesAnswerKeys
    <2>8. PICK s \in Requests : s = [q EXCEPT !.pc = "get", !.from = clock]
      BY <1>2 DEF Requests
    <2>9. s.pc = "get" /\ RequestFits(s)
      BY <1>2, <2>8 DEF Requests, RequestFits
    <2>10. PICK r \in Requests : r = IF q.text = "none" THEN Idle ELSE s
      BY IdleFits, Zenon
    <2>11. r.pc # "write" /\ RequestFits(r)
      BY <2>9, <2>10, IdleFits, Zenon
    <2>12. req' = [req EXCEPT ![c] = r]
      BY <1>1, <1>4, <2>8, <2>10 DEF RetainInsert
    <2>13. QED
      BY <1>1, <1>2, <2>6, <2>7, <2>11, <2>12, RequestChanges
  <1>5. QED
    BY <1>3, <1>4

LEMMA GetLeaseStep ==
    ASSUME SessionsInv, NEW c \in Clients, GetLease(c)
    PROVE  SessionsInv'
  <1>1. PICK q : q = req[c]
    OBVIOUS
  <1>2. /\ q \in Requests /\ RequestFits(q) /\ q.pc = "get_locked" /\ clock \in Nat
        /\ QueryKeeps /\ UNCHANGED pages /\ SessionsTypeOK
    BY <1>1, OwnRequest DEF GetLease, SessionsInv, SessionsTypeOK
  <1>3. PagesAnswerKeys'
    BY <1>2 DEF SessionsInv, PagesAnswerKeys
  <1>4. CASE c \in DOMAIN leases
    <2>1. PICK l : l = leases[c]
      OBVIOUS
    <2>2. l \in Leases /\ LeaseFits(l) /\ q.now \in Nat
      BY <1>2, <1>4, <2>1, FitParts DEF SessionsInv, SessionsTypeOK, Requests
    <2>3. PICK deadline \in Nat : deadline = q.now + Lifetime
      BY <2>2, SessionsAssumption
    <2>4. PICK lease : lease = [l EXCEPT !.deadline = deadline]
      OBVIOUS
    <2>5. /\ lease \in Leases /\ lease.deadline = q.now + Lifetime
          /\ lease.generation = l.generation /\ lease.complete = l.complete
      BY <2>2, <2>3, <2>4 DEF Leases
    <2>6. LeaseFits(lease)
      BY <2>2, <2>5 DEF LeaseFits
    <2>7. leases' = Inserted(c, lease) /\ held' = [held EXCEPT ![c] = [renewed |-> q.now]]
      <3>1. leases' = [leases EXCEPT ![c] = lease] /\ held' = [held EXCEPT ![c] = [renewed |-> q.now]]
        BY <1>1, <1>4, <2>1, <2>3, <2>4 DEF GetLease, Renewed
      <3>2. leases = [x \in DOMAIN leases |-> leases[x]]
        BY <1>2 DEF SessionsTypeOK
      <3>3. QED
        BY <1>4, <3>1, <3>2 DEF Inserted
    <2>8. /\ DOMAIN leases' \subseteq Clients /\ leases' \in [DOMAIN leases' -> Leases]
          /\ \A x \in DOMAIN leases' : LeaseFits(leases'[x])
          /\ held' \in [Clients -> [renewed : Nat] \cup {NoContext}]
          /\ LeasesRunOut'
      BY <1>2, <2>2, <2>5, <2>6, <2>7, LeaseGranted
    <2>9. PICK s : s = [q EXCEPT !.pc = "lookup", !.generation = l.generation, !.prefs = l.prefs,
                                 !.time = l.time, !.complete = l.complete]
      OBVIOUS
    <2>10. s \in Requests /\ s.pc = "lookup" /\ s.generation = l.generation /\ s.complete = l.complete
      BY <1>2, <2>2, <2>9 DEF Requests, Leases
    <2>11. RequestFits(s)
      BY <2>2, <2>10 DEF RequestFits, LeaseFits
    <2>12. PICK r \in Requests : r = IF q.text = "none" THEN Idle ELSE s
      BY <2>10, IdleFits, Zenon
    <2>13. r.pc # "write" /\ RequestFits(r)
      <3>1. s.pc # "write" /\ Idle.pc # "write"
        BY <2>10, IdleFits
      <3>2. QED
        BY <2>11, <2>12, <3>1, IdleFits, Zenon
    <2>14. req' = [req EXCEPT ![c] = r]
      BY <1>1, <1>4, <2>1, <2>9, <2>12 DEF GetLease
    <2>15. QED
      BY <1>1, <1>2, <1>3, <2>8, <2>13, <2>14, RequestChanges
  <1>5. CASE c \notin DOMAIN leases
    <2>1. /\ req' = [req EXCEPT ![c] = Idle] /\ held' = [held EXCEPT ![c] = NoContext]
          /\ UNCHANGED leases
      BY <1>1, <1>5 DEF GetLease
    <2>2. /\ DOMAIN leases' \subseteq Clients /\ leases' \in [DOMAIN leases' -> Leases]
          /\ \A x \in DOMAIN leases' : LeaseFits(leases'[x])
      BY <1>2, <2>1, FitParts DEF SessionsInv, SessionsTypeOK
    <2>3. /\ held' \in [Clients -> [renewed : Nat] \cup {NoContext}] /\ held'[c] = NoContext
          /\ \A x \in Clients : x # c => held'[x] = held[x]
      BY <1>2, <2>1 DEF SessionsTypeOK
    <2>4. LeasesRunOut'
      BY <1>2, <2>1, <2>3 DEF SessionsInv, LeasesRunOut, QueryKeeps
    <2>5. PICK r \in Requests : r = Idle
      BY IdleFits
    <2>6. QED
      BY <1>1, <1>2, <1>3, <2>1, <2>2, <2>3, <2>4, <2>5, IdleFits, RequestChanges
  <1>6. QED
    BY <1>4, <1>5

\* A lease its client gives back is missed by nobody.
LEMMA LeaseReleased ==
    ASSUME SessionsInv, QueryKeeps, NEW c \in Clients, Release(c),
           held' = [held EXCEPT ![c] = NoContext]
    PROVE  /\ DOMAIN leases' \subseteq Clients /\ leases' \in [DOMAIN leases' -> Leases]
           /\ \A x \in DOMAIN leases' : LeaseFits(leases'[x])
           /\ held' \in [Clients -> [renewed : Nat] \cup {NoContext}]
           /\ LeasesRunOut'
  <1>1. SessionsTypeOK /\ LeasesRunOut /\ UNCHANGED clock
    BY DEF SessionsInv, QueryKeeps
  <1>2. /\ DOMAIN leases' = DOMAIN leases \ {c} /\ \A x \in DOMAIN leases' : leases'[x] = leases[x]
        /\ leases' = [x \in DOMAIN leases' |-> leases'[x]]
    BY DEF Release, Without
  <1>3. /\ DOMAIN leases' \subseteq Clients /\ leases' \in [DOMAIN leases' -> Leases]
        /\ \A x \in DOMAIN leases' : LeaseFits(leases'[x])
    BY <1>1, <1>2, FitParts DEF SessionsInv, SessionsTypeOK
  <1>4. /\ held' \in [Clients -> [renewed : Nat] \cup {NoContext}] /\ held'[c] = NoContext
        /\ \A x \in Clients : x # c => held'[x] = held[x]
    BY <1>1 DEF SessionsTypeOK
  <1>5. LeasesRunOut'
    BY <1>1, <1>2, <1>4 DEF LeasesRunOut
  <1>6. QED
    BY <1>3, <1>4, <1>5

LEMMA FailQueryStep ==
    ASSUME SessionsInv, NEW c \in Clients, FailQuery(c), QueryKeeps, req[c].pc # "write"
    PROVE  SessionsInv'
  <1>1. CASE req[c].first
    <2>1. PICK r \in Requests : r = Idle
      BY IdleFits
    <2>2. /\ req' = [req EXCEPT ![c] = r] /\ Release(c) /\ held' = [held EXCEPT ![c] = NoContext]
          /\ UNCHANGED pages
      BY <1>1, <2>1 DEF FailQuery
    <2>3. PagesAnswerKeys'
      BY <2>2 DEF SessionsInv, PagesAnswerKeys
    <2>4. QED
      BY <2>1, <2>2, <2>3, IdleFits, LeaseReleased, RequestChanges
  <1>2. CASE ~req[c].first
    BY <1>2, ReturnIdle DEF FailQuery
  <1>3. QED
    BY <1>1, <1>2

\* A cached page with a request's key is the answer the request would compute.
LEMMA HitAnswers ==
    ASSUME SessionsInv, NEW q \in Requests, NEW p \in pages,
           p.answer.generation = q.generation, p.key = CacheKey(q), q.text # "content"
    PROVE  /\ p.answer \in Answers
           /\ \A seen : p.answer = Answer(q.generation, q.text, q.prefs, q.time, q.complete, seen)
  <1>1. /\ p.answer = [generation |-> p.answer.generation, text |-> p.key.text, prefs |-> p.key.prefs,
                       time |-> p.key.time, complete |-> p.key.complete, bodies |-> NoContext]
        /\ p.answer \in Answers
    BY DEF SessionsInv, PagesAnswerKeys
  <1>2. PICK time : time = IF q.text = "date" THEN q.time ELSE 0
    OBVIOUS
  <1>3. PICK done : done = (q.text = "relation" /\ q.complete)
    OBVIOUS
  <1>4. /\ p.key.text = q.text /\ p.key.prefs = q.prefs /\ p.key.time = time /\ p.key.complete = done
    BY <1>2, <1>3 DEF CacheKey, QueryKey
  <1>5. p.answer = [generation |-> q.generation, text |-> q.text, prefs |-> q.prefs, time |-> time,
                    complete |-> done, bodies |-> NoContext]
    BY <1>1, <1>4
  <1>6. \A seen : Answer(q.generation, q.text, q.prefs, q.time, q.complete, seen)
              = [generation |-> q.generation, text |-> q.text, prefs |-> q.prefs, time |-> time,
                 complete |-> done, bodies |-> NoContext]
    BY <1>2, <1>3 DEF Answer
  <1>7. QED
    BY <1>1, <1>5, <1>6

LEMMA LookupStep ==
    ASSUME SessionsInv, NEW c \in Clients, Lookup(c)
    PROVE  SessionsInv'
  <1>1. PICK q : q = req[c]
    OBVIOUS
  <1>2. q \in Requests /\ RequestFits(q) /\ q.pc = "lookup" /\ QueryKeeps
    BY <1>1, OwnRequest DEF Lookup
  <1>3. CASE ~ContentCurrent(q)
    BY <1>1, <1>2, <1>3, FailQueryStep DEF Lookup
  <1>4. CASE ContentCurrent(q)
    <2>1. UNCHANGED <<leases, pages, held>>
      BY <1>1, <1>4 DEF Lookup
    <2>2. \/ \E p \in pages : /\ p.answer.generation = q.generation /\ p.key = CacheKey(q)
                              /\ q.text # "content"
                              /\ req' = [req EXCEPT ![c] = [q EXCEPT !.pc = "replied", !.answer = p.answer]]
          \/ req' = [req EXCEPT ![c] = [q EXCEPT !.pc = "reply", !.seen = NoneSeen]]
      BY <1>1, <1>4 DEF Lookup
    <2>3. ASSUME NEW p \in pages, p.answer.generation = q.generation, p.key = CacheKey(q),
                 q.text # "content",
                 req' = [req EXCEPT ![c] = [q EXCEPT !.pc = "replied", !.answer = p.answer]]
          PROVE  SessionsInv'
      <3>1. PICK a \in Answers : a = p.answer
        BY <1>2, <2>3, HitAnswers
      <3>2. PICK r : r = [q EXCEPT !.pc = "replied", !.answer = a]
        OBVIOUS
      <3>3. /\ r \in Requests /\ r.pc = "replied" /\ r.answer = a /\ r.generation = q.generation
            /\ r.text = q.text /\ r.prefs = q.prefs /\ r.time = q.time /\ r.complete = q.complete
        BY <1>2, <3>2 DEF Requests
      <3>4. RequestFits(r)
        <4>1. \A seen : a = Answer(r.generation, r.text, r.prefs, r.time, r.complete, seen)
          BY <1>2, <2>3, <3>1, <3>3, HitAnswers
        <4>2. QED
          BY <1>2, <3>3, <4>1 DEF RequestFits
      <3>5. QED
        BY <1>1, <1>2, <2>1, <2>3, <3>1, <3>2, <3>3, <3>4, RequestMoves
    <2>4. CASE req' = [req EXCEPT ![c] = [q EXCEPT !.pc = "reply", !.seen = NoneSeen]]
      <3>1. NoneSeen \in SeenBodies /\ \A b \in Bodied : NoneSeen[b] = Unread
        BY DEF NoneSeen, SeenBodies
      <3>2. PICK r : r = [q EXCEPT !.pc = "reply", !.seen = NoneSeen]
        OBVIOUS
      <3>3. /\ r \in Requests /\ r.pc = "reply" /\ r.seen = NoneSeen /\ r.generation = q.generation
            /\ r.complete = q.complete
        BY <1>2, <3>1, <3>2 DEF Requests
      <3>4. RequestFits(r)
        BY <1>2, <3>1, <3>3 DEF RequestFits
      <3>5. QED
        BY <1>1, <1>2, <2>1, <2>4, <3>2, <3>3, <3>4, RequestMoves
    <2>5. QED
      BY <2>2, <2>3, <2>4
  <1>5. QED
    BY <1>3, <1>4

\* A body is read from the database; if the content is the snapshot's, so is it.
LEMMA ReadBodyStep ==
    ASSUME SessionsInv, NEW c \in Clients, ReadBody(c)
    PROVE  SessionsInv'
  <1>1. PICK q : q = req[c]
    OBVIOUS
  <1>2. /\ q \in Requests /\ RequestFits(q) /\ q.pc = "reply" /\ q.text = "content" /\ QueryKeeps
        /\ UNCHANGED <<leases, pages, held>>
    BY <1>1, OwnRequest DEF ReadBody
  <1>3. PICK b \in Bodied : req' = [req EXCEPT ![c] = [q EXCEPT !.seen = [@ EXCEPT ![b] = db.bodies[b]]]]
    BY <1>1 DEF ReadBody
  <1>4. q.seen \in SeenBodies /\ q.generation \in DOMAIN shots
    BY <1>2 DEF Requests, RequestFits
  <1>5. db.bodies[b] \in Nat
    BY DEF SessionsInv, SessionsTypeOK
  <1>6. PICK s \in SeenBodies : s = [q.seen EXCEPT ![b] = db.bodies[b]]
    BY <1>4, <1>5 DEF SeenBodies
  <1>7. PICK r : r = [q EXCEPT !.seen = s]
    OBVIOUS
  <1>8. /\ r \in Requests /\ r.pc = "reply" /\ r.seen = s /\ r.generation = q.generation
        /\ r.complete = q.complete /\ r.text = q.text
    BY <1>2, <1>7 DEF Requests
  <1>9. db.content = shots[q.generation].content => shots[q.generation].bodies = db.bodies
    BY <1>4 DEF SessionsInv, ShotsAreBehind, BodiesMoveOn
  <1>10. db.content = shots[q.generation].content =>
          \A x \in Bodied : s[x] \in {Unread, shots[q.generation].bodies[x]}
    <2>1. \A x \in Bodied : s[x] = IF x = b THEN db.bodies[b] ELSE q.seen[x]
      BY <1>4, <1>6 DEF SeenBodies
    <2>2. QED
      BY <1>2, <1>9, <2>1 DEF RequestFits
  <1>11. RequestFits(r)
    BY <1>2, <1>8, <1>10 DEF RequestFits
  <1>12. req' = [req EXCEPT ![c] = r]
    BY <1>2, <1>3, <1>6, <1>7 DEF Requests
  <1>13. QED
    BY <1>1, <1>2, <1>8, <1>11, <1>12, RequestMoves

\* An answer over well-typed inputs, and its key in the cache.
LEMMA AnswerOfRequest ==
    ASSUME NEW q \in Requests
    PROVE  LET a == Answer(q.generation, q.text, q.prefs, q.time, q.complete, q.seen) IN
           /\ a \in Answers
           /\ q.text # "content" =>
                /\ CacheKey(q).text # "content"
                /\ a = [generation |-> a.generation, text |-> CacheKey(q).text, prefs |-> CacheKey(q).prefs,
                        time |-> CacheKey(q).time, complete |-> CacheKey(q).complete,
                        bodies |-> NoContext]
  <1>1. PICK time \in Nat : time = IF q.text = "date" THEN q.time ELSE 0
    BY DEF Requests
  <1>2. PICK done \in BOOLEAN : done = (q.text = "relation" /\ q.complete)
    BY DEF Requests
  <1>3. PICK bodies \in SeenBodies \cup {NoContext} : bodies = IF q.text = "content" THEN q.seen ELSE NoContext
    <2>1. q.seen \in SeenBodies
      BY DEF Requests
    <2>2. QED
      BY <2>1, Zenon
  <1>4. Answer(q.generation, q.text, q.prefs, q.time, q.complete, q.seen)
          = [generation |-> q.generation, text |-> q.text, prefs |-> q.prefs, time |-> time,
             complete |-> done, bodies |-> bodies]
    BY <1>1, <1>2, <1>3, Zenon DEF Answer
  <1>5. CacheKey(q) = [text |-> q.text, prefs |-> q.prefs, time |-> time, complete |-> done]
    BY <1>1, <1>2, Zenon DEF CacheKey, QueryKey
  <1>6. q.generation \in Nat /\ q.text \in Texts /\ q.prefs \in Prefs \cup {NoContext}
    BY DEF Requests
  <1>7. q.text # "content" => bodies = NoContext
    BY <1>3
  <1>8. QED
    BY <1>4, <1>5, <1>6, <1>7 DEF Answers

LEMMA ReplyStep ==
    ASSUME SessionsInv, NEW c \in Clients, Reply(c)
    PROVE  SessionsInv'
  <1>1. PICK q : q = req[c]
    OBVIOUS
  <1>2. /\ q \in Requests /\ RequestFits(q) /\ q.pc = "reply" /\ QueryKeeps
        /\ q.text = "content" => \A b \in Bodied : q.seen[b] # Unread
    BY <1>1, OwnRequest DEF Reply
  <1>3. CASE ~ContentCurrent(q)
    BY <1>1, <1>2, <1>3, FailQueryStep DEF Reply
  <1>4. CASE ContentCurrent(q)
    <2>1. PICK a : a = Answer(q.generation, q.text, q.prefs, q.time, q.complete, q.seen)
      OBVIOUS
    <2>2. /\ req' = [req EXCEPT ![c] = [q EXCEPT !.pc = "replied", !.answer = a]]
          /\ pages' = IF q.text = "content" THEN pages ELSE pages \cup {[key |-> CacheKey(q), answer |-> a]}
          /\ UNCHANGED <<leases, held>>
      BY <1>1, <1>4, <2>1, Zenon DEF Reply
    <2>3. /\ a \in Answers
          /\ q.text # "content" =>
               /\ CacheKey(q).text # "content"
               /\ a = [generation |-> a.generation, text |-> CacheKey(q).text, prefs |-> CacheKey(q).prefs,
                       time |-> CacheKey(q).time, complete |-> CacheKey(q).complete,
                       bodies |-> NoContext]
      BY <1>2, <2>1, AnswerOfRequest
    <2>4. PICK r : r = [q EXCEPT !.pc = "replied", !.answer = a]
      OBVIOUS
    <2>5. /\ r \in Requests /\ r.pc = "replied" /\ r.answer = a /\ r.generation = q.generation
          /\ r.text = q.text /\ r.prefs = q.prefs /\ r.time = q.time /\ r.complete = q.complete
      BY <1>2, <2>3, <2>4 DEF Requests
    <2>6. a = Answer(q.generation, q.text, q.prefs, q.time, q.complete, shots[q.generation].bodies)
      <3>1. CASE q.text = "content"
        <4>1. q.generation \in DOMAIN shots /\ db.content = shots[q.generation].content
          BY <1>2, <1>4, <3>1 DEF ContentCurrent, RequestFits
        <4>2. \A b \in Bodied : q.seen[b] = shots[q.generation].bodies[b]
          BY <1>2, <3>1, <4>1 DEF RequestFits
        <4>3. shots[q.generation] \in Shots
          BY <4>1, ElementOfSeq DEF SessionsInv, SessionsTypeOK
        <4>4. q.seen \in SeenBodies /\ shots[q.generation].bodies \in [Bodied -> Nat]
          BY <1>2, <4>3 DEF Requests, Shots
        <4>5. q.seen = shots[q.generation].bodies
          BY <4>2, <4>4 DEF SeenBodies
        <4>6. QED
          BY <2>1, <4>5
      <3>2. CASE q.text # "content"
        BY <2>1, <3>2 DEF Answer
      <3>3. QED
        BY <3>1, <3>2
    <2>7. RequestFits(r)
      BY <1>2, <2>5, <2>6 DEF RequestFits
    <2>8. PagesAnswerKeys'
      <3>1. PagesAnswerKeys
        BY DEF SessionsInv
      <3>2. CASE q.text = "content"
        BY <2>2, <3>1, <3>2 DEF PagesAnswerKeys
      <3>3. CASE q.text # "content"
        <4>1. PICK key : key = CacheKey(q)
          OBVIOUS
        <4>2. PICK page : page = [key |-> key, answer |-> a]
          OBVIOUS
        <4>3. page.key = key /\ page.answer = a /\ pages' = pages \cup {page}
          BY <2>2, <3>3, <4>1, <4>2
        <4>4. QED
          BY <2>3, <3>1, <3>3, <4>1, <4>3 DEF PagesAnswerKeys
      <3>4. QED
        BY <3>2, <3>3
    <2>9. /\ DOMAIN leases' \subseteq Clients /\ leases' \in [DOMAIN leases' -> Leases]
          /\ \A x \in DOMAIN leases' : LeaseFits(leases'[x])
          /\ held' \in [Clients -> [renewed : Nat] \cup {NoContext}]
      BY <2>2, FitParts DEF SessionsInv, SessionsTypeOK
    <2>10. LeasesRunOut'
      BY <1>2, <2>2 DEF SessionsInv, QueryKeeps, LeasesRunOut
    <2>11. QED
      BY <1>1, <1>2, <2>2, <2>4, <2>5, <2>7, <2>8, <2>9, <2>10, RequestChanges
  <1>5. QED
    BY <1>3, <1>4

LEMMA ReleaseSnapshotStep ==
    ASSUME SessionsInv, NEW c \in Clients, ReleaseSnapshot(c)
    PROVE  SessionsInv'
  <1>1. PICK q : q = req[c]
    OBVIOUS
  <1>2. /\ q \in Requests /\ RequestFits(q) /\ q.pc = "idle" /\ QueryKeeps /\ UNCHANGED <<req, pages>>
        /\ Release(c) /\ held' = [held EXCEPT ![c] = NoContext]
    BY <1>1, OwnRequest DEF ReleaseSnapshot
  <1>3. req' = [req EXCEPT ![c] = q]
    BY <1>1, <1>2 DEF SessionsInv, SessionsTypeOK
  <1>4. PagesAnswerKeys'
    BY <1>2 DEF SessionsInv, PagesAnswerKeys
  <1>5. QED
    BY <1>1, <1>2, <1>3, <1>4, LeaseReleased, RequestChanges

LEMMA DropPageStep ==
    ASSUME SessionsInv, DropPage
    PROVE  SessionsInv'
  <1>1. /\ UNCHANGED <<limit, clock, db, shots, refreshing, worker, prefs, saved, leases, req, held>>
        /\ pages' \subseteq pages
    BY DEF DropPage, QueryKeeps
  <1>2. SessionsTypeOK'
    BY <1>1 DEF SessionsInv, SessionsTypeOK
  <1>3. ShotsAreBehind' /\ WorkerSettles' /\ PagesAnswerKeys' /\ LeasesRunOut'
    BY <1>1 DEF SessionsInv, ShotsAreBehind, BodiesMoveOn, WorkerSettles, Settled, current,
                PagesAnswerKeys, LeasesRunOut
  <1>4. WritersTakeTurns' /\ PreferencesAgree'
    BY <1>1 DEF SessionsInv, WritersTakeTurns, PreferencesAgree, StoreHeld
  <1>5. (ContextsAreHonest /\ SeenIsOfShot /\ AnswersMatchContext)'
    BY <1>1 DEF SessionsInv, ContextsAreHonest, SeenIsOfShot, AnswersMatchContext, Whole
  <1>6. QED
    BY <1>2, <1>3, <1>4, <1>5 DEF SessionsInv

LEMMA CancelAndAnsweredStep ==
    ASSUME SessionsInv, NEW c \in Clients, CancelQuery(c) \/ Answered(c)
    PROVE  SessionsInv'
  <1>1. CASE CancelQuery(c)
    BY <1>1, FailQueryStep DEF CancelQuery
  <1>2. CASE Answered(c)
    BY <1>2, ReturnIdle DEF Answered
  <1>3. QED
    BY <1>1, <1>2

-----------------------------------------------------------------------------
(* Preferences: memory and SQLite meet again when the writer publishes. *)

LEMMA SetPreferenceStep ==
    ASSUME SessionsInv, NEW c \in Clients, NEW k \in PrefKeys, NEW v \in {0, 1}, SetPreference(c, k, v)
    PROVE  SessionsInv'
  <1>1. PICK r : r = [Idle EXCEPT !.pc = "set", !.key = k, !.value = v, !.next = prefs]
    OBVIOUS
  <1>2. prefs \in Prefs
    BY DEF SessionsInv, SessionsTypeOK
  <1>3. r \in Requests /\ r.pc = "set"
    BY <1>1, <1>2, IdleFits DEF Requests
  <1>4. RequestFits(r)
    BY <1>3 DEF RequestFits
  <1>5. /\ req' = [req EXCEPT ![c] = r] /\ req[c].pc = "idle" /\ UNCHANGED <<leases, pages, held>>
        /\ QueryKeeps
    BY <1>1 DEF SetPreference, PrefsKeep, QueryKeeps
  <1>6. QED
    BY <1>3, <1>4, <1>5, RequestMoves

LEMMA ReturnPreferenceStep ==
    ASSUME SessionsInv, NEW c \in Clients, ReturnPreference(c)
    PROVE  SessionsInv'
  <1>1. /\ req' = [req EXCEPT ![c] = Idle] /\ req[c].pc = "set" /\ UNCHANGED <<leases, pages, held>>
        /\ QueryKeeps
    BY DEF ReturnPreference, PrefsKeep, QueryKeeps
  <1>2. QED
    BY <1>1, ReturnIdle

\* What the writes of preferences leave alone.
LEMMA PreferencesChange ==
    ASSUME SessionsInv, NEW c \in Clients, NEW r \in Requests, RequestFits(r), PrefsKeep,
           req' = [req EXCEPT ![c] = r], prefs' \in Prefs, saved' \in [values : Prefs, updates : Nat],
           WritersTakeTurns', PreferencesAgree'
    PROVE  SessionsInv'
  <1>1. /\ SessionsTypeOK
        /\ UNCHANGED <<limit, clock, db, shots, refreshing, worker, leases, pages, held>>
    BY DEF SessionsInv, PrefsKeep
  <1>2. /\ req' \in [Clients -> Requests] /\ req'[c] = r
        /\ \A d \in Clients : d # c => req'[d] = req[d]
    BY <1>1 DEF SessionsTypeOK
  <1>3. SessionsTypeOK'
    BY <1>1, <1>2 DEF SessionsTypeOK
  <1>4. ShotsAreBehind' /\ WorkerSettles' /\ PagesAnswerKeys' /\ LeasesRunOut'
    BY <1>1 DEF SessionsInv, ShotsAreBehind, BodiesMoveOn, WorkerSettles, Settled, current,
                PagesAnswerKeys, LeasesRunOut
  <1>5. \A d \in Clients : RequestFits(req'[d])
    BY <1>2, FitParts DEF SessionsInv
  <1>6. (ContextsAreHonest /\ SeenIsOfShot /\ AnswersMatchContext)'
    <2>1. \A x \in DOMAIN leases' : LeaseFits(leases[x])'
      BY <1>1, FitParts DEF SessionsInv, LeaseFits, Whole
    <2>2. \A d \in Clients : RequestFits(req[d])'
      BY <1>1, <1>5, SMTT(40) DEF RequestFits, Whole, Answer
    <2>3. QED
      BY <2>1, <2>2 DEF ContextsAreHonest, SeenIsOfShot, AnswersMatchContext, RequestFits, LeaseFits
  <1>7. QED
    BY <1>3, <1>4, <1>6 DEF SessionsInv

LEMMA CommitPreferenceStep ==
    ASSUME SessionsInv, NEW c \in Clients, CommitPreference(c)
    PROVE  SessionsInv'
  <1>1. PICK q : q = req[c]
    OBVIOUS
  <1>2. /\ q \in Requests /\ RequestFits(q) /\ q.pc = "set" /\ ~StoreHeld /\ PrefsKeep /\ UNCHANGED prefs
        /\ prefs \in Prefs /\ saved \in [values : Prefs, updates : Nat] /\ prefs = saved.values
    BY <1>1, OwnRequest DEF CommitPreference, SessionsInv, SessionsTypeOK, PreferencesAgree
  <1>3. PICK next \in Prefs : next = [prefs EXCEPT ![q.key] = q.value]
    BY <1>2 DEF Prefs, Requests
  <1>4. PICK r : r = [q EXCEPT !.pc = "write", !.next = next]
    OBVIOUS
  <1>5. r \in Requests /\ r.pc = "write" /\ r.next = next
    BY <1>2, <1>4 DEF Requests
  <1>6. RequestFits(r)
    BY <1>5 DEF RequestFits
  <1>7. /\ req' = [req EXCEPT ![c] = r] /\ saved'.values = next
        /\ saved' \in [values : Prefs, updates : Nat]
    <2>1. saved.updates + 1 \in Nat
      BY <1>2
    <2>2. saved' = [values |-> next, updates |-> saved.updates + 1]
      BY <1>1, <1>2, <1>3 DEF CommitPreference
    <2>3. req' = [req EXCEPT ![c] = r]
      BY <1>1, <1>3, <1>4 DEF CommitPreference, NextPreferences, SessionsInv, SessionsTypeOK
    <2>4. QED
      BY <2>1, <2>2, <2>3
  <1>8. req'[c] = r /\ \A d \in Clients : d # c => req'[d] = req[d]
    BY <1>7 DEF SessionsInv, SessionsTypeOK
  <1>9. WritersTakeTurns' /\ PreferencesAgree'
    BY <1>2, <1>5, <1>7, <1>8 DEF WritersTakeTurns, PreferencesAgree, StoreHeld
  <1>10. QED
    BY <1>2, <1>5, <1>6, <1>7, <1>9, PreferencesChange

LEMMA PublishPreferenceStep ==
    ASSUME SessionsInv, NEW c \in Clients, PublishPreference(c)
    PROVE  SessionsInv'
  <1>1. /\ req[c].pc = "write" /\ prefs' = req[c].next /\ req' = [req EXCEPT ![c] = Idle]
        /\ UNCHANGED saved /\ PrefsKeep
    BY DEF PublishPreference
  <1>2. /\ req[c].next = saved.values /\ \A d \in Clients : req[d].pc = "write" => d = c
        /\ saved \in [values : Prefs, updates : Nat]
    BY <1>1 DEF SessionsInv, WritersTakeTurns, SessionsTypeOK
  <1>3. prefs' \in Prefs /\ prefs' = saved'.values
    BY <1>1, <1>2
  <1>4. PICK r \in Requests : r = Idle
    BY IdleFits
  <1>5. req'[c] = Idle /\ \A d \in Clients : d # c => req'[d] = req[d]
    BY <1>1 DEF SessionsInv, SessionsTypeOK
  <1>6. WritersTakeTurns' /\ PreferencesAgree'
    BY <1>2, <1>3, <1>5, IdleFits DEF WritersTakeTurns, PreferencesAgree
  <1>7. QED
    BY <1>1, <1>2, <1>3, <1>4, <1>6, IdleFits, PreferencesChange

-----------------------------------------------------------------------------
LEMMA InitHolds ==
    ASSUME SessionsInit
    PROVE  SessionsInv
  <1>1. PICK d : d = db
    OBVIOUS
  <1>2. /\ d = [revision |-> 1, content |-> 0, bodies |-> [b \in Bodied |-> 0], dirty |-> FALSE,
                whole |-> {1}]
        /\ shots = <<Shot(d)>>
    BY <1>1 DEF SessionsInit
  <1>3. /\ d.revision = 1 /\ d.content = 0 /\ d.bodies = [b \in Bodied |-> 0] /\ ~d.dirty
        /\ d.whole = {1}
        /\ d \in [revision : Nat, content : Nat, bodies : [Bodied -> Nat], dirty : BOOLEAN,
                  whole : SUBSET Nat]
    BY <1>2
  <1>4. Shot(d) \in Shots
    BY <1>3 DEF Shot, Shots
  <1>5. /\ shots \in Seq(Shots) /\ shots # << >> /\ Len(shots) = 1 /\ DOMAIN shots = {1}
        /\ shots[1] = Shot(d)
    BY <1>2, <1>4
  <1>6. worker \in Workers /\ worker.state = "watching" /\ worker.pc = "watch"
    BY DEF SessionsInit, Workers
  <1>7. prefs \in Prefs /\ saved \in [values : Prefs, updates : Nat] /\ prefs = saved.values
    <2>1. prefs \in Prefs
      BY DEF SessionsInit, Prefs
    <2>2. saved = [values |-> prefs, updates |-> 0]
      BY DEF SessionsInit
    <2>3. QED
      BY <2>1, <2>2
  <1>8. DOMAIN leases = {} /\ leases \in [DOMAIN leases -> Leases]
    BY DEF SessionsInit
  <1>9. req \in [Clients -> Requests] /\ \A c \in Clients : req[c] = Idle
    BY IdleFits DEF SessionsInit
  <1>10. held \in [Clients -> [renewed : Nat] \cup {NoContext}] /\ \A c \in Clients : held[c] = NoContext
    BY DEF SessionsInit
  <1>11. refreshing = {} /\ pages = {} /\ clock \in Nat /\ limit \in Limits
    BY DEF SessionsInit
  <1>12. SessionsTypeOK
    BY <1>1, <1>3, <1>5, <1>6, <1>7, <1>8, <1>9, <1>10, <1>11 DEF SessionsTypeOK
  <1>13. ShotsAreBehind
    BY <1>1, <1>3, <1>5, <1>11 DEF ShotsAreBehind, BodiesMoveOn, Shot
  <1>14. WorkerSettles
    BY <1>1, <1>3, <1>5, <1>6, <1>11 DEF WorkerSettles, Settled, current, Shot
  <1>15. ContextsAreHonest /\ SeenIsOfShot /\ AnswersMatchContext
    BY <1>8, <1>9, IdleFits, FitParts
  <1>16. PagesAnswerKeys /\ WritersTakeTurns /\ PreferencesAgree /\ LeasesRunOut
    BY <1>7, <1>9, <1>10, <1>11, IdleFits
       DEF PagesAnswerKeys, WritersTakeTurns, PreferencesAgree, LeasesRunOut
  <1>17. QED
    BY <1>12, <1>13, <1>14, <1>15, <1>16 DEF SessionsInv

LEMMA NextKeeps ==
    ASSUME SessionsInv, SessionsNext
    PROVE  SessionsInv'
  <1>1. /\ limit.clients \subseteq Clients /\ limit.texts \subseteq Texts /\ limit.owners \subseteq Owners
    BY SessionsAssumption DEF SessionsInv, SessionsTypeOK
  <1>2. CASE Tick \/ RefreshStart \/ RefreshPublish \/ \E b \in Bodied : PutContent(b)
    BY <1>2, TickStep, RefreshStartStep, RefreshPublishStep, PutContentStep
  <1>3. CASE WorkerMoves \/ CommitBatch \/ FinishObserved \/ DropPage
    BY <1>3, WorkerMovesStep, CommitBatchStep, FinishObservedStep, DropPageStep
  <1>4. ASSUME NEW c \in limit.clients,
               \/ \E k \in PrefKeys, v \in {0, 1} : SetPreference(c, k, v)
               \/ CommitPreference(c) \/ ReturnPreference(c) \/ PublishPreference(c)
        PROVE  SessionsInv'
    BY <1>1, <1>4, SetPreferenceStep, CommitPreferenceStep, ReturnPreferenceStep, PublishPreferenceStep
  <1>5. ASSUME NEW c \in limit.clients,
               \/ \E g \in DOMAIN shots, t \in limit.texts, o \in limit.owners : FirstPage(c, g, t, o)
               \/ \E g \in DOMAIN shots, t \in limit.texts : BarePage(c, g, t)
               \/ \E t \in limit.texts : LaterPage(c, t)
        PROVE  SessionsInv'
    BY <1>1, <1>5, FirstPageStep, BarePageStep, LaterPageStep
  <1>6. ASSUME NEW c \in limit.clients,
               \/ ReadPreferences(c) \/ ReadCoverage(c) \/ RetainDiscard(c) \/ RetainInsert(c)
               \/ GetLease(c) \/ Lookup(c) \/ ReadBody(c) \/ Reply(c) \/ Answered(c)
               \/ CancelQuery(c) \/ ReleaseSnapshot(c)
        PROVE  SessionsInv'
    BY <1>1, <1>6, ReadPreferencesStep, ReadCoverageStep, RetainDiscardStep, RetainInsertStep,
       GetLeaseStep, LookupStep, ReadBodyStep, ReplyStep, CancelAndAnsweredStep, ReleaseSnapshotStep
  <1>7. QED
    BY <1>2, <1>3, <1>4, <1>5, <1>6 DEF SessionsNext, WorkerMoves

LEMMA StutterKeeps ==
    ASSUME SessionsInv, UNCHANGED sessionVars
    PROVE  SessionsInv'
  <1>1. /\ UNCHANGED <<limit, clock, db, shots, refreshing, worker, prefs, saved, leases, req, held>>
        /\ UNCHANGED pages
    BY DEF sessionVars
  <1>2. SessionsTypeOK'
    BY <1>1 DEF SessionsInv, SessionsTypeOK
  <1>3. ShotsAreBehind' /\ WorkerSettles' /\ PagesAnswerKeys' /\ LeasesRunOut'
    BY <1>1 DEF SessionsInv, ShotsAreBehind, BodiesMoveOn, WorkerSettles, Settled, current,
                PagesAnswerKeys, LeasesRunOut
  <1>4. WritersTakeTurns' /\ PreferencesAgree'
    BY <1>1 DEF SessionsInv, WritersTakeTurns, PreferencesAgree, StoreHeld
  <1>5. (ContextsAreHonest /\ SeenIsOfShot /\ AnswersMatchContext)'
    BY <1>1 DEF SessionsInv, ContextsAreHonest, SeenIsOfShot, AnswersMatchContext, Whole
  <1>6. QED
    BY <1>2, <1>3, <1>4, <1>5 DEF SessionsInv

\* The inductive invariant of the sessions holds in every reachable state, for
\* any number of clients, files and revisions.
THEOREM SessionsInvariant == SessionsSpec => []SessionsInv
  <1>1. SessionsInit => SessionsInv
    BY InitHolds
  <1>2. SessionsInv /\ [SessionsNext]_sessionVars => SessionsInv'
    BY NextKeeps, StutterKeeps
  <1>3. QED
    BY <1>1, <1>2, PTL DEF SessionsSpec

\* Every page a client is given is the answer to its own query, computed in the
\* context the query runs under, although the pages of all clients share one
\* cache and bodies are replaced while a query reads them (query_inner).
THEOREM PagesAnswerTheirQuery == SessionsSpec => []AnswersMatchContext
  BY SessionsInvariant, PTL DEF SessionsInv

\* Coverage is never called complete for a snapshot of a half-done pass, by an
\* answer or by a lease that outlives the pass (relation_coverage).
THEOREM CoverageStaysHonest == SessionsSpec => []CoverageIsHonest
  <1>1. SessionsInv => CoverageIsHonest
    <2>1. SUFFICES ASSUME SessionsInv PROVE CoverageIsHonest
      OBVIOUS
    <2>2. \A c \in DOMAIN leases :
            leases[c].complete => shots[leases[c].generation].revision \in db.whole
      BY <2>1 DEF SessionsInv, ContextsAreHonest, Whole
    <2>3. ASSUME NEW c \in Clients, req[c].pc = "replied", req[c].answer.complete
          PROVE  shots[req[c].generation].revision \in db.whole
      <3>1. PICK r \in Requests : r = req[c]
        BY <2>1, OwnRequest
      <3>2. r.answer = Answer(r.generation, r.text, r.prefs, r.time, r.complete,
                              shots[r.generation].bodies)
        BY <2>1, <2>3, <3>1 DEF SessionsInv, AnswersMatchContext
      <3>3. r.answer.complete = (r.text = "relation" /\ r.complete)
        BY <3>2 DEF Answer
      <3>4. r.complete
        BY <2>3, <3>1, <3>3
      <3>5. QED
        BY <2>1, <2>3, <3>1, <3>4 DEF SessionsInv, ContextsAreHonest, Whole
    <2>4. QED
      BY <2>2, <2>3 DEF CoverageIsHonest
  <1>2. QED
    BY <1>1, SessionsInvariant, PTL

\* Whenever no update holds the store, memory serves the committed preferences:
\* concurrent updates never lose each other's keys (preferences).
THEOREM PreferencesStayCommitted == SessionsSpec => []PreferencesAgree
  BY SessionsInvariant, PTL DEF SessionsInv

\* No other client's clean-up takes a lease before its holder has let a whole
\* lifetime pass (get_at, discard_expired_at).
THEOREM LeasesAreKept == SessionsSpec => []LeaseSurvives
  <1>1. SessionsInv => LeaseSurvives
    BY DEF SessionsInv, LeasesRunOut, LeaseSurvives
  <1>2. QED
    BY <1>1, SessionsInvariant, PTL
=============================================================================
