----------------------------- MODULE CpuAdmission -----------------------------
(***************************************************************************)
(* CPU admission (core/src/cpu_executor.rs) and the retirement of large    *)
(* snapshots (core/src/snapshot_reclaimer.rs), which meet in two places:   *)
(* the reclaimer needs a worker permit to destroy a payload, and whoever   *)
(* drops the last reference to a snapshot blocks while the reclaimer's     *)
(* queue is full.                                                          *)
(*                                                                         *)
(* A query takes its permit from an atomic counter; only a saturated one   *)
(* takes the mutex and sleeps on the condition variable.  Index rebuilds   *)
(* and the reclaimer enter in the background and give way to waiting       *)
(* queries.  The acquisition of the mutex, each access to the counters     *)
(* outside it, and the atomic release-and-sleep of the condition variable  *)
(* are steps of their own.                                                 *)
(***************************************************************************)
EXTENDS Integers, Sequences, FiniteSets, FiniteSetsExt

CONSTANTS
  Queries,      \* requesting threads (query, directory_info)
  Rebuilds,     \* threads in SearchEngine::refresh
  Reclaimer,    \* the thread "apfsearch-reclaim"
  NoThread,
  Capacity,     \* worker_capacity
  Parallel,     \* permits a query asks for in acquire
  QueueBound,   \* QUEUED_SNAPSHOTS
  Chunks,       \* checkpoints in one piece of background work
  MaxJobs       \* bound: requests or rebuilds of each thread

ASSUME SizesAssumption ==
  {Capacity, Parallel, QueueBound} \subseteq Nat \ {0} /\ {Chunks, MaxJobs} \subseteq Nat
ASSUME ThreadsAssumption ==
  /\ IsFiniteSet(Queries) /\ IsFiniteSet(Rebuilds)
  /\ Queries \cap Rebuilds = {}
  /\ Reclaimer \notin Queries \cup Rebuilds
  /\ NoThread \notin Queries \cup Rebuilds \cup {Reclaimer}

Threads == Queries \cup Rebuilds \cup {Reclaimer}
Background == Rebuilds \cup {Reclaimer}

VARIABLES
  available,          \* WorkerBudget::available
  foreground_waiters,
  waiters,
  background_active,
  wake_lock,          \* the thread that holds the mutex, or NoThread
  asleep,             \* threads inside Condvar::wait
  cancelled,          \* the cancellation tokens of the queries
  waking,             \* a cancel request has stored the token, wake() is due
  held,               \* permits of each thread
  then,               \* where a thread goes on after it released permits
  chunks,             \* checkpoints left in a thread's background work
  queue,              \* retired snapshots and barriers on their way to the reclaimer
  pc, jobs

vars == <<available, foreground_waiters, waiters, background_active, wake_lock, asleep,
          cancelled, waking, held, then, chunks, queue, pc, jobs>>
work == <<then, chunks, queue, jobs>>
budget == <<available, foreground_waiters, waiters, background_active>>
sleepers == <<wake_lock, asleep>>
requests == <<cancelled, waking>>

Goto(t, label) == pc' = [pc EXCEPT ![t] = label]

-----------------------------------------------------------------------------
\* WorkerBudget::enter

\* A request begins with a snapshot pinned and no permit.
Request(q) ==
  /\ pc[q] = "idle" /\ jobs[q] < MaxJobs
  /\ jobs' = [jobs EXCEPT ![q] = @ + 1]
  /\ cancelled' = [cancelled EXCEPT ![q] = FALSE]
  /\ Goto(q, "enter")
  /\ UNCHANGED <<budget, sleepers, waking, held, then, chunks, queue>>

Take(t, n) ==
  /\ available >= n
  /\ available' = available - n
  /\ held' = [held EXCEPT ![t] = @ + n]

\* The uncontended path: one atomic reservation, no mutex.
Enter(q) ==
  /\ pc[q] = "enter"
  /\ \/ /\ cancelled[q]
        /\ Goto(q, "drop")
        /\ UNCHANGED <<available, held>>
     \/ /\ ~cancelled[q]
        /\ Take(q, 1)
        /\ Goto(q, "run")
     \/ /\ ~cancelled[q] /\ available = 0
        /\ Goto(q, "lock")
        /\ UNCHANGED <<available, held>>
  /\ UNCHANGED <<foreground_waiters, waiters, background_active, sleepers, requests, work>>

Lock(t) ==
  /\ wake_lock = NoThread
  /\ wake_lock' = t

\* A waiter takes the mutex, and then registers before it looks again.
LockToWait(t) ==
  /\ pc[t] = "lock"
  /\ Lock(t)
  /\ Goto(t, "register")
  /\ UNCHANGED <<budget, asleep, requests, held, work>>

Register(t) ==
  /\ pc[t] = "register"
  /\ waiters' = waiters + 1
  /\ foreground_waiters' = foreground_waiters + (IF t \in Queries THEN 1 ELSE 0)
  /\ Goto(t, "look")
  /\ UNCHANGED <<available, background_active, sleepers, requests, held, work>>

Leave(t) ==
  /\ waiters' = waiters - 1
  /\ foreground_waiters' = foreground_waiters - (IF t \in Queries THEN 1 ELSE 0)
  /\ wake_lock' = NoThread

\* notify_all: every sleeper competes for the mutex again.
Awakened(t, label) ==
  [u \in Threads |-> IF u = t THEN label ELSE IF u \in asleep THEN "relock" ELSE pc[u]]

\* Mutant: a cancelled waiter stays counted as a waiting query.
GiveUpCounted(q) ==
  /\ q \in Queries /\ pc[q] = "look" /\ cancelled[q]
  /\ waiters' = waiters - 1 /\ wake_lock' = NoThread
  /\ asleep' = {} /\ pc' = Awakened(q, "drop")
  /\ UNCHANGED <<available, foreground_waiters, background_active, requests, held, work>>

\* A cancelled waiter wakes the others: background work may have stood back for it.
GiveUp(q) ==
  /\ q \in Queries /\ pc[q] = "look" /\ cancelled[q]
  /\ Leave(q)
  /\ asleep' = {} /\ pc' = Awakened(q, "drop")
  /\ UNCHANGED <<available, background_active, requests, held, work>>

\* Background work takes the last permit, or a second one, only when no query waits.
Admissible(t) ==
  /\ available > 0
  /\ t \in Background /\ foreground_waiters > 0 => background_active = 0 /\ available > 1

Admit(t) ==
  /\ pc[t] = "look"
  /\ t \in Queries => ~cancelled[t]
  /\ Admissible(t)
  /\ Take(t, 1)
  /\ Leave(t)
  /\ background_active' = background_active + (IF t \in Background THEN 1 ELSE 0)
  /\ Goto(t, "run")
  /\ UNCHANGED <<asleep, requests, work>>

\* Nothing to take: the thread has decided to sleep but still holds the mutex.
Decline(t) ==
  /\ pc[t] = "look"
  /\ t \in Queries => ~cancelled[t]
  /\ ~Admissible(t)
  /\ Goto(t, "park")
  /\ UNCHANGED <<budget, sleepers, requests, held, work>>

Sleep(t) ==
  /\ pc[t] = "park"
  /\ asleep' = asleep \cup {t}
  /\ wake_lock' = NoThread
  /\ Goto(t, "asleep")
  /\ UNCHANGED <<budget, requests, held, work>>

Relock(t) ==
  /\ pc[t] = "relock"
  /\ Lock(t)
  /\ Goto(t, "look")
  /\ UNCHANGED <<budget, asleep, requests, held, work>>

-----------------------------------------------------------------------------
\* WorkerPermit::drop

\* Permits go back first; then the thread looks for registered waiters, and only
\* with waiters takes their mutex and notifies.
Give(t, n, label) ==
  /\ available' = available + n
  /\ held' = [held EXCEPT ![t] = @ - n]
  /\ then' = [then EXCEPT ![t] = label]
  /\ Goto(t, "release")

\* Mutant: only waiting queries are noticed, sleeping background work is not.
CheckForeground(t) ==
  /\ pc[t] = "release"
  /\ Goto(t, IF foreground_waiters # 0 THEN "notify" ELSE then[t])
  /\ UNCHANGED <<budget, sleepers, requests, held, work>>

CheckWaiters(t) ==
  /\ pc[t] = "release"
  /\ Goto(t, IF waiters # 0 THEN "notify" ELSE then[t])
  /\ UNCHANGED <<budget, sleepers, requests, held, work>>

\* Mutant: the notification does not take the mutex of the sleepers.
NotifyUnlocked(t) ==
  /\ pc[t] = "notify"
  /\ asleep' = {} /\ pc' = Awakened(t, then[t])
  /\ UNCHANGED <<budget, wake_lock, requests, held, work>>

Notify(t) ==
  /\ pc[t] = "notify" /\ wake_lock = NoThread
  /\ asleep' = {} /\ pc' = Awakened(t, then[t])
  /\ UNCHANGED <<budget, wake_lock, requests, held, work>>

-----------------------------------------------------------------------------
\* Work under a permit

\* acquire: more permits for a parallel query, never waited for, and none when a
\* query waits.  There is no pool on a machine with a single worker.
AskParallel(q) ==
  /\ pc[q] = "run" /\ Capacity > 1 /\ foreground_waiters = 0
  /\ Goto(q, "asked")
  /\ UNCHANGED <<budget, sleepers, requests, held, work>>

\* A query may have begun to wait since; a single permit is given back at once.
AcquireParallel(q) ==
  /\ pc[q] = "asked"
  /\ \/ /\ available > 0
        /\ Take(q, Min({Parallel, available}))
        /\ Goto(q, "parallel")
     \/ /\ available = 0
        /\ Goto(q, "ran")
        /\ UNCHANGED <<available, held>>
  /\ UNCHANGED <<foreground_waiters, waiters, background_active, sleepers, requests, work>>

EndParallel(q) ==
  /\ pc[q] = "parallel"
  /\ Give(q, held[q] - 1, "ran")
  /\ UNCHANGED <<foreground_waiters, waiters, background_active, sleepers, requests, chunks,
                 queue, jobs>>

\* BackgroundPermit::checkpoint stands back for waiting queries.
CheckpointWork(t) ==
  /\ t \in Background /\ pc[t] = "run" /\ chunks[t] > 0
  /\ chunks' = [chunks EXCEPT ![t] = @ - 1]
  /\ \/ /\ foreground_waiters = 0
        /\ UNCHANGED <<available, background_active, held, then, pc>>
     \/ /\ foreground_waiters > 0
        /\ Give(t, held[t], "lock")
        /\ background_active' = background_active - 1
  /\ UNCHANGED <<foreground_waiters, waiters, sleepers, requests, queue, jobs>>

\* acquire_all: the checksum of a large cache section takes the whole pool or does
\* without it.  (The waiting queries are read just before.)
AcquireAll(r) ==
  /\ pc[r] = "idle" /\ jobs[r] < MaxJobs /\ Capacity > 1 /\ foreground_waiters = 0
  /\ Take(r, Capacity)
  /\ jobs' = [jobs EXCEPT ![r] = @ + 1]
  /\ Goto(r, "digest")
  /\ UNCHANGED <<foreground_waiters, waiters, background_active, sleepers, requests, then,
                 chunks, queue>>

EndDigest(r) ==
  /\ pc[r] = "digest"
  /\ Give(r, held[r], "idle")
  /\ UNCHANGED <<foreground_waiters, waiters, background_active, sleepers, requests, chunks,
                 queue, jobs>>

\* Mutant: a query drops its reference to the snapshot before its permit.
FinishSnapshotFirst(t) ==
  /\ pc[t] \in {"run", "ran"} /\ chunks[t] = 0
  /\ IF t \in Queries
       THEN Goto(t, "drop") /\ UNCHANGED <<available, held, then, background_active>>
       ELSE /\ Give(t, held[t], IF t = Reclaimer THEN "idle" ELSE "drop")
            /\ background_active' = background_active - 1
  /\ UNCHANGED <<foreground_waiters, waiters, sleepers, requests, chunks, queue, jobs>>

\* The work is done: the permit goes before the reference to the snapshot.
Finish(t) ==
  /\ pc[t] \in {"run", "ran"} /\ chunks[t] = 0
  /\ Give(t, held[t], IF t = Reclaimer THEN "idle" ELSE "drop")
  /\ background_active' = background_active - (IF t \in Background THEN 1 ELSE 0)
  /\ UNCHANGED <<foreground_waiters, waiters, sleepers, requests, chunks, queue, jobs>>

-----------------------------------------------------------------------------
\* Cancellation: the token first, then a wake under the mutex

Cancel(q) ==
  /\ pc[q] # "idle" /\ ~cancelled[q]
  /\ cancelled' = [cancelled EXCEPT ![q] = TRUE]
  /\ waking' = TRUE
  /\ UNCHANGED <<budget, sleepers, held, work, pc>>

WakeCancelled ==
  /\ waking /\ wake_lock = NoThread
  /\ waking' = FALSE
  /\ asleep' = {} /\ pc' = Awakened(NoThread, "idle")
  /\ UNCHANGED <<budget, wake_lock, cancelled, held, work>>

-----------------------------------------------------------------------------
\* snapshot_reclaimer: retire, wait_until_drained and the worker

Send(item) ==
  /\ Len(queue) < QueueBound
  /\ queue' = Append(queue, item)

\* Dropping a reference; the last one of a large snapshot retires it, which
\* blocks while the queue is full.
Drop(t) ==
  /\ pc[t] = "drop"
  /\ \/ UNCHANGED queue
     \/ Send(Reclaimer)
  /\ Goto(t, "idle")
  /\ UNCHANGED <<budget, sleepers, requests, held, then, chunks, jobs>>

\* refresh: an incremental update enters at once, any other first retires the
\* snapshots kept for older readers and drains the reclaimer, without a permit.
Rebuild(r) ==
  /\ pc[r] = "idle" /\ jobs[r] < MaxJobs
  /\ jobs' = [jobs EXCEPT ![r] = @ + 1]
  /\ chunks' = [chunks EXCEPT ![r] = Chunks]
  /\ \/ Goto(r, "lock")
     \/ Goto(r, "retire")
  /\ UNCHANGED <<budget, sleepers, requests, held, then, queue>>

ReleasePrevious(r) ==
  /\ pc[r] = "retire"
  /\ \/ UNCHANGED queue
     \/ Send(Reclaimer)
  /\ Goto(r, "barrier")
  /\ UNCHANGED <<budget, sleepers, requests, held, then, chunks, jobs>>

SendBarrier(r) ==
  /\ pc[r] = "barrier"
  /\ Send(r)
  /\ Goto(r, "draining")
  /\ UNCHANGED <<budget, sleepers, requests, held, then, chunks, jobs>>

Receive ==
  /\ pc[Reclaimer] = "idle" /\ queue # << >>
  /\ queue' = Tail(queue)
  /\ IF Head(queue) = Reclaimer
       THEN Goto(Reclaimer, "lock") /\ chunks' = [chunks EXCEPT ![Reclaimer] = Chunks]
       ELSE Goto(Head(queue), "lock") /\ UNCHANGED chunks
  /\ UNCHANGED <<budget, sleepers, requests, held, then, jobs>>

-----------------------------------------------------------------------------
\* The specification

Init ==
  /\ available = Capacity /\ foreground_waiters = 0 /\ waiters = 0 /\ background_active = 0
  /\ wake_lock = NoThread /\ asleep = {}
  /\ cancelled = [q \in Queries |-> FALSE] /\ waking = FALSE
  /\ held = [t \in Threads |-> 0] /\ then = [t \in Threads |-> "idle"]
  /\ chunks = [t \in Threads |-> 0] /\ queue = << >>
  /\ pc = [t \in Threads |-> "idle"] /\ jobs = [t \in Threads |-> 0]

QueryStep(q) == Enter(q) \/ GiveUp(q) \/ AskParallel(q) \/ AcquireParallel(q) \/ EndParallel(q)

Step(t) ==
  \/ LockToWait(t) \/ Register(t) \/ Admit(t) \/ Decline(t) \/ Sleep(t) \/ Relock(t)
  \/ Finish(t) \/ CheckWaiters(t) \/ Notify(t) \/ CheckpointWork(t) \/ Drop(t)
  \/ t \in Queries /\ QueryStep(t)
  \/ t \in Rebuilds /\ (ReleasePrevious(t) \/ SendBarrier(t) \/ EndDigest(t))
  \/ t = Reclaimer /\ Receive

Next ==
  \/ \E q \in Queries : Request(q) \/ Cancel(q)
  \/ \E r \in Rebuilds : Rebuild(r) \/ AcquireAll(r)
  \/ \E t \in Threads : Step(t)
  \/ WakeCancelled

\* Every thread that can go on is scheduled; requests and cancellations need not come.
Fairness == (\A t \in Threads : WF_vars(Step(t))) /\ WF_vars(WakeCancelled)

Spec == Init /\ [][Next]_vars
FairSpec == Spec /\ Fairness

-----------------------------------------------------------------------------
\* Properties

\* Each permit that is out, as the thread that holds it and a number.
Out == UNION {{t} \X (1 .. held[t]) : t \in Threads}
Registered == {t \in Threads : pc[t] \in {"look", "park", "asleep", "relock"}}

\* The atomic counters agree with what the threads do: no path through
\* admission, parallel work, checkpoint, cancellation or release gains or loses a
\* permit, and the counts of waiters and of background work never drift.
PermitsConserved ==
  /\ available + Cardinality(Out) = Capacity
  /\ waiters = Cardinality(Registered)
  /\ foreground_waiters = Cardinality(Registered \cap Queries)
  /\ background_active = Cardinality({t \in Background : held[t] > 0 /\ pc[t] # "digest"})
  /\ asleep = {t \in Threads : pc[t] = "asleep"}

\* A thread never sleeps on the condition variable with nobody left to wake it:
\* some thread holds a permit, is releasing one, or is awake in the waiting loop.
\* The release reads the waiters after it returned its permits and the waiter
\* looks for permits after it registered, so one of them sees the other.
SleepersAreWoken ==
  asleep # {} =>
    \E t \in Threads : held[t] > 0 \/ pc[t] \in {"release", "notify", "lock", "register", "look", "relock"}

-----------------------------------------------------------------------------
(* The inductive invariant behind the two.                                 *)

Labels == {"idle", "enter", "lock", "register", "look", "park", "asleep", "relock", "run", "asked",
           "parallel", "ran", "digest", "release", "notify", "drop", "retire", "barrier", "draining"}
AdmissionTypeOK ==
  /\ {available, foreground_waiters, waiters, background_active} \subseteq Nat
  /\ wake_lock \in Threads \cup {NoThread} /\ asleep \subseteq Threads
  /\ cancelled \in [Queries -> BOOLEAN] /\ waking \in BOOLEAN
  /\ held \in [Threads -> Nat] /\ then \in [Threads -> {"idle", "drop", "lock", "ran"}]
  /\ chunks \in [Threads -> Nat] /\ queue \in Seq(Background)
  /\ pc \in [Threads -> Labels] /\ jobs \in [Threads -> Nat]

\* The mutex is held exactly between taking it and sleeping, leaving or giving up.
MutexIsHeld == \A t \in Threads : pc[t] \in {"register", "look", "park"} <=> wake_lock = t

\* The permits of a thread, and who it can be, at each place.
HoldsAt(t) ==
  CASE pc[t] \in {"run", "asked", "ran"} -> held[t] = 1
    [] pc[t] = "parallel" -> held[t] > 1
    [] pc[t] = "digest" -> held[t] = Capacity
    [] pc[t] \in {"release", "notify"} -> held[t] = (IF then[t] = "ran" THEN 1 ELSE 0)
    [] OTHER -> held[t] = 0
PlacesFit ==
  \A t \in Threads :
    /\ HoldsAt(t)
    /\ pc[t] \in {"enter", "asked", "parallel", "ran"} => t \in Queries
    /\ pc[t] \in {"release", "notify"} /\ then[t] = "ran" => t \in Queries
    /\ pc[t] \in {"digest", "retire", "barrier", "draining"} => t \in Rebuilds

\* A barrier in the queue is that of a rebuild which waits for it.
BarriersWait ==
  \A i \in 1 .. Len(queue) : queue[i] \in Rebuilds =>
    /\ pc[queue[i]] = "draining"
    /\ \A j \in 1 .. Len(queue) : queue[j] = queue[i] => j = i

\* A query that saw no permit is not passed over: whoever returned one since then
\* has still to look for waiters or to notify them.
PermitsAreAnnounced ==
  available > 0 /\ (\E q \in Queries : pc[q] \in {"park", "asleep"}) =>
    \E t \in Threads : pc[t] \in {"release", "notify"}
WaitersAreWoken ==
  (\E t \in Threads : pc[t] \in {"park", "asleep"}) =>
    \E t \in Threads : held[t] > 0 \/ pc[t] \in {"release", "notify", "lock", "register", "look", "relock"}

AdmissionInv ==
  /\ AdmissionTypeOK /\ MutexIsHeld /\ PlacesFit /\ BarriersWait
  /\ PermitsConserved /\ PermitsAreAnnounced /\ WaitersAreWoken

-----------------------------------------------------------------------------
\* Every query ends, admitted or cancelled.
QueriesFinish == \A q \in Queries : pc[q] # "idle" ~> pc[q] = "idle"

\* Retired snapshots are destroyed and a rebuild that waits for them goes on:
\* the full queue and the CPU budget never wait for each other.
RetirementProceeds ==
  /\ (queue # << >>) ~> (queue = << >>)
  /\ \A r \in Rebuilds : pc[r] # "idle" ~> pc[r] = "idle"
=============================================================================
