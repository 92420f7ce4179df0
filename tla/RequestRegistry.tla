--------------------------- MODULE RequestRegistry ---------------------------
(***************************************************************************)
(* Cancellable requests of SearchEngine (core/src/lib.rs) and the status   *)
(* signal they may wait on (core/src/status_signal.rs).                    *)
(*                                                                         *)
(* `requests` maps a request_id to the cancellation token of the request   *)
(* that runs under it.  A request inserts its token, and a guard removes   *)
(* the entry when the request ends.  A request that reuses an id cancels   *)
(* the one it displaces while it still holds the registry's mutex.         *)
(* wait_status then sleeps on the status condition variable until the      *)
(* revision moves or its token is set; the token is not protected by the   *)
(* mutex of that variable.                                                 *)
(*                                                                         *)
(* A token is identified by the thread that runs its request: a thread     *)
(* runs one request at a time.  What a query computes, and its wait for a  *)
(* worker permit (CpuAdmission), is the label "run".                       *)
(***************************************************************************)
EXTENDS Integers, FiniteSets

CONSTANTS
  Requests,     \* threads that run requests
  Ids,          \* request_id values
  Kinds,        \* kinds of request clients send
  IdsOf,        \* the ids clients use for each kind
  NoRequest,
  MaxWaiters,   \* MAX_WAITERS
  MaxRevision,  \* bound: changes of the status
  MaxRequests   \* bound: requests of each thread

ASSUME KindsAssumption ==
  /\ Kinds \subseteq {"query", "wait_status", "duplicates"}
  /\ Kinds # {} /\ Ids # {} /\ IdsOf \in [Kinds -> SUBSET Ids]
  /\ IsFiniteSet(Requests) /\ NoRequest \notin Requests
ASSUME BoundsAssumption == MaxWaiters \in Nat \ {0} /\ {MaxRevision, MaxRequests} \subseteq Nat

VARIABLES
  registry,       \* SearchEngine::requests
  registry_lock,  \* its mutex, when it is held across several steps
  cancelled,      \* the tokens
  waking,         \* a cancel request has set a token, its wake is due
  revision,       \* VersionedStatus::revision
  status_lock,    \* the mutex of StatusSignal
  asleep,         \* threads inside Condvar::wait_timeout
  expired,        \* waits whose time is over
  waiters,        \* StatusSignal::waiters
  call,           \* the request a thread runs
  pc, jobs

vars == <<registry, registry_lock, cancelled, waking, revision, status_lock, asleep, expired,
          waiters, call, pc, jobs>>
status == <<revision, status_lock, asleep, expired, waiters>>
names == <<registry, registry_lock, cancelled, waking>>

Call == [kind : Kinds, id : Ids, after : 0 .. MaxRevision]

Waiting == {"lock", "check", "park", "asleep", "relock", "leave"}

\* The type invariant.
TypeOK ==
  /\ registry \in [Ids -> Requests \cup {NoRequest}]
  /\ {registry_lock, status_lock} \subseteq Requests \cup {NoRequest}
  /\ cancelled \in [Requests -> BOOLEAN] /\ waking \in BOOLEAN
  /\ revision \in 0 .. MaxRevision
  /\ asleep \subseteq Requests /\ expired \subseteq Requests
  /\ waiters \in Int
  /\ call \in [Requests -> Call]
  /\ pc \in [Requests -> Waiting \cup {"idle", "insert", "replace", "run", "join", "refuse", "drop"}]
  /\ jobs \in [Requests -> 0 .. MaxRequests]

Goto(t, label) == pc' = [pc EXCEPT ![t] = label]

\* notify_all: every sleeper competes for the mutex again.
NotifyAll(t, label) ==
  /\ asleep' = {}
  /\ pc' = [u \in Requests |-> IF u = t THEN label ELSE IF u \in asleep THEN "relock" ELSE pc[u]]

-----------------------------------------------------------------------------
\* Registration

\* A request arrives with a fresh token; an observer names a revision it was told.
Begin(t) ==
  /\ pc[t] = "idle" /\ jobs[t] < MaxRequests
  /\ \E k \in Kinds : \E i \in IdsOf[k], a \in 0 .. revision :
       call' = [call EXCEPT ![t] = [kind |-> k, id |-> i, after |-> a]]
  /\ jobs' = [jobs EXCEPT ![t] = @ + 1]
  /\ cancelled' = [cancelled EXCEPT ![t] = FALSE]
  /\ Goto(t, "insert")
  /\ UNCHANGED <<registry, registry_lock, waking, status>>

Body(t) == IF call[t].kind = "wait_status" THEN "join" ELSE "run"

\* The displaced request is cancelled under the registry's mutex, which stays
\* held for the wake.  duplicates leaves it alone.
Insert(t) ==
  LET old == registry[call[t].id]
      displaces == old # NoRequest /\ call[t].kind # "duplicates"
  IN
  /\ pc[t] = "insert" /\ registry_lock = NoRequest
  /\ registry' = [registry EXCEPT ![call[t].id] = t]
  /\ IF displaces
       THEN /\ cancelled' = [cancelled EXCEPT ![old] = TRUE]
            /\ registry_lock' = t
            /\ Goto(t, "replace")
       ELSE Goto(t, Body(t)) /\ UNCHANGED <<cancelled, registry_lock>>
  /\ UNCHANGED <<waking, status, call, jobs>>

\* An observer wakes the observers, a query wakes the queries in CPU admission.
Replace(t) ==
  /\ pc[t] = "replace"
  /\ \/ /\ call[t].kind = "wait_status" /\ status_lock = NoRequest
        /\ NotifyAll(t, Body(t))
     \/ /\ call[t].kind = "query"
        /\ Goto(t, Body(t))
        /\ UNCHANGED asleep
  /\ registry_lock' = NoRequest
  /\ UNCHANGED <<registry, cancelled, waking, revision, status_lock, expired, waiters, call, jobs>>

Run(t) ==
  /\ pc[t] = "run"
  /\ Goto(t, "drop")
  /\ UNCHANGED <<names, status, call, jobs>>

\* Mutant: the guard removes whatever request has the id now.
DropAny(t) ==
  /\ pc[t] = "drop" /\ registry_lock = NoRequest
  /\ registry' = [registry EXCEPT ![call[t].id] = NoRequest]
  /\ expired' = expired \ {t}
  /\ Goto(t, "idle")
  /\ UNCHANGED <<registry_lock, cancelled, waking, revision, status_lock, asleep, waiters, call, jobs>>

\* RequestGuard::drop: the entry goes only if it is still this request's.
Drop(t) ==
  /\ pc[t] = "drop" /\ registry_lock = NoRequest
  /\ registry' = [registry EXCEPT ![call[t].id] = IF @ = t THEN NoRequest ELSE @]
  /\ expired' = expired \ {t}
  /\ Goto(t, "idle")
  /\ UNCHANGED <<registry_lock, cancelled, waking, revision, status_lock, asleep, waiters, call, jobs>>

\* cancel: the token of whoever is registered, then a wake of the observers.
Cancel(i) ==
  /\ registry_lock = NoRequest
  /\ registry[i] # NoRequest
  /\ cancelled' = [cancelled EXCEPT ![registry[i]] = TRUE]
  /\ waking' = TRUE
  /\ UNCHANGED <<registry, registry_lock, status, call, pc, jobs>>

\* Mutant: the wake does not take the mutex under which an observer decides.
WakeUnlocked ==
  /\ waking
  /\ waking' = FALSE
  /\ NotifyAll(NoRequest, "idle")
  /\ UNCHANGED <<registry, registry_lock, cancelled, revision, status_lock, expired, waiters, call, jobs>>

WakeCancelled ==
  /\ waking /\ status_lock = NoRequest
  /\ waking' = FALSE
  /\ NotifyAll(NoRequest, "idle")
  /\ UNCHANGED <<registry, registry_lock, cancelled, revision, status_lock, expired, waiters, call, jobs>>

-----------------------------------------------------------------------------
\* StatusSignal

\* Mutant: a change of the value that nobody is told of.
PublishSilently ==
  /\ revision < MaxRevision /\ status_lock = NoRequest
  /\ revision' = revision + 1
  /\ UNCHANGED <<names, status_lock, asleep, expired, waiters, call, pc, jobs>>

\* Every change of the status, by whatever thread, counts up and notifies.
Publish ==
  /\ revision < MaxRevision /\ status_lock = NoRequest
  /\ revision' = revision + 1
  /\ NotifyAll(NoRequest, "idle")
  /\ UNCHANGED <<names, status_lock, expired, waiters, call, jobs>>

\* The counter admits an observer before it is checked: one that finds it at its
\* limit counts, for a moment, too.
Join(t) ==
  /\ pc[t] = "join"
  /\ waiters' = waiters + 1
  /\ Goto(t, IF waiters >= MaxWaiters THEN "refuse" ELSE "lock")
  /\ UNCHANGED <<names, revision, status_lock, asleep, expired, call, jobs>>

\* Mutant: the rejected observer stays counted.
RefuseCounted(t) ==
  /\ pc[t] = "refuse"
  /\ Goto(t, "drop")
  /\ UNCHANGED <<names, status, call, jobs>>

Refuse(t) ==
  /\ pc[t] = "refuse"
  /\ waiters' = waiters - 1
  /\ Goto(t, "drop")
  /\ UNCHANGED <<names, revision, status_lock, asleep, expired, call, jobs>>

Lock(t) ==
  /\ pc[t] \in {"lock", "relock"} /\ status_lock = NoRequest
  /\ status_lock' = t
  /\ Goto(t, "check")
  /\ UNCHANGED <<names, revision, asleep, expired, waiters, call, jobs>>

Unchanged(t) == revision = call[t].after /\ ~cancelled[t]

\* The condition is read, the thread has decided to sleep and still holds the mutex.
Check(t) ==
  /\ pc[t] = "check"
  /\ \/ /\ Unchanged(t) /\ t \notin expired
        /\ Goto(t, "park")
        /\ UNCHANGED status_lock
     \/ /\ ~Unchanged(t) \/ t \in expired
        /\ Goto(t, "leave")
        /\ status_lock' = NoRequest
  /\ UNCHANGED <<names, revision, asleep, expired, waiters, call, jobs>>

Sleep(t) ==
  /\ pc[t] = "park"
  /\ asleep' = asleep \cup {t}
  /\ status_lock' = NoRequest
  /\ Goto(t, "asleep")
  /\ UNCHANGED <<names, revision, expired, waiters, call, jobs>>

Expire(t) ==
  /\ pc[t] = "asleep"
  /\ asleep' = asleep \ {t}
  /\ expired' = expired \cup {t}
  /\ Goto(t, "relock")
  /\ UNCHANGED <<names, revision, status_lock, waiters, call, jobs>>

Leave(t) ==
  /\ pc[t] = "leave"
  /\ waiters' = waiters - 1
  /\ Goto(t, "drop")
  /\ UNCHANGED <<names, revision, status_lock, asleep, expired, call, jobs>>

-----------------------------------------------------------------------------
\* The specification

Init ==
  /\ registry = [i \in Ids |-> NoRequest] /\ registry_lock = NoRequest
  /\ cancelled = [t \in Requests |-> FALSE] /\ waking = FALSE
  /\ revision = 0 /\ status_lock = NoRequest
  /\ asleep = {} /\ expired = {} /\ waiters = 0
  /\ call = [t \in Requests |-> CHOOSE c \in Call : TRUE]
  /\ pc = [t \in Requests |-> "idle"] /\ jobs = [t \in Requests |-> 0]

Step(t) ==
  \/ Insert(t) \/ Replace(t) \/ Run(t) \/ Drop(t)
  \/ Join(t) \/ Refuse(t) \/ Lock(t) \/ Check(t) \/ Sleep(t) \/ Leave(t)

Next ==
  \/ \E t \in Requests : Begin(t) \/ Step(t) \/ Expire(t)
  \/ \E i \in Ids : Cancel(i)
  \/ WakeCancelled
  \/ Publish

Spec == Init /\ [][Next]_vars

\* Threads that can go on are scheduled.  Nothing is assumed of the timeouts.
FairSpec == Spec /\ (\A t \in Requests : WF_vars(Step(t))) /\ WF_vars(WakeCancelled)

-----------------------------------------------------------------------------
\* Properties

At(labels) == {t \in Requests : pc[t] \in labels}

InFlight(t) == pc[t] \notin {"idle", "insert"}

\* cancel reaches every request that runs under its id: whoever is in flight and
\* not yet cancelled is the one that is registered.  A displaced request is
\* cancelled at once, and its guard leaves its successor's entry alone.
CancellationReaches ==
  \A t \in Requests : InFlight(t) /\ ~cancelled[t] => registry[call[t].id] = t

\* The counter of observers is exactly the threads inside wait, on every path out
\* of it, and never more of them wait than the limit allows.
ObserversAccounted ==
  /\ waiters = Cardinality(At(Waiting \cup {"refuse"}))
  /\ Cardinality(At(Waiting)) <= MaxWaiters

\* No observer sleeps through a change or a cancellation: while it sleeps the
\* revision is the one it named, and if its token is set a wake is still to come.
NoMissedWake ==
  \A t \in asleep :
    /\ revision = call[t].after
    /\ cancelled[t] => waking \/ \E u \in Requests : pc[u] = "replace" /\ call[u].kind = "wait_status"

\* A request whose reason to wait is gone ends, without help from the timeouts.
ObserversAnswer ==
  \A t \in Requests :
    (pc[t] # "idle" /\ (call[t].kind # "wait_status" \/ ~Unchanged(t))) ~> (pc[t] = "idle")

-----------------------------------------------------------------------------
\* The inductive invariant behind CancellationReaches and NoMissedWake

\* How the application uses ids: an observer's id is never a query's, and no
\* duplicates request shares one.
Disciplined ==
  /\ "duplicates" \notin Kinds
  /\ \A j, k \in Kinds : j # k => IdsOf[j] \cap IdsOf[k] = {}

\* An entry of the registry belongs to a request in flight under that id.
EntriesAreLive ==
  \A i \in Ids : registry[i] # NoRequest =>
    InFlight(registry[i]) /\ call[registry[i]].id = i

\* The mutexes and the condition variable agree with the control of the threads.
LocksMatch ==
  /\ \A t \in Requests : status_lock = t <=> pc[t] \in {"check", "park"}
  /\ \A t \in Requests : registry_lock = t <=> pc[t] = "replace"
  /\ asleep = {t \in Requests : pc[t] = "asleep"}

\* A request runs the code of its kind under an id of its kind.
CallsMatch ==
  \A t \in Requests :
    /\ pc[t] # "idle" => call[t].id \in IdsOf[call[t].kind]
    /\ pc[t] \in Waiting \cup {"join", "refuse"} => call[t].kind = "wait_status"

\* NoMissedWake already holds of a thread that has decided to sleep.
ParkedAreWoken ==
  \A t \in Requests : pc[t] \in {"park", "asleep"} =>
    /\ revision = call[t].after
    /\ cancelled[t] => waking \/ \E u \in Requests : pc[u] = "replace" /\ call[u].kind = "wait_status"

IndInv ==
  TypeOK /\ EntriesAreLive /\ CancellationReaches /\ LocksMatch /\ CallsMatch /\ ParkedAreWoken
=============================================================================
