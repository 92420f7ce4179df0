---------------------------- MODULE Reconciliation ----------------------------
(***************************************************************************)
(* The index worker of core/src/lib.rs (start_worker, scan_worker,         *)
(* reconcile_baseline, reconcile_pass), the file-event stream that drives  *)
(* it (core/src/scanner.rs: Watcher, collect_event, the reconciliation     *)
(* plan) and the persisted resume point (event_id, scan_resume_proof)      *)
(* that lets a restarted engine trust its rows and replay only the         *)
(* journal's newer events.                                                 *)
(*                                                                         *)
(* The file system is a log of changes.  A path's metadata is identified   *)
(* by the last log entry that touched it, so a row of the index is either  *)
(* None or the number of the change it reflects.  The journal numbers      *)
(* events from the start of the current epoch (journal UUID and boot       *)
(* session); a wrap of the event identifiers starts a new epoch.           *)
(*                                                                         *)
(* Every transaction of the store, every atomic flag access, every         *)
(* delivery of an event and every change of the file system is a step, and *)
(* a crash may come between any two of them.                               *)
(***************************************************************************)
EXTENDS Integers, Sequences, FiniteSets, FiniteSetsExt

CONSTANTS
  Paths,          \* entries of the file system
  Parent,         \* the directory of an entry, NoPath for a root directory
  NoPath,
  RootSets,       \* the selections of roots a client may ask for
  WatchModes,     \* values of "watch" in scan requests, a subset of BOOLEAN
  NoProof,        \* scan_resume_proof is null
  QueueLimit,     \* 65,536 in collect_event
  ReplaySlack,    \* already acknowledged events a resumed stream may repeat
  Faults,         \* which of the fault kinds below may strike
  MaxEvents,      \* bound: changes of the file system
  MaxRequests,    \* bound: scan requests of clients
  MaxFaults       \* bound: faults

\* "crash" ends the process, "wrap" starts a new journal epoch, "retry" is a
\* batch whose mounts or revision moved, "error" a failing store or refresh,
\* "cancel" a client's cancel of the scan, "stop" a client's stop, "inspect" a
\* resume inspection that cannot be made, "recheck" one that finds access or
\* mounts changed.
FaultKinds == {"crash", "wrap", "retry", "error", "cancel", "stop", "inspect", "recheck"}

ASSUME BoundsAssumption ==
  /\ QueueLimit \in Nat \ {0}
  /\ {ReplaySlack, MaxEvents, MaxRequests, MaxFaults} \subseteq Nat

ASSUME NamespaceAssumption ==
  /\ Parent \in [Paths -> Paths \cup {NoPath}]
  /\ NoPath \notin Paths
  /\ \A p \in Paths : Parent[p] # NoPath => Parent[Parent[p]] = NoPath
  /\ RootSets \subseteq (SUBSET Paths) \ {{}}
  /\ WatchModes \subseteq BOOLEAN
  /\ Faults \subseteq FaultKinds

VARIABLES
  log,        \* the file system: every change so far
  journal,    \* the journal: its epoch and the log position where it began
  store,      \* the SQLite database (durable)
  up,         \* the process runs
  stop,       \* SearchEngine::stop
  cancel,     \* SearchEngine::scan_cancel
  stopping,   \* a stop request has stored stop but not yet scan_cancel
  control,    \* the client thread inside start_worker, under restart_lock
  stream,     \* the Watcher: FSEvents stream and its queue
  w,          \* the index worker thread
  budget      \* requests and faults used up

vars == <<log, journal, store, up, stop, cancel, stopping, control, stream, w, budget>>
engine == <<up, stop, cancel, stopping, control, stream, w>>

-----------------------------------------------------------------------------
\* The file system and its journal

None == -1          \* no visible row
NoEpoch == -1       \* scan_resume::inspect failed
Dirs == {p \in Paths : Parent[p] = NoPath}
Under(scopes) == scopes \cup {p \in Paths : Parent[p] \in scopes}

\* Creating or removing an entry also changes its directory's timestamps.
Affects(change, p) ==
  \/ change.path = p
  \/ change.op # "touch" /\ Parent[change.path] = p

Version(p) == Max({0} \cup {i \in DOMAIN log : Affects(log[i], p)})

Present(p) ==
  LET own == {i \in DOMAIN log : log[i].path = p}
  IN  \A i \in own : log[i].op = "remove" => \E j \in own : j > i

\* What an exact row of p says: scanner::from_metadata of a present entry.
Metadata(p) == IF Present(p) THEN Version(p) ELSE None

\* Event identifiers start over in each epoch; 0 is never one of them.
current_event_id == Len(log) - journal.base + 1
Entry(p, op) == [path |-> p, op |-> op, id |-> current_event_id + 1]

Change ==
  /\ Len(log) < MaxEvents
  /\ \E p \in Paths :
       \/ Present(p) /\ log' = Append(log, Entry(p, "touch"))
       \/ /\ p \notin Dirs
          /\ log' = Append(log, Entry(p, IF Present(p) THEN "remove" ELSE "create"))
  /\ UNCHANGED <<journal, store, engine, budget>>

Fault(kind) ==
  /\ kind \in Faults
  /\ budget.faults < MaxFaults
  /\ budget' = [budget EXCEPT !.faults = @ + 1]

\* The journal starts over: its UUID changes with its numbering.
Wrap ==
  /\ Fault("wrap")
  /\ journal' = [epoch |-> journal.epoch + 1, base |-> Len(log)]
  /\ UNCHANGED <<log, store, engine>>

-----------------------------------------------------------------------------
\* The event stream: scanner::Watcher and collect_event

Closed == [open |-> FALSE, at |-> 0, end |-> 0, epoch |-> 0, done |-> FALSE, queue |-> {}]

\* A stream replays the history since a cursor, repeating some of the chunk
\* that holds it, and then announces HistoryDone (Watcher::start, FullHistory).
Streams(since) ==
  LET first == journal.base + since - 1
  IN  {[open |-> TRUE, at |-> at, end |-> Len(log), epoch |-> journal.epoch,
        done |-> FALSE, queue |-> {}] :
         at \in Max({journal.base, first - ReplaySlack}) .. first}

\* Mutant: a full queue drops the event instead of asking for a rescan.
CollectDropping(queue, roots, event) ==
  IF Cardinality(queue) >= QueueLimit THEN queue ELSE queue \cup {event}

\* A full queue is replaced by one rescan per root; of the queued flags only
\* GLOBAL_HISTORY_INVALIDATION survives.
Collect(queue, roots, event) ==
  LET controls == {"wrapped"} \cap UNION {e.flags : e \in queue}
  IN  IF Cardinality(queue) >= QueueLimit
        THEN {[path |-> r, id |-> event.id, flags |-> {"rescan"} \cup controls] : r \in roots}
        ELSE queue \cup {event}

Control(flag) == [path |-> NoPath, id |-> 0, flags |-> {flag}]

Event(change) ==
  [path |-> change.path, id |-> change.id,
   flags |-> {IF change.op = "touch" THEN "touch" ELSE "subtree"}]

\* An ordinary event arrives; one outside the roots is filtered.
DeliverEvent ==
  LET change == log[stream.at + 1]
  IN  /\ stream.open /\ stream.at < Len(log)
      /\ stream.epoch = journal.epoch \/ stream.at < journal.base
      /\ stream.at >= stream.end => stream.done
      /\ stream' = [stream EXCEPT !.at = @ + 1,
                      !.queue = IF change.path \in Under(w.roots)
                                  THEN Collect(@, w.roots, Event(change)) ELSE @]
      /\ UNCHANGED <<log, journal, store, up, stop, cancel, stopping, control, w, budget>>

\* The controls bypass the bound of the queue and the filter.
DeliverHistoryDone ==
  /\ stream.open /\ ~stream.done /\ stream.at >= stream.end
  /\ stream' = [stream EXCEPT !.done = TRUE, !.queue = @ \cup {Control("done")}]
  /\ UNCHANGED <<log, journal, store, up, stop, cancel, stopping, control, w, budget>>

DeliverWrapped ==
  /\ stream.open /\ stream.epoch # journal.epoch /\ stream.at >= journal.base
  /\ stream' = [stream EXCEPT !.epoch = journal.epoch, !.queue = @ \cup {Control("wrapped")}]
  /\ UNCHANGED <<log, journal, store, up, stop, cancel, stopping, control, w, budget>>

Deliver == DeliverEvent \/ DeliverHistoryDone \/ DeliverWrapped

-----------------------------------------------------------------------------
\* The store and the resume decision

\* Whether the persisted state would be resumed from the journal: the checks of
\* scan_worker and ResumeProof::rejection_reason for an inspection of this epoch.
Resumable(epoch, roots) ==
  /\ ~store.invalid
  /\ store.cursor \in 1 .. current_event_id
  /\ store.proof # NoProof
  /\ store.proof = [roots |-> roots, epoch |-> epoch]

\* Mutant: the cursor is read when the pass ends instead of before it began.
FinishedAtCurrentId(scopes, seen, event_id) ==
  [store EXCEPT !.rows = [p \in Paths |-> IF p \in Under(scopes) \ seen THEN None ELSE @[p]],
                !.cursor = current_event_id]

\* finish_observed: entries of the enumerated scopes that were not observed
\* lose their rows, in the transaction that stores the cursor.
Finished(scopes, seen, event_id) ==
  [store EXCEPT !.rows = [p \in Paths |-> IF p \in Under(scopes) \ seen THEN None ELSE @[p]],
                !.cursor = event_id]

Committed(batch) ==
  [store EXCEPT !.rows = [p \in Paths |-> IF p \in DOMAIN batch THEN batch[p] ELSE @[p]]]

retain_roots(roots) ==
  [store EXCEPT !.rows = [p \in Paths |-> IF p \in Under(roots) THEN @[p] ELSE None]]

commit_resume_proof(roots, epoch) ==
  [store EXCEPT !.proof = [roots |-> roots, epoch |-> epoch], !.invalid = FALSE]

invalidate_event_history ==
  [store EXCEPT !.proof = NoProof, !.cursor = 0, !.invalid = TRUE]

-----------------------------------------------------------------------------
\* Starting, stopping and cancelling: start_worker and dispatch

Idle == [pc |-> "free", roots |-> {}, watch |-> FALSE]

NoPass ==
  [initial |-> FALSE, recursive |-> FALSE, scopes |-> {}, event_id |-> 0, todo |-> {},
   batch |-> << >>, seen |-> {}, broken |-> "no"]

NoWorker ==
  [pc |-> "none", roots |-> {}, watch |-> FALSE, resume |-> FALSE, since |-> 0,
   restore |-> FALSE, before |-> NoEpoch, pass |-> NoPass, metadata |-> {},
   events |-> {}, pending |-> {}, done |-> FALSE, replaying |-> FALSE]

Worker(roots, watch, resume) ==
  [NoWorker EXCEPT !.pc = "prune", !.roots = roots, !.watch = watch, !.resume = resume]

\* start_worker takes restart_lock; a running worker is told to stop first.
Scan ==
  /\ up /\ control.pc = "free" /\ budget.requests < MaxRequests
  /\ budget' = [budget EXCEPT !.requests = @ + 1]
  /\ \E roots \in RootSets, watch \in WatchModes :
       control' = [pc |-> IF w.pc # "none" THEN "signal" ELSE "join", roots |-> roots,
                   watch |-> watch]
  /\ stop' = (stop \/ w.pc # "none")
  /\ UNCHANGED <<log, journal, store, up, cancel, stopping, stream, w>>

Signal ==
  /\ control.pc = "signal"
  /\ cancel' = TRUE
  /\ control' = [control EXCEPT !.pc = "join"]
  /\ UNCHANGED <<log, journal, store, up, stop, stopping, stream, w, budget>>

\* The join returns once the worker thread has ended.
Join ==
  /\ control.pc = "join" /\ w.pc = "none"
  /\ control' = [control EXCEPT !.pc = IF store.roots = control.roots THEN "reset" ELSE "retain"]
  /\ UNCHANGED <<log, journal, store, up, stop, cancel, stopping, stream, w, budget>>

\* Rows outside the new roots go in one transaction, the roots change in the next.
Retain ==
  /\ control.pc = "retain"
  /\ store' = retain_roots(control.roots)
  /\ control' = [control EXCEPT !.pc = "roots"]
  /\ UNCHANGED <<log, journal, up, stop, cancel, stopping, stream, w, budget>>

SetRoots ==
  /\ control.pc = "roots"
  /\ store' = [store EXCEPT !.roots = control.roots]
  /\ control' = [control EXCEPT !.pc = "reset"]
  /\ UNCHANGED <<log, journal, up, stop, cancel, stopping, stream, w, budget>>

ResetStop ==
  /\ control.pc = "reset"
  /\ store' = [store EXCEPT !.watch = control.watch]
  /\ stop' = FALSE
  /\ control' = [control EXCEPT !.pc = "spawn"]
  /\ UNCHANGED <<log, journal, up, cancel, stopping, stream, w, budget>>

\* An explicit scan never resumes (start_scan passes resume = false).
Spawn ==
  /\ control.pc = "spawn"
  /\ cancel' = FALSE
  /\ w' = Worker(control.roots, control.watch, FALSE)
  /\ control' = Idle
  /\ UNCHANGED <<log, journal, store, up, stop, stopping, stream, budget>>

\* The "stop" request stores two flags, without any lock.
Stop ==
  /\ up /\ ~stopping /\ Fault("stop")
  /\ stop' = TRUE /\ stopping' = TRUE
  /\ UNCHANGED <<log, journal, store, up, cancel, control, stream, w>>

StopCancels ==
  /\ stopping
  /\ cancel' = TRUE /\ stopping' = FALSE
  /\ UNCHANGED <<log, journal, store, up, stop, control, stream, w, budget>>

\* The "cancel" request with request_id "scan".
CancelScan ==
  /\ up /\ Fault("cancel")
  /\ cancel' = TRUE
  /\ UNCHANGED <<log, journal, store, up, stop, stopping, control, stream, w>>

\* A crash, or a quit between any two steps, leaves the store.
Crash ==
  /\ up /\ Fault("crash")
  /\ up' = FALSE /\ stop' = FALSE /\ cancel' = FALSE /\ stopping' = FALSE
  /\ control' = Idle /\ stream' = Closed /\ w' = NoWorker
  /\ UNCHANGED <<log, journal, store>>

\* SearchEngine::open resumes persisted watched roots.
Reopen ==
  /\ ~up
  /\ up' = TRUE
  /\ w' = IF store.watch /\ store.roots # {} THEN Worker(store.roots, TRUE, TRUE) ELSE NoWorker
  /\ UNCHANGED <<log, journal, store, stop, cancel, stopping, control, stream, budget>>

-----------------------------------------------------------------------------
\* The worker: scan_worker

WorkerOnly == UNCHANGED <<log, journal, up, stop, stopping, control, budget>>
Quiet == UNCHANGED <<store, cancel, stream>>

\* prune_index_namespace; a worker that is already stopped ends here.
Prune ==
  /\ w.pc = "prune"
  /\ w' = [w EXCEPT !.pc = IF cancel \/ stop THEN "over" ELSE "decide"]
  /\ Quiet /\ WorkerOnly

NewPass(initial, recursive, scopes, event_id) ==
  [NoPass EXCEPT !.initial = initial, !.recursive = recursive, !.scopes = scopes,
                 !.event_id = event_id]

\* The resume decision, the cursor anchor and the start of the stream.  before
\* is the epoch of the inspection, recheck what it found changed.
DecideWith(before, recheck) ==
  LET restore == w.watch /\ w.resume /\ before # NoEpoch /\ Resumable(before, w.roots)
      since == IF restore THEN store.cursor ELSE current_event_id
      first == IF restore THEN NewPass(FALSE, TRUE, recheck, since)
                          ELSE NewPass(TRUE, TRUE, w.roots, since)
  IN  /\ w' = [w EXCEPT !.pc = IF first.scopes = {} THEN "checkpoint" ELSE "enter",
                        !.since = since, !.restore = restore, !.before = before,
                        !.pass = first, !.replaying = w.watch]
      /\ IF w.watch THEN stream' \in Streams(since) ELSE UNCHANGED stream

Decide ==
  /\ w.pc = "decide"
  /\ \/ DecideWith(journal.epoch, {}) /\ UNCHANGED budget
     \/ DecideWith(NoEpoch, {}) /\ Fault("inspect")
     \/ DecideWith(journal.epoch, w.roots) /\ Fault("recheck")
  /\ UNCHANGED <<log, journal, store, up, stop, cancel, stopping, control>>

\* reconcile_pass: what its caller does with the outcome.
Baseline == w.events = {}

Outcome(outcome, pass) ==
  IF Baseline
    THEN [w EXCEPT !.pass = IF outcome = "complete" THEN NoPass ELSE pass,
                   !.pc = CASE outcome = "complete" -> "checkpoint"
                            [] outcome = "retry" -> "retry"
                            [] outcome = "cancelled" -> "over"]
    ELSE IF outcome = "complete"
      THEN IF w.metadata = {}
             THEN [w EXCEPT !.pc = "acknowledge"]
             ELSE [w EXCEPT !.pc = "enter", !.metadata = {},
                            !.pass = NewPass(FALSE, FALSE, w.metadata, pass.event_id)]
      ELSE [w EXCEPT !.pc = "watch", !.pass = NoPass, !.metadata = {}, !.events = {},
                     !.done = FALSE,
                     !.pending = w.events \cup (IF w.done THEN {Control("done")} ELSE {})]

\* Mutant: a pass starts without looking at stop.
EnterPassUnchecked ==
  /\ w.pc = "enter"
  /\ w' = [w EXCEPT !.pc = "scan", !.pass.todo = Under(w.pass.scopes)]
  /\ Quiet /\ WorkerOnly

EnterPass ==
  /\ w.pc = "enter"
  /\ w' = IF stop THEN Outcome("cancelled", NoPass)
          ELSE [w EXCEPT !.pc = "scan",
                         !.pass.todo = IF w.pass.recursive THEN Under(w.pass.scopes)
                                                           ELSE w.pass.scopes]
  /\ Quiet /\ WorkerOnly

\* One entry is read; an absent one is simply not observed.
ScanEntry ==
  /\ w.pc = "scan" /\ ~cancel
  /\ \E p \in w.pass.todo :
       w' = [w EXCEPT !.pass.todo = @ \ {p},
                      !.pass.batch = IF Present(p) THEN [q \in DOMAIN @ \cup {p} |->
                                                           IF q = p THEN Version(p) ELSE @[q]]
                                     ELSE @]
  /\ Quiet /\ WorkerOnly

\* on_batch: the rows of a batch commit in one transaction.  After an error, a
\* cancellation or a conflict the remaining batches are dropped.  Only passes
\* other than the first look at the cancellation again (check_links).
CommitBatch ==
  LET pass == w.pass
      cancelled == ~pass.initial /\ cancel
  IN  /\ w.pc = "scan" /\ pass.batch # << >>
      /\ \/ /\ pass.broken # "no"
            /\ w' = [w EXCEPT !.pass.batch = << >>]
            /\ UNCHANGED <<store, cancel, budget>>
         \/ /\ pass.broken = "no" /\ cancelled
            /\ w' = [w EXCEPT !.pass.batch = << >>, !.pass.broken = "cancelled"]
            /\ UNCHANGED <<store, cancel, budget>>
         \/ /\ pass.broken = "no" /\ ~cancelled
            /\ store' = Committed(pass.batch)
            /\ w' = [w EXCEPT !.pass.batch = << >>, !.pass.seen = @ \cup DOMAIN pass.batch]
            /\ UNCHANGED <<cancel, budget>>
         \/ /\ pass.broken = "no" /\ ~pass.initial /\ Fault("retry")
            /\ w' = [w EXCEPT !.pass.batch = << >>, !.pass.broken = "retry"]
            /\ cancel' = TRUE /\ UNCHANGED store
         \/ /\ pass.broken = "no" /\ Fault("error")
            /\ w' = [w EXCEPT !.pass.batch = << >>, !.pass.broken = "error"]
            /\ cancel' = TRUE /\ store' \in {store, Committed(pass.batch)}
      /\ UNCHANGED <<log, journal, up, stop, stopping, control, stream>>

\* The scanner returns.  A recursive scan reads the flag once more at its end, a
\* metadata scan only reports the cancellation that cut it short.
EndScan ==
  LET pass == w.pass
      cancelled == \/ pass.broken = "cancelled"
                   \/ IF pass.recursive THEN cancel ELSE pass.todo # {}
  IN  /\ w.pc = "scan" /\ pass.batch = << >>
      /\ pass.todo = {} \/ cancel
      /\ \/ /\ pass.broken = "error"
            /\ w' = [w EXCEPT !.pc = "over"]
         \/ /\ pass.broken = "retry"
            /\ w' = Outcome("retry", [pass EXCEPT !.todo = {}, !.seen = {}, !.broken = "no"])
         \/ /\ pass.broken \notin {"error", "retry"} /\ cancelled
            /\ w' = Outcome("cancelled", NoPass)
         \/ /\ pass.broken \notin {"error", "retry"} /\ ~cancelled
            /\ w' = [w EXCEPT !.pc = "finish"]
      /\ Quiet /\ WorkerOnly

\* finish_observed, the uncovered set and the refresh, which may fail.
FinishPass ==
  /\ w.pc = "finish"
  /\ store' = Finished(IF w.pass.recursive THEN w.pass.scopes ELSE {}, w.pass.seen, w.pass.event_id)
  /\ \/ w' = Outcome("complete", w.pass) /\ UNCHANGED budget
     \/ w' = [w EXCEPT !.pc = "over"] /\ Fault("error")
  /\ UNCHANGED <<log, journal, up, stop, cancel, stopping, control, stream>>

\* reconcile_baseline looks at stop before it clears the flag it set itself.
RetryBaseline ==
  /\ w.pc = "retry"
  /\ w' = [w EXCEPT !.pc = IF stop THEN "over" ELSE "again"]
  /\ Quiet /\ WorkerOnly

ClearRetry ==
  /\ w.pc = "again"
  /\ cancel' = FALSE
  /\ w' = [w EXCEPT !.pc = "enter"]
  /\ UNCHANGED <<store, stream>> /\ WorkerOnly

\* checkpoint_resume_proof: the namespace must still be the inspected one.
Checkpoint ==
  /\ w.pc = "checkpoint"
  /\ store' = IF w.watch /\ w.before = journal.epoch
                THEN commit_resume_proof(w.roots, w.before) ELSE store
  /\ w' = [w EXCEPT !.pc = IF w.watch THEN "watch" ELSE "over"]
  /\ UNCHANGED <<cancel, stream>> /\ WorkerOnly

Flags(events) == UNION {e.flags : e \in events}

\* The watch loop drains the queue every 150 ms.
StopWatching ==
  /\ w.pc = "watch" /\ stop
  /\ w' = [w EXCEPT !.pc = "over"]
  /\ Quiet /\ WorkerOnly

Drain ==
  LET drained == w.pending \cup stream.queue
      events == {e \in drained : "done" \notin e.flags}
      done == "done" \in Flags(drained)
  IN  /\ w.pc = "watch" /\ ~stop /\ drained # {}
      /\ stream' = [stream EXCEPT !.queue = {}]
      /\ IF "wrapped" \in Flags(drained)
           THEN /\ store' = invalidate_event_history
                /\ w' = [w EXCEPT !.pc = "restart", !.pending = {}]
           ELSE /\ UNCHANGED store
                /\ w' = IF events = {}
                          THEN [w EXCEPT !.pending = {}, !.replaying = @ /\ ~done]
                          ELSE [w EXCEPT !.pending = {}, !.pc = "plan", !.events = events,
                                         !.done = done, !.pass.event_id = store.cursor]
      /\ UNCHANGED cancel /\ WorkerOnly

\* The old stream is dropped before a fresh one captures a new baseline.
Restart ==
  /\ w.pc = "restart"
  /\ stream' = Closed
  /\ w' = IF stop THEN [w EXCEPT !.pc = "over"] ELSE Worker(w.roots, w.watch, w.resume)
  /\ UNCHANGED <<store, cancel>> /\ WorkerOnly

\* reconciliation_plan_with_history and resolve_directory_checks.
RecursiveScopes(events) ==
  IF "rescan" \in Flags(events) THEN w.roots
  ELSE {e.path : e \in {f \in events : \/ "subtree" \in f.flags
                                       \/ f.path \notin Dirs
                                       \/ store.rows[f.path] = None}}

\* Mutant: the directory of a created or removed entry is not read again.
MetadataPathsWithoutParents(events) ==
  ({e.path : e \in events} \cap Dirs) \ Under(RecursiveScopes(events))

MetadataPaths(events) ==
  LET touched == {e.path : e \in events}
  IN  ((touched \cap Dirs) \cup ({Parent[p] : p \in touched} \cap Under(w.roots)))
        \ Under(RecursiveScopes(events))

Plan ==
  LET recursive == RecursiveScopes(w.events)
      metadata == MetadataPaths(w.events)
  IN  /\ w.pc = "plan"
      /\ w' = IF stop THEN [w EXCEPT !.pc = "over"]
              ELSE IF recursive # {}
                THEN [w EXCEPT !.pc = "clear", !.metadata = metadata,
                               !.pass = NewPass(FALSE, TRUE, recursive, @.event_id)]
                ELSE [w EXCEPT !.pc = "clear",
                               !.pass = NewPass(FALSE, FALSE, metadata, @.event_id)]
      /\ Quiet /\ WorkerOnly

ClearCancel ==
  /\ w.pc = "clear"
  /\ cancel' = FALSE
  /\ w' = [w EXCEPT !.pc = "enter"]
  /\ UNCHANGED <<store, stream>> /\ WorkerOnly

\* Event progress is committed only after all paths of the drain.
Acknowledge ==
  LET persisted == w.pass.event_id
      max_id == Max({persisted} \cup {e.id : e \in w.events})
  IN  /\ w.pc = "acknowledge"
      /\ store' = IF max_id > persisted THEN [store EXCEPT !.cursor = max_id] ELSE store
      /\ w' = [w EXCEPT !.pc = "watch", !.pass = NoPass, !.events = {}, !.done = FALSE,
                        !.replaying = @ /\ ~w.done]
      /\ UNCHANGED <<cancel, stream>> /\ WorkerOnly

\* A store or refresh that fails ends the worker with its error.
StepFails ==
  /\ w.pc \in {"prune", "decide", "finish", "checkpoint", "watch", "plan", "acknowledge"}
  /\ Fault("error")
  /\ w' = [w EXCEPT !.pc = "over"]
  /\ UNCHANGED <<log, journal, store, up, stop, cancel, stopping, control, stream>>

\* The watcher is dropped and the worker becomes inactive.
Exit ==
  /\ w.pc = "over"
  /\ w' = NoWorker /\ stream' = Closed
  /\ UNCHANGED <<store, cancel>> /\ WorkerOnly

-----------------------------------------------------------------------------
\* The specification

Init ==
  /\ log = << >> /\ journal = [epoch |-> 1, base |-> 0]
  /\ store = [rows |-> [p \in Paths |-> None], roots |-> {}, watch |-> FALSE, cursor |-> 0,
              proof |-> NoProof, invalid |-> FALSE]
  /\ up = TRUE /\ stop = FALSE /\ cancel = FALSE /\ stopping = FALSE
  /\ control = Idle /\ stream = Closed /\ w = NoWorker
  /\ budget = [requests |-> 0, faults |-> 0]

Client == Scan \/ Signal \/ Join \/ Retain \/ SetRoots \/ ResetStop \/ Spawn

WorkerStep ==
  \/ Prune \/ Decide \/ EnterPass \/ ScanEntry \/ CommitBatch \/ EndScan \/ FinishPass
  \/ RetryBaseline \/ ClearRetry \/ Checkpoint \/ StopWatching \/ Drain \/ Restart
  \/ Plan \/ ClearCancel \/ Acknowledge \/ Exit

Next ==
  \/ Change \/ Wrap \/ Deliver
  \/ Client \/ Stop \/ StopCancels \/ CancelScan \/ Crash \/ Reopen
  \/ WorkerStep \/ StepFails

\* The worker and the thread that restarts it are scheduled; the operating
\* system delivers the events it has recorded.
Fairness == WF_vars(WorkerStep) /\ WF_vars(Deliver)

Spec == Init /\ [][Next]_vars
FairSpec == Spec /\ Fairness

-----------------------------------------------------------------------------
\* Properties

\* Events the journal still holds after the persisted cursor.
Replayed(p) ==
  \E i \in DOMAIN log : i > journal.base /\ log[i].id > store.cursor /\ Affects(log[i], p)

\* Whenever the persisted cursor and proof would let a restarted engine resume
\* from the journal (scan_worker's "journal_resume"), every entry below the
\* roots either has an exact row or an event newer than the cursor: no crash,
\* quit, cancellation, conflict or failure leaves a stale row that no replay
\* would correct.
ResumePointIsSound ==
  store.watch /\ store.roots # {} /\ Resumable(journal.epoch, store.roots) =>
    \A p \in Under(store.roots) : store.rows[p] = Metadata(p) \/ Replayed(p)

\* Whether a drain with event e would look at p again.
Covers(e, p) ==
  \/ "rescan" \in e.flags \/ "wrapped" \in e.flags
  \/ e.path # NoPath /\ (p \in Under({e.path}) \/ p = Parent[e.path])

\* While the worker watches, every entry whose row is not exact has an event on
\* its way: still in the journal ahead of the stream, queued by collect_event,
\* or kept as pending after an unfinished pass.  Neither the queue's overflow
\* nor an interrupted pass drops the last trace of a change.
StaleRowsHaveEvents ==
  w.pc = "watch" =>
    \A p \in Under(w.roots) :
      \/ store.rows[p] = Metadata(p)
      \/ \E e \in stream.queue \cup w.pending : Covers(e, p)
      \/ \E i \in stream.at + 1 .. Len(log) : Affects(log[i], p)
      \/ stream.epoch # journal.epoch

\* Once a stop request or a restart has stored both flags, no worker scans with
\* a cleared cancellation token: the worker clears scan_cancel only between a
\* check of stop and the next one, so a stop is never lost to that reset.
StopIsPrompt ==
  stop /\ ~stopping /\ control.pc # "signal" /\ w.pc = "scan" => cancel

Exact == \A p \in Under(w.roots) : store.rows[p] = Metadata(p)

\* A running worker makes every row under its roots exact once the file system
\* rests, or ends: conflicts, cancellations and overflowing queues delay it only.
ChangesReachIndex == (w.pc # "none" /\ w.watch) ~> (w.pc = "none" \/ Exact)

\* A worker that replays history leaves the state "catching_up" or ends.
\* collect_event says it preserves HistoryDone, the event that ends the replay.
CatchUpEnds == w.replaying ~> ~w.replaying

-----------------------------------------------------------------------------
(***************************************************************************)
(* The inductive invariants behind the theorems of ReconciliationProofs.   *)
(*                                                                         *)
(* A value read for a path is identified with a log position up to which   *)
(* it is known to be current.  Event identifiers only name positions of    *)
(* the epoch that issued them, so everything said about a cursor or an     *)
(* event is conditional on the identifiers still being of this epoch.      *)
(***************************************************************************)

\* A client always asks for the same roots.  After a change of the roots the
\* resume point is not sound: see the run root_change.
OneSelection == \E roots : RootSets = {roots}
Selected == UNION RootSets

Changes == [path : Paths, op : {"touch", "create", "remove"}, id : Nat]
Reported == [path : Paths, id : Nat, flags : SUBSET {"touch", "subtree", "rescan", "wrapped"}]
Delivered == {Control("done"), Control("wrapped")} \cup Reported
Versions == None .. MaxEvents
Batches == UNION {[s -> Versions] : s \in SUBSET Paths}
Passes ==
  [initial : BOOLEAN, recursive : BOOLEAN, scopes : SUBSET Paths, event_id : Nat,
   todo : SUBSET Paths, batch : Batches, seen : SUBSET Paths,
   broken : {"no", "cancelled", "retry", "error"}]

Beginning == {"clear", "enter", "retry", "again"}     \* a pass is about to start
Passing == Beginning \cup {"scan", "finish"}
Active == Passing \cup {"checkpoint", "watch", "plan", "acknowledge"}
WorkerSteps == Active \cup {"none", "prune", "decide", "restart", "over"}
Joined == {"retain", "roots", "reset", "spawn"}       \* the old worker has ended

Workers ==
  [pc : WorkerSteps, roots : {{}} \cup RootSets, watch : BOOLEAN, resume : BOOLEAN, since : Nat,
   restore : BOOLEAN, before : Int, pass : Passes, metadata : SUBSET Dirs,
   events : SUBSET Reported, pending : SUBSET Delivered, done : BOOLEAN, replaying : BOOLEAN]

Stores ==
  [rows : [Paths -> Versions], roots : {{}} \cup RootSets, watch : BOOLEAN, cursor : Nat,
   proof : {NoProof} \cup [roots : RootSets, epoch : Nat], invalid : BOOLEAN]
StreamStates ==
  [open : BOOLEAN, at : Nat, end : Nat, epoch : Nat, done : BOOLEAN, queue : SUBSET Delivered]
Controls ==
  [pc : {"free", "signal", "join"} \cup Joined, roots : {{}} \cup RootSets, watch : BOOLEAN]

TypeOK ==
  /\ log \in Seq(Changes) /\ Len(log) <= MaxEvents
  /\ journal \in [epoch : Nat, base : Nat]
  /\ store \in Stores
  /\ {up, stop, cancel, stopping} \subseteq BOOLEAN
  /\ control \in Controls /\ stream \in StreamStates /\ w \in Workers

\* The two threads: start_worker touches roots and flags only after the join.
Threads ==
  /\ control.pc \in Joined => w.pc = "none"
  /\ ~up => control.pc = "free" /\ w.pc = "none"
  /\ control.pc # "free" => control.roots \in RootSets
  /\ w.pc # "none" => w.roots \in RootSets

\* The journal numbers its entries from its base on; directories are never removed.
Numbering ==
  /\ journal.base <= Len(log) /\ stream.at <= Len(log)
  /\ \A i \in DOMAIN log :
       /\ log[i].id <= i + 1
       /\ i > journal.base => log[i].id = i - journal.base + 1
       /\ log[i].path \in Dirs => log[i].op = "touch"
  /\ \A e \in stream.queue \cup w.pending \cup w.events : e.id <= Len(log) + 1

\* The invariant behind StopIsPrompt: it holds whatever roots clients select.
StopInv == TypeOK /\ Threads /\ Numbering /\ StopIsPrompt

\* Epochs never lie ahead of the journal's.
Proven == store.proof # NoProof /\ store.proof.epoch = journal.epoch
Epochs ==
  /\ store.proof # NoProof => store.proof.epoch <= journal.epoch
  /\ w.before <= journal.epoch /\ stream.epoch <= journal.epoch

\* The log position an identifier of this epoch stands for.
Position(id) == journal.base + id - 1

\* The value v of p is current up to position k.
Fresh(v, p, k) == v = Metadata(p) \/ \E i \in DOMAIN log : i > k /\ Affects(log[i], p)

\* A drain with e reads p again.
Marks(e, p) == "rescan" \in e.flags \/ (e.path # NoPath /\ (e.path = p \/ Parent[e.path] = p))

\* The stream was opened in this epoch and has not been invalidated.
Tracked == stream.epoch = journal.epoch /\ \A e \in stream.queue : "wrapped" \notin e.flags

\* The worker's identifiers are of this epoch.
Anchored == IF w.watch THEN Tracked ELSE Proven \/ w.before = journal.epoch

Traced(v, p) == Fresh(v, p, stream.at) \/ \E e \in stream.queue \cup w.pending : Marks(e, p)

\* What the next acknowledgement may store as the cursor.
Ids == {w.pass.event_id} \cup {e.id : e \in w.events}
Settled(v, p) == \A id \in Ids : Fresh(v, p, Position(id))

Scope == IF w.pass.recursive THEN Under(w.pass.scopes) ELSE w.pass.scopes

\* Where the worker stands: which passes belong to a baseline, which to a drain.
Phases ==
  /\ w.pc \in {"prune", "decide", "checkpoint", "watch", "retry", "again"} => w.events = {}
  /\ w.pc \in {"prune", "decide"} => w.pending = {}
  /\ w.pc \in {"plan", "clear", "acknowledge"} => w.events # {}
  /\ w.pc \in Active /\ w.events # {} =>
       w.pending = {} /\ w.watch /\ ~w.pass.initial /\ w.pass.event_id = store.cursor
  /\ w.pc \in Passing /\ w.events = {} => w.pass.scopes = Selected /\ w.pass.recursive
  /\ w.pc = "watch" => w.watch
  /\ w.pc \in {"checkpoint", "watch"} => ~w.pass.initial
  /\ w.pc \in Beginning =>
       w.pass.todo = {} /\ w.pass.batch = << >> /\ w.pass.seen = {} /\ w.pass.broken = "no"
  /\ w.pc \in Passing /\ ~w.pass.recursive => w.pass.scopes \subseteq Dirs
  /\ w.pc = "acknowledge" => w.metadata = {}
  /\ w.pc = "finish" => w.pass.todo = {} /\ w.pass.batch = << >> /\ w.pass.broken = "no"
  /\ w.pc \in Active /\ w.watch /\ (Proven \/ w.before = journal.epoch) => Tracked

\* Identifiers of this epoch name positions that exist, or were delivered.
Identifiers ==
  w.pc \in Active /\ Anchored =>
    /\ w.pc \in Passing \cup {"plan", "acknowledge"} => w.pass.event_id \in 1 .. current_event_id
    /\ w.pc \in Passing /\ w.events = {} /\ (Proven \/ ~w.pass.initial) =>
         store.cursor <= w.pass.event_id
    /\ w.watch => /\ journal.base <= stream.at
                  /\ \A e \in stream.queue \cup w.pending \cup w.events :
                       Position(e.id) <= stream.at

\* What a pass has read so far: p's value is in the batch, in its row, or p was
\* absent and loses its row when the pass finishes.
Read(p) ==
  IF p \in DOMAIN w.pass.batch THEN w.pass.batch[p]
  ELSE IF p \in w.pass.seen THEN store.rows[p] ELSE None

PassIsExact ==
  w.pc \in {"scan", "finish"} /\ w.pass.broken = "no" =>
    /\ w.pass.todo \cup DOMAIN w.pass.batch \cup w.pass.seen \subseteq Scope
    /\ w.pass.todo \cap (DOMAIN w.pass.batch \cup w.pass.seen) = {}
    /\ ~w.pass.recursive => Scope \subseteq w.pass.todo \cup DOMAIN w.pass.batch \cup w.pass.seen
    /\ Anchored => \A p \in (Scope \cap Under(Selected)) \ w.pass.todo :
                     Settled(Read(p), p) /\ (w.watch => Traced(Read(p), p))

\* Every row is current up to the persisted cursor.
CursorIsSound ==
  Proven \/ (w.pc \in Active /\ ~w.pass.initial /\ Anchored) =>
    /\ store.cursor \in 1 .. current_event_id
    /\ \A p \in Under(Selected) : Fresh(store.rows[p], p, Position(store.cursor))

\* A row that is not current up to the stream's position has an event.
RowsAreTraced ==
  w.pc \in Active /\ ~w.pass.initial /\ w.watch /\ Tracked =>
    \A p \in Under(Selected) : Traced(store.rows[p], p) \/ \E e \in w.events : Marks(e, p)

\* What the drain in progress has still to read.
Outstanding(p) ==
  CASE w.pc = "plan" -> \E e \in w.events : Marks(e, p)
    [] w.pc = "acknowledge" -> FALSE
    [] OTHER -> p \in Scope \cup w.metadata

DrainIsComplete ==
  w.pc \in Active /\ w.events # {} /\ Tracked =>
    \A p \in Under(Selected) :
      Outstanding(p) \/ (Settled(store.rows[p], p) /\ Traced(store.rows[p], p))

ResumeInv ==
  /\ StopInv /\ Epochs /\ Phases /\ Identifiers
  /\ PassIsExact /\ CursorIsSound /\ RowsAreTraced /\ DrainIsComplete
=============================================================================
