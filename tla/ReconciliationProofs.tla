------------------------- MODULE ReconciliationProofs -------------------------
(***************************************************************************)
(* The resume point, the event trace and the stop flags for any namespace, *)
(* queue limit, replay slack and number of changes, requests and faults.   *)
(***************************************************************************)
EXTENDS Reconciliation, SequenceTheorems, WellFoundedInduction, TLAPS

-----------------------------------------------------------------------------
\* Minima and maxima

LEMMA LeastNatural ==
    ASSUME NEW T, T \subseteq Nat, T # {}
    PROVE  \E x \in T : \A y \in T : x <= y
  <1> DEFINE R == OpToRel(<, Nat)
  <1>1. IsWellFoundedOn(R, Nat)
    BY NatLessThanWellFounded
  <1>2. \A x, y \in Nat : <<y, x>> \in R <=> y < x
    BY Zenon DEF OpToRel
  <1> HIDE DEF R
  <1>3. PICK x \in T : \A y \in T : ~(<<y, x>> \in R)
    BY <1>1, WFMin, Zenon
  <1>4. \A y \in T : ~(y < x)
    BY <1>2, <1>3, Zenon
  <1>5. x \in Nat /\ \A y \in T : y \in Nat
    BY Zenon
  <1>6. \A y \in T : x <= y
    BY <1>4, <1>5
  <1>7. QED
    BY <1>6, Zenon

LEMMA MaxOfBounded ==
    ASSUME NEW S, S \subseteq Nat, S # {}, NEW n \in Nat, \A x \in S : x <= n
    PROVE  Max(S) \in S /\ \A x \in S : x <= Max(S)
  <1> DEFINE T == {n - x : x \in S}
  <1>0. \A x \in S : n - x \in Nat
    OBVIOUS
  <1>1. T \subseteq Nat /\ T # {}
    BY <1>0
  <1>2. PICK t \in T : \A u \in T : t <= u
    BY <1>1, LeastNatural
  <1>3. PICK m \in S : t = n - m
    BY <1>2
  <1>4. \A x \in S : m >= x
    BY <1>2, <1>3
  <1>5. QED
    BY <1>4 DEF Max

-----------------------------------------------------------------------------
\* Types of the model's operators

LEMMA VersionBounded ==
    ASSUME TypeOK, NEW p
    PROVE  Version(p) \in 0 .. Len(log)
  <1> DEFINE S == {0} \cup {i \in DOMAIN log : Affects(log[i], p)}
  <1>1. Len(log) \in Nat /\ DOMAIN log = 1 .. Len(log)
    BY DEF TypeOK
  <1>2. S \subseteq Nat /\ S # {} /\ \A x \in S : x <= Len(log)
    BY <1>1
  <1>3. Max(S) \in S
    BY <1>1, <1>2, MaxOfBounded
  <1>4. QED
    BY <1>2, <1>3 DEF Version

LEMMA MetadataTyped ==
    ASSUME TypeOK, NEW p
    PROVE  Metadata(p) \in Versions /\ Version(p) \in Versions /\ None \in Versions
  <1>1. Version(p) \in 0 .. Len(log)
    BY VersionBounded
  <1>2. Len(log) \in Nat /\ Len(log) <= MaxEvents /\ MaxEvents \in Nat
    BY BoundsAssumption DEF TypeOK
  <1>3. QED
    BY <1>1, <1>2 DEF Metadata, Versions, None

LEMMA EmptyBatch == << >> \in Batches /\ DOMAIN << >> = {}
  <1>1. << >> \in [{} -> Versions]
    OBVIOUS
  <1>2. QED
    BY <1>1 DEF Batches

LEMMA RootsArePaths == \A roots \in RootSets : roots \subseteq Paths /\ roots # {}
  BY NamespaceAssumption

LEMMA NoPassTyped == NoPass \in Passes
  BY EmptyBatch DEF NoPass, Passes

LEMMA NewPassTyped ==
    ASSUME NEW scopes, scopes \subseteq Paths, NEW event_id, event_id \in Nat
    PROVE  /\ NewPass(FALSE, FALSE, scopes, event_id) \in Passes
           /\ NewPass(FALSE, TRUE, scopes, event_id) \in Passes
           /\ NewPass(TRUE, TRUE, scopes, event_id) \in Passes
  BY EmptyBatch DEF NewPass, NoPass, Passes

LEMMA NoWorkerTyped ==
    /\ NoWorker \in Workers /\ NoWorker.pc = "none" /\ NoWorker.events = {}
    /\ NoWorker.pending = {} /\ NoWorker.before = NoEpoch
  BY NoPassTyped DEF NoWorker, Workers, WorkerSteps, NoEpoch

LEMMA WorkerTyped ==
    ASSUME NEW roots \in RootSets, NEW watch \in BOOLEAN, NEW resume \in BOOLEAN
    PROVE  LET v == Worker(roots, watch, resume)
           IN  /\ v \in Workers /\ v.pc = "prune" /\ v.roots = roots /\ v.watch = watch
               /\ v.resume = resume /\ v.events = {} /\ v.pending = {} /\ v.before = NoEpoch
  <1>1. PICK n \in Workers : n = NoWorker
    BY NoWorkerTyped
  <1>2. PICK v : v = [n EXCEPT !.pc = "prune", !.roots = roots, !.watch = watch, !.resume = resume]
    OBVIOUS
  <1>3. /\ v \in Workers /\ v.pc = "prune" /\ v.roots = roots /\ v.watch = watch
        /\ v.resume = resume /\ v.events = n.events /\ v.pending = n.pending
        /\ v.before = n.before
    BY <1>1, <1>2, ZenonT(40) DEF Workers, WorkerSteps
  <1>4. QED
    BY <1>1, <1>2, <1>3, NoWorkerTyped, Zenon DEF Worker
LEMMA ControlTyped ==
    /\ Control("done") \in Delivered /\ Control("wrapped") \in Delivered
    /\ Control("done").id = 0 /\ Control("wrapped").id = 0
  BY DEF Control, Delivered

\* What reconcile_pass's callers do with its outcome, field by field.
LEMMA OutcomeFields ==
    ASSUME TypeOK, NEW outcome \in {"complete", "retry", "cancelled"}, NEW pass \in Passes,
           NEW n, n = Outcome(outcome, pass)
    PROVE  /\ n \in Workers /\ n.roots = w.roots /\ n.watch = w.watch /\ n.before = w.before
           /\ w.events = {} =>
                /\ n.events = {} /\ n.pending = w.pending
                /\ outcome = "complete" => n.pc = "checkpoint" /\ n.pass = NoPass
                /\ outcome = "retry" => n.pc = "retry" /\ n.pass = pass
                /\ outcome = "cancelled" => n.pc = "over"
           /\ w.events # {} /\ outcome = "complete" =>
                /\ n.events = w.events /\ n.pending = w.pending /\ n.metadata = {}
                /\ w.metadata = {} => n.pc = "acknowledge" /\ n.pass = w.pass
                /\ w.metadata # {} =>
                     /\ n.pc = "enter"
                     /\ n.pass = NewPass(FALSE, FALSE, w.metadata, pass.event_id)
           /\ w.events # {} /\ outcome # "complete" =>
                /\ n.events = {} /\ n.pc = "watch" /\ n.pass = NoPass
                /\ n.pending \in {w.events, w.events \cup {Control("done")}}
  <1>0. w \in Workers /\ pass.event_id \in Nat /\ w.metadata \in SUBSET Paths
        /\ w.events \in SUBSET Delivered /\ NoPass \in Passes
    BY NoPassTyped DEF TypeOK, Workers, Passes, Dirs, Delivered
  <1>1. CASE w.events = {}
    <2>1. PICK q \in Passes : q = IF outcome = "complete" THEN NoPass ELSE pass
      BY <1>0
    <2>2. PICK c \in WorkerSteps :
            /\ outcome = "complete" => c = "checkpoint"
            /\ outcome = "retry" => c = "retry"
            /\ outcome = "cancelled" => c = "over"
      BY DEF WorkerSteps, Active, Passing, Beginning
    <2>3. n = [w EXCEPT !.pass = q, !.pc = c]
      BY <1>1, <2>1, <2>2 DEF Outcome, Baseline
    <2>4. QED
      BY <1>0, <1>1, <2>1, <2>2, <2>3 DEF Workers
  <1>2. CASE w.events # {} /\ outcome = "complete"
    <2>1. CASE w.metadata = {}
      <3>1. n = [w EXCEPT !.pc = "acknowledge"]
        BY <1>2, <2>1 DEF Outcome, Baseline
      <3>2. QED
        BY <1>0, <1>2, <2>1, <3>1 DEF Workers, WorkerSteps, Active
    <2>2. CASE w.metadata # {}
      <3>1. PICK q \in Passes : q = NewPass(FALSE, FALSE, w.metadata, pass.event_id)
        BY <1>0, NewPassTyped
      <3>2. n = [w EXCEPT !.pc = "enter", !.metadata = {}, !.pass = q]
        BY <1>2, <2>2, <3>1 DEF Outcome, Baseline
      <3>3. QED
        BY <1>0, <1>2, <2>2, <3>1, <3>2 DEF Workers, WorkerSteps, Active, Passing, Beginning
    <2>3. QED
      BY <2>1, <2>2
  <1>3. CASE w.events # {} /\ outcome # "complete"
    <2>1. PICK q \in SUBSET Delivered :
            /\ q = w.events \cup (IF w.done THEN {Control("done")} ELSE {})
            /\ q \in {w.events, w.events \cup {Control("done")}}
      BY <1>0, ControlTyped
    <2>2. n = [w EXCEPT !.pc = "watch", !.pass = NoPass, !.metadata = {}, !.events = {},
                        !.done = FALSE, !.pending = q]
      BY <1>3, <2>1 DEF Outcome, Baseline
    <2>3. n \in Workers
      BY <1>0, <2>1, <2>2, ZenonT(40) DEF Workers, WorkerSteps, Active
    <2>4. /\ n.roots = w.roots /\ n.watch = w.watch /\ n.before = w.before
          /\ n.events = {} /\ n.pc = "watch" /\ n.pass = NoPass /\ n.pending = q
      BY <1>0, <2>1, <2>2 DEF Workers
    <2>5. QED
      BY <1>3, <2>1, <2>3, <2>4
  <1>4. QED
    BY <1>1, <1>2, <1>3

-----------------------------------------------------------------------------
\* The types, the threads and the stop flags

LEMMA StopInitially == Init => StopInv
  <1>1. None \in Versions
    BY BoundsAssumption DEF Versions, None
  <1> SUFFICES ASSUME Init PROVE StopInv
    OBVIOUS
  <1>3. store \in Stores
    BY <1>1 DEF Init, Stores
  <1>4. log \in Seq(Changes) /\ Len(log) = 0 /\ journal \in [epoch : Nat, base : Nat]
        /\ journal.base = 0
    BY DEF Init
  <1>5. control \in Controls /\ control.pc = "free" /\ stream \in StreamStates
        /\ stream.at = 0 /\ stream.queue = {}
    BY DEF Init, Idle, Controls, Closed, StreamStates
  <1>6. w \in Workers /\ w.pc = "none" /\ w.pending = {} /\ w.events = {}
    BY NoWorkerTyped DEF Init
  <1>2. {up, stop, cancel, stopping} \subseteq BOOLEAN
    BY Zenon DEF Init
  <1>7. TypeOK
    BY <1>2, <1>3, <1>4, <1>5, <1>6, BoundsAssumption DEF TypeOK
  <1>8. Threads /\ StopIsPrompt
    BY <1>5, <1>6 DEF Init, Threads, StopIsPrompt, Joined
  <1>9. Numbering
    BY <1>4, <1>5, <1>6 DEF Numbering
  <1>10. QED
    BY <1>7, <1>8, <1>9 DEF StopInv

\* A step of the worker thread.
LEMMA WorkerMoves ==
    ASSUME StopInv, w.pc # "none", UNCHANGED <<log, journal, up, stop, stopping, control>>,
           NEW n \in Workers, w' = n, n.pc # "none" => n.roots \in RootSets,
           store' \in Stores, cancel' \in BOOLEAN, stream' \in StreamStates,
           stream'.at <= Len(log),
           \A e \in stream'.queue \cup n.pending \cup n.events : e.id <= Len(log) + 1,
           n.pc = "scan" => ~stop \/ cancel' \/ stopping \/ control.pc = "signal"
    PROVE  StopInv'
  <1>1. TypeOK'
    BY DEF StopInv, TypeOK
  <1>2. Threads'
    BY DEF StopInv, Threads, Joined
  <1>3. StopIsPrompt'
    BY DEF StopInv, StopIsPrompt
  <1>4. Numbering'
    <2>1. UNCHANGED <<log, journal>> /\ w' = n
      OBVIOUS
    <2>2. \A i \in DOMAIN log :
            /\ log[i].id <= i + 1
            /\ i > journal.base => log[i].id = i - journal.base + 1
            /\ log[i].path \in Dirs => log[i].op = "touch"
      BY DEF StopInv, Numbering
    <2>3. journal.base <= Len(log)
      BY DEF StopInv, Numbering
    <2>4. QED
      BY <2>1, <2>2, <2>3 DEF Numbering
  <1>5. QED
    BY <1>1, <1>2, <1>3, <1>4 DEF StopInv
\* A step that leaves the file system, the stream, the worker and the store.
LEMMA FlagsMove ==
    ASSUME StopInv, UNCHANGED <<log, journal, up, stream, w>>, store' \in Stores,
           stop' \in BOOLEAN, cancel' \in BOOLEAN, stopping' \in BOOLEAN, control' \in Controls,
           ~up => control'.pc = "free", control'.pc # "free" => control'.roots \in RootSets,
           control'.pc \in Joined => w.pc = "none",
           StopIsPrompt'
    PROVE  StopInv'
  <1>1. TypeOK'
    BY DEF StopInv, TypeOK
  <1>2. Threads'
    BY DEF StopInv, Threads
  <1>3. Numbering'
    BY DEF StopInv, Numbering
  <1>4. QED
    BY <1>1, <1>2, <1>3 DEF StopInv

LEMMA StopByClient ==
    ASSUME StopInv, Scan \/ Signal \/ Join \/ Retain \/ SetRoots \/ ResetStop
    PROVE  StopInv'
  <1>0. /\ store \in Stores /\ control \in Controls /\ stop \in BOOLEAN /\ cancel \in BOOLEAN
        /\ stopping \in BOOLEAN
        /\ ~up => control.pc = "free" /\ w.pc = "none"
        /\ control.pc # "free" => control.roots \in RootSets
        /\ control.pc \in Joined => w.pc = "none"
    BY DEF StopInv, TypeOK, Threads
  <1>1. CASE Scan
    <2>1. PICK roots \in RootSets, watch \in WatchModes :
            control' = [pc |-> IF w.pc # "none" THEN "signal" ELSE "join", roots |-> roots,
                        watch |-> watch]
      BY <1>1 DEF Scan
    <2>2. /\ control' \in Controls /\ control'.roots \in RootSets
          /\ control'.pc = IF w.pc # "none" THEN "signal" ELSE "join"
      BY <2>1, NamespaceAssumption DEF Controls
    <2>3. /\ up /\ UNCHANGED <<log, journal, up, stream, w, store, cancel, stopping>>
          /\ stop' = (stop \/ w.pc # "none")
      BY <1>1 DEF Scan
    <2>4. StopIsPrompt'
      BY <2>2, <2>3 DEF StopInv, StopIsPrompt
    <2>5. stop' \in BOOLEAN /\ control'.pc \notin Joined
      BY <1>0, <2>2, <2>3 DEF Joined
    <2>6. QED
      BY <1>0, <2>2, <2>3, <2>4, <2>5, FlagsMove
  <1>2. CASE Signal
    <2>1. /\ control' \in Controls /\ control'.roots = control.roots /\ control'.pc = "join"
          /\ control.pc = "signal" /\ cancel' = TRUE
          /\ UNCHANGED <<log, journal, up, stream, w, store, stop, stopping>>
      BY <1>0, <1>2 DEF Signal, Controls
    <2>2. StopIsPrompt' /\ control'.pc \notin Joined
      BY <2>1 DEF StopIsPrompt, Joined
    <2>3. QED
      BY <1>0, <2>1, <2>2, FlagsMove
  <1>3. CASE Join
    <2>1. /\ control' \in Controls /\ control'.roots = control.roots
          /\ control'.pc \in {"reset", "retain"}
          /\ control.pc = "join" /\ w.pc = "none"
          /\ UNCHANGED <<log, journal, up, stream, w, store, stop, cancel, stopping>>
      BY <1>0, <1>3 DEF Join, Controls, Joined
    <2>2. StopIsPrompt'
      BY <2>1 DEF StopIsPrompt
    <2>3. QED
      BY <1>0, <2>1, <2>2, FlagsMove
  <1>4. CASE Retain \/ SetRoots
    <2>1. /\ control' \in Controls /\ control'.roots = control.roots
          /\ control'.pc \in {"reset", "roots"} /\ control.pc \in {"retain", "roots"}
          /\ UNCHANGED <<log, journal, up, stream, w, stop, cancel, stopping>>
      BY <1>0, <1>4 DEF Retain, SetRoots, Controls, Joined
    <2>2. w.pc = "none" /\ control.roots \in RootSets /\ up
      BY <1>0, <2>1 DEF Joined
    <2>3. store' \in Stores
      <3>1. None \in Versions
        BY MetadataTyped DEF StopInv
      <3>2. PICK rows : rows = store.rows
        OBVIOUS
      <3>3. rows \in [Paths -> Versions]
        BY <1>0, <3>2 DEF Stores
      <3>4. CASE Retain
        <4>1. PICK new \in [Paths -> Versions] :
                new = [p \in Paths |-> IF p \in Under(control.roots) THEN rows[p] ELSE None]
          BY <3>1, <3>3
        <4>2. store' = [store EXCEPT !.rows = new]
          BY <3>2, <3>4, <4>1 DEF Retain, retain_roots
        <4>3. QED
          BY <1>0, <4>1, <4>2 DEF Stores
      <3>5. CASE SetRoots
        BY <1>0, <2>2, <3>5 DEF SetRoots, Stores
      <3>6. QED
        BY <1>4, <3>4, <3>5
    <2>4. StopIsPrompt'
      BY <2>1, <2>2 DEF StopIsPrompt
    <2>5. QED
      BY <1>0, <2>1, <2>2, <2>3, <2>4, FlagsMove
  <1>5. CASE ResetStop
    <2>1. /\ control' \in Controls /\ control'.roots = control.roots
          /\ control'.pc = "spawn" /\ control.pc = "reset" /\ stop' = FALSE
          /\ UNCHANGED <<log, journal, up, stream, w, cancel, stopping>>
      BY <1>0, <1>5 DEF ResetStop, Controls, Joined
    <2>2. control.watch \in BOOLEAN
      BY <1>0 DEF Controls
    <2>3. store' \in Stores
      BY <1>0, <1>5, <2>2 DEF ResetStop, Stores
    <2>4. StopIsPrompt' /\ up /\ w.pc = "none" /\ control.roots \in RootSets
      BY <1>0, <2>1 DEF StopIsPrompt, Joined
    <2>5. QED
      BY <1>0, <2>1, <2>3, <2>4, FlagsMove
  <1>6. QED
    BY <1>1, <1>2, <1>3, <1>4, <1>5

LEMMA StopByRequest ==
    ASSUME StopInv, Stop \/ StopCancels \/ CancelScan
    PROVE  StopInv'
  <1>0. /\ store \in Stores /\ control \in Controls /\ stop \in BOOLEAN /\ cancel \in BOOLEAN
        /\ stopping \in BOOLEAN
        /\ ~up => control.pc = "free" /\ w.pc = "none"
        /\ control.pc # "free" => control.roots \in RootSets
        /\ control.pc \in Joined => w.pc = "none"
    BY DEF StopInv, TypeOK, Threads
  <1>1. /\ UNCHANGED <<log, journal, up, stream, w, store, control>>
        /\ stop' \in BOOLEAN /\ cancel' \in BOOLEAN /\ stopping' \in BOOLEAN
        /\ cancel' \/ stopping'
    BY <1>0 DEF Stop, StopCancels, CancelScan
  <1>2. StopIsPrompt'
    BY <1>1 DEF StopIsPrompt
  <1>3. QED
    BY <1>0, <1>1, <1>2, FlagsMove
\* A worker begins or ends together with its stream.
LEMMA StopByProcess ==
    ASSUME StopInv, Spawn \/ Crash \/ Reopen
    PROVE  StopInv'
  <1>0. /\ store \in Stores /\ control \in Controls /\ stop \in BOOLEAN /\ cancel \in BOOLEAN
        /\ stopping \in BOOLEAN /\ up \in BOOLEAN /\ stream \in StreamStates
        /\ log \in Seq(Changes) /\ Len(log) <= MaxEvents /\ Len(log) \in Nat
        /\ journal \in [epoch : Nat, base : Nat]
        /\ ~up => control.pc = "free" /\ w.pc = "none"
        /\ control.pc # "free" => control.roots \in RootSets
        /\ control.pc \in Joined => w.pc = "none"
    BY DEF StopInv, TypeOK, Threads
  <1>1. /\ Idle \in Controls /\ Idle.pc = "free" /\ Closed \in StreamStates /\ Closed.at = 0
        /\ Closed.queue = {}
    BY DEF Idle, Controls, Closed, StreamStates
  <1>2. /\ up' \in BOOLEAN /\ stop' \in BOOLEAN /\ cancel' \in BOOLEAN /\ stopping' \in BOOLEAN
        /\ UNCHANGED <<log, journal, store>>
        /\ control' \in Controls /\ control'.pc = "free"
        /\ stream' \in {stream, Closed}
        /\ \/ w' = NoWorker
           \/ \E roots \in RootSets, watch, resume \in BOOLEAN : w' = Worker(roots, watch, resume)
        /\ w' # NoWorker => up'
    <2>1. CASE Spawn
      <3>1. control.roots \in RootSets /\ control.watch \in BOOLEAN /\ up
        BY <1>0, <2>1 DEF Spawn, Controls
      <3>2. QED
        BY <1>0, <1>1, <2>1, <3>1 DEF Spawn
    <2>2. CASE Crash
      BY <1>0, <1>1, <2>2 DEF Crash
    <2>3. CASE Reopen
      <3>1. /\ up' = TRUE /\ UNCHANGED <<log, journal, store, stop, cancel, stopping, control, stream>>
            /\ control.pc = "free"
        BY <1>0, <2>3 DEF Reopen
      <3>2. store.roots \in {{}} \cup RootSets
        BY <1>0 DEF Stores
      <3>3. CASE store.watch /\ store.roots # {}
        <4>1. w' = Worker(store.roots, TRUE, TRUE) /\ store.roots \in RootSets
          BY <2>3, <3>2, <3>3 DEF Reopen
        <4>2. QED
          BY <1>0, <3>1, <4>1
      <3>4. CASE ~(store.watch /\ store.roots # {})
        <4>1. w' = NoWorker
          BY <2>3, <3>4 DEF Reopen
        <4>2. QED
          BY <1>0, <3>1, <4>1
      <3>5. QED
        BY <3>3, <3>4
    <2>4. QED
      BY <2>1, <2>2, <2>3
  <1>3. /\ w' \in Workers /\ w'.pc \in {"none", "prune"} /\ w'.pending = {} /\ w'.events = {}
        /\ w'.pc # "none" => w'.roots \in RootSets /\ up'
    <2>1. CASE w' = NoWorker
      BY <2>1, NoWorkerTyped
    <2>2. CASE w' # NoWorker
      <3>1. PICK roots \in RootSets, watch \in BOOLEAN, resume \in BOOLEAN :
              w' = Worker(roots, watch, resume)
        BY <1>2, <2>2
      <3>2. PICK n : n = Worker(roots, watch, resume)
        OBVIOUS
      <3>3. n \in Workers /\ n.pc = "prune" /\ n.pending = {} /\ n.events = {} /\ n.roots = roots
        BY <3>2, WorkerTyped
      <3>4. QED
        BY <1>2, <2>2, <3>1, <3>2, <3>3
    <2>3. QED
      BY <2>1, <2>2
  <1>4. TypeOK'
    <2>1. stream' \in StreamStates
      BY <1>0, <1>1, <1>2
    <2>2. {up', stop', cancel', stopping'} \subseteq BOOLEAN
      BY <1>2
    <2>3. QED
      BY <1>0, <1>2, <1>3, <2>1, <2>2 DEF TypeOK
  <1>5. Threads' /\ StopIsPrompt'
    BY <1>2, <1>3 DEF Threads, StopIsPrompt, Joined
  <1>6. Numbering'
    <2>1. /\ journal.base <= Len(log) /\ stream.at <= Len(log)
          /\ \A e \in stream.queue : e.id <= Len(log) + 1
          /\ \A i \in DOMAIN log :
               /\ log[i].id <= i + 1
               /\ i > journal.base => log[i].id = i - journal.base + 1
               /\ log[i].path \in Dirs => log[i].op = "touch"
      BY DEF StopInv, Numbering
    <2>2. /\ stream'.at <= Len(log)
          /\ \A e \in stream'.queue : e.id <= Len(log) + 1
      BY <1>0, <1>1, <1>2, <2>1
    <2>3. \A e \in stream'.queue \cup w'.pending \cup w'.events : e.id <= Len(log) + 1
      BY <1>3, <2>2
    <2>4. QED
      BY <1>2, <2>1, <2>2, <2>3 DEF Numbering
  <1>7. QED
    BY <1>4, <1>5, <1>6 DEF StopInv

\* A change of the file system appends one entry of the next identifier.
LEMMA ChangeAppends ==
    ASSUME TypeOK, Numbering, Change
    PROVE  \E c \in Changes :
             /\ log' = Append(log, c) /\ c.id = Len(log) - journal.base + 2
             /\ c.path \in Dirs => c.op = "touch"
             /\ Len(log') = Len(log) + 1 /\ DOMAIN log' = 1 .. Len(log) + 1
             /\ log'[Len(log) + 1] = c
             /\ \A i \in DOMAIN log : log'[i] = log[i]
             /\ log' \in Seq(Changes) /\ DOMAIN log = 1 .. Len(log) /\ Len(log) \in Nat
             /\ Len(log') <= MaxEvents
             /\ UNCHANGED <<journal, store, engine>>
  <1>0. log \in Seq(Changes) /\ Len(log) \in Nat /\ DOMAIN log = 1 .. Len(log)
        /\ journal.base \in Nat /\ journal.base <= Len(log) /\ MaxEvents \in Nat
        /\ Len(log) < MaxEvents
    BY BoundsAssumption DEF TypeOK, Numbering, Change
  <1>1. PICK p \in Paths, op \in {"touch", "create", "remove"} :
          log' = Append(log, Entry(p, op)) /\ (p \in Dirs => op = "touch")
    BY DEF Change
  <1>2. PICK c \in Changes : c = Entry(p, op)
    <2>1. Len(log) - journal.base + 1 + 1 \in Nat
      BY <1>0
    <2>2. Entry(p, op) \in Changes
      BY <2>1 DEF Entry, current_event_id, Changes
    <2>3. QED
      BY <2>2
  <1>3. c.id = Len(log) - journal.base + 2 /\ c.path = p /\ c.op = op
    BY <1>0, <1>2 DEF Entry, current_event_id
  <1>4. log' = Append(log, c)
    BY <1>1, <1>2
  <1>5. /\ log' \in Seq(Changes) /\ Len(log') = Len(log) + 1
        /\ log'[Len(log) + 1] = c /\ \A i \in 1 .. Len(log) : log'[i] = log[i]
    BY <1>0, <1>4, AppendProperties
  <1>6. DOMAIN log' = 1 .. Len(log) + 1 /\ Len(log') <= MaxEvents
    BY <1>0, <1>5
  <1>7. UNCHANGED <<journal, store, engine>>
    BY DEF Change
  <1>8. QED
    BY <1>0, <1>1, <1>3, <1>4, <1>5, <1>6, <1>7

LEMMA StopByChange ==
    ASSUME StopInv, Change
    PROVE  StopInv'
  <1>1. PICK c \in Changes :
          /\ log' = Append(log, c) /\ c.id = Len(log) - journal.base + 2
          /\ c.path \in Dirs => c.op = "touch"
          /\ Len(log') = Len(log) + 1 /\ DOMAIN log' = 1 .. Len(log) + 1
          /\ log'[Len(log) + 1] = c
          /\ \A i \in DOMAIN log : log'[i] = log[i]
          /\ log' \in Seq(Changes) /\ DOMAIN log = 1 .. Len(log) /\ Len(log) \in Nat
          /\ Len(log') <= MaxEvents
          /\ UNCHANGED <<journal, store, engine>>
    BY ChangeAppends DEF StopInv
  <1>2. TypeOK'
    BY <1>1 DEF StopInv, TypeOK, engine
  <1>3. Threads' /\ StopIsPrompt'
    BY <1>1 DEF StopInv, Threads, StopIsPrompt, engine
  <1>4. Numbering'
    <2>1. /\ journal.base \in Nat /\ journal.base <= Len(log)
          /\ stream.at \in Nat /\ stream.at <= Len(log)
          /\ \A e \in stream.queue \cup w.pending \cup w.events : e.id <= Len(log) + 1
          /\ \A e \in stream.queue \cup w.pending \cup w.events : e.id \in Nat
      <3>1. \A e \in Delivered : e.id \in Nat
        BY DEF Delivered, Reported, Control
      <3>2. stream.queue \cup w.pending \cup w.events \subseteq Delivered
        BY DEF StopInv, TypeOK, StreamStates, Workers, Delivered
      <3>3. QED
        BY <3>1, <3>2 DEF StopInv, TypeOK, Numbering, StreamStates
    <2>2. /\ journal.base <= Len(log') /\ stream.at <= Len(log')
          /\ \A e \in stream.queue \cup w.pending \cup w.events : e.id <= Len(log') + 1
      BY <1>1, <2>1
    <2>3. \A i \in DOMAIN log :
            /\ log[i].id <= i + 1
            /\ i > journal.base => log[i].id = i - journal.base + 1
            /\ log[i].path \in Dirs => log[i].op = "touch"
      BY DEF StopInv, Numbering
    <2>4. ASSUME NEW i \in DOMAIN log'
          PROVE  /\ log'[i].id <= i + 1
                 /\ i > journal.base => log'[i].id = i - journal.base + 1
                 /\ log'[i].path \in Dirs => log'[i].op = "touch"
      <3>1. CASE i \in DOMAIN log
        BY <1>1, <2>3, <3>1
      <3>2. CASE i = Len(log) + 1
        BY <1>1, <2>1, <3>2
      <3>3. QED
        BY <1>1, <3>1, <3>2
    <2>5. QED
      BY <1>1, <2>2, <2>4 DEF Numbering, engine
  <1>5. QED
    BY <1>2, <1>3, <1>4 DEF StopInv

LEMMA StopByWrap ==
    ASSUME StopInv, Wrap
    PROVE  StopInv'
  <1>1. /\ UNCHANGED <<log, store, engine>> /\ Len(log) \in Nat /\ DOMAIN log = 1 .. Len(log)
        /\ journal' \in [epoch : Nat, base : Nat] /\ journal'.base = Len(log)
    BY DEF StopInv, TypeOK, Wrap
  <1>2. TypeOK' /\ Threads' /\ StopIsPrompt'
    BY <1>1 DEF StopInv, TypeOK, Threads, StopIsPrompt, engine
  <1>3. Numbering'
    BY <1>1 DEF StopInv, Numbering, engine
  <1>4. QED
    BY <1>2, <1>3 DEF StopInv
\* collect_event: no identifier but the new event's is added, nothing is
\* invalidated, and whatever the queue marked stays marked.
LEMMA CollectKeeps ==
    ASSUME NEW q, q \subseteq Delivered, NEW roots, roots \subseteq Paths, NEW e \in Reported,
           NEW c, c = Collect(q, roots, e)
    PROVE  /\ c \subseteq Delivered
           /\ \A x \in c : x \in q \/ x.id = e.id
           /\ (\A x \in q \cup {e} : "wrapped" \notin x.flags) => \A x \in c : "wrapped" \notin x.flags
           /\ roots # {} => \A p : (\E x \in q \cup {e} : Marks(x, p)) => \E x \in c : Marks(x, p)
  <1> DEFINE controls == {"wrapped"} \cap UNION {x.flags : x \in q}
             rescans == {[path |-> r, id |-> e.id, flags |-> {"rescan"} \cup controls] : r \in roots}
  <1>0. e.id \in Nat
    BY DEF Reported
  <1>1. CASE Cardinality(q) >= QueueLimit
    <2>1. c = rescans
      BY <1>1 DEF Collect
    <2>2. PICK fl : fl = {"rescan"} \cup controls
      OBVIOUS
    <2>3. fl \in SUBSET {"touch", "subtree", "rescan", "wrapped"} /\ "rescan" \in fl
      <3>1. \A f \in controls : f \in {"wrapped"}
        OBVIOUS
      <3>2. fl \subseteq {"touch", "subtree", "rescan", "wrapped"} /\ "rescan" \in fl
        BY <2>2, <3>1, Zenon
      <3>3. QED
        BY <3>2
    <2>4. c = {[path |-> r, id |-> e.id, flags |-> fl] : r \in roots}
      BY <2>1, <2>2
    <2>5. ASSUME NEW x \in c PROVE x \in Reported /\ x.id = e.id /\ x.flags = fl
      <3>1. PICK r \in Paths : x = [path |-> r, id |-> e.id, flags |-> fl]
        BY <2>4
      <3>2. QED
        BY <1>0, <2>3, <3>1 DEF Reported
    <2>6. (\A x \in q \cup {e} : "wrapped" \notin x.flags) => "wrapped" \notin fl
      BY <2>2
    <2>7. roots # {} => \E x \in c : x.flags = fl
      <3>1. \A r \in roots : [path |-> r, id |-> e.id, flags |-> fl] \in c
        BY <2>4
      <3>2. QED
        BY <2>5, <3>1
    <2>8. roots # {} => \E x \in c : \A p : Marks(x, p)
      BY <2>3, <2>7 DEF Marks
    <2>9. c \subseteq Delivered
      BY <2>5 DEF Delivered
    <2>10. QED
      BY <2>5, <2>6, <2>8, <2>9
  <1>2. CASE ~(Cardinality(q) >= QueueLimit)
    <2>1. c = q \cup {e}
      BY <1>2 DEF Collect
    <2>2. QED
      BY <2>1 DEF Delivered
  <1>3. QED
    BY <1>1, <1>2

LEMMA DeliveryFields ==
    ASSUME StopInv, Deliver
    PROVE  /\ UNCHANGED <<log, journal, store, up, stop, cancel, stopping, control, w>>
           /\ stream' \in StreamStates /\ stream'.at <= Len(log)
           /\ \A e \in stream'.queue : e.id <= Len(log) + 1
           /\ \/ /\ stream'.at = stream.at + 1 /\ stream.at + 1 \in DOMAIN log
                 /\ stream'.epoch = stream.epoch
                 /\ stream.epoch = journal.epoch \/ stream.at < journal.base
                 /\ Event(log[stream.at + 1]) \in Reported
                 /\ stream'.queue = IF log[stream.at + 1].path \in Under(w.roots)
                                      THEN Collect(stream.queue, w.roots, Event(log[stream.at + 1]))
                                      ELSE stream.queue
              \/ /\ stream'.at = stream.at /\ stream'.epoch = stream.epoch
                 /\ stream'.queue = stream.queue \cup {Control("done")}
              \/ /\ stream'.at = stream.at /\ stream'.epoch = journal.epoch
                 /\ stream.epoch # journal.epoch
                 /\ stream'.queue = stream.queue \cup {Control("wrapped")}
  <1>0. /\ stream \in StreamStates /\ log \in Seq(Changes) /\ Len(log) \in Nat
        /\ DOMAIN log = 1 .. Len(log) /\ journal \in [epoch : Nat, base : Nat]
        /\ w.roots \in SUBSET Paths /\ stream.queue \in SUBSET Delivered /\ stream.at \in Nat
        /\ stream.at <= Len(log) /\ \A e \in stream.queue : e.id <= Len(log) + 1
        /\ \A i \in DOMAIN log : log[i].id <= i + 1 /\ log[i] \in Changes
    <2>1. w.roots \in {{}} \cup RootSets
      BY DEF StopInv, TypeOK, Workers
    <2>2. w.roots \in SUBSET Paths
      BY <2>1, RootsArePaths
    <2>3. log \in Seq(Changes)
      BY DEF StopInv, TypeOK
    <2>4. Len(log) \in Nat /\ DOMAIN log = 1 .. Len(log) /\ \A i \in DOMAIN log : log[i] \in Changes
      BY <2>3, ElementOfSeq
    <2>5. QED
      BY <2>2, <2>4 DEF StopInv, TypeOK, Numbering, StreamStates
  <1>1. UNCHANGED <<log, journal, store, up, stop, cancel, stopping, control, w>>
    BY DEF Deliver, DeliverEvent, DeliverHistoryDone, DeliverWrapped
  <1>2. CASE DeliverEvent
    <2>1. stream.at + 1 \in DOMAIN log
      BY <1>0, <1>2 DEF DeliverEvent
    <2>2. PICK change \in Changes : change = log[stream.at + 1]
      BY <1>0, <2>1
    <2>3. PICK e \in Reported : e = Event(change)
      <3>1. {IF change.op = "touch" THEN "touch" ELSE "subtree"}
              \in SUBSET {"touch", "subtree", "rescan", "wrapped"}
        OBVIOUS
      <3>2. Event(change) \in Reported
        BY <3>1 DEF Event, Reported, Changes
      <3>3. QED
        BY <3>2
    <2>4. e.id <= Len(log) + 1 /\ e.id = change.id
      <3>1. e.id = change.id
        BY <2>3 DEF Event
      <3>2. change.id <= stream.at + 2 /\ change.id \in Nat
        BY <1>0, <2>1, <2>2 DEF Changes
      <3>3. QED
        BY <1>0, <2>1, <3>1, <3>2
    <2>5. PICK c : c = Collect(stream.queue, w.roots, e)
      OBVIOUS
    <2>6. c \subseteq Delivered /\ \A x \in c : x \in stream.queue \/ x.id = e.id
      <3>1. stream.queue \subseteq Delivered /\ w.roots \subseteq Paths /\ e \in Reported
        BY <1>0, Zenon
      <3>2. \A q, r, x : q \subseteq Delivered /\ r \subseteq Paths /\ x \in Reported =>
              /\ Collect(q, r, x) \subseteq Delivered
              /\ \A y \in Collect(q, r, x) : y \in q \/ y.id = x.id
        BY CollectKeeps
      <3>3. QED
        BY <2>5, <3>1, <3>2
    <2>7. PICK q \in SUBSET Delivered :
            q = IF change.path \in Under(w.roots) THEN c ELSE stream.queue
      BY <1>0, <2>6
    <2>8. PICK i \in Nat : i = stream.at + 1
      BY <1>0
    <2>16. stream' = [stream EXCEPT !.at = i, !.queue = q]
      BY <1>2, <2>2, <2>3, <2>5, <2>7, <2>8 DEF DeliverEvent
    <2>9. /\ stream' \in StreamStates /\ stream'.at = stream.at + 1
          /\ stream'.epoch = stream.epoch /\ stream'.queue = q
      BY <1>0, <2>7, <2>8, <2>16 DEF StreamStates
    <2>10. \A x \in q : x.id <= Len(log) + 1
      BY <1>0, <2>4, <2>6, <2>7
    <2>11. stream.epoch = journal.epoch \/ stream.at < journal.base
      BY <1>2 DEF DeliverEvent
    <2>12. stream'.at <= Len(log)
      BY <1>0, <2>1, <2>9
    <2>13. q = IF log[stream.at + 1].path \in Under(w.roots)
                 THEN Collect(stream.queue, w.roots, Event(log[stream.at + 1])) ELSE stream.queue
      BY <2>2, <2>3, <2>5, <2>7
    <2>14. Event(log[stream.at + 1]) \in Reported
      BY <2>2, <2>3
    <2>15. QED
      BY <1>1, <2>1, <2>9, <2>10, <2>11, <2>12, <2>13, <2>14
  <1>3. CASE DeliverHistoryDone
    <2>1. PICK q \in SUBSET Delivered : q = stream.queue \cup {Control("done")}
      BY <1>0, ControlTyped
    <2>2. stream' = [stream EXCEPT !.done = TRUE, !.queue = q]
      BY <1>3, <2>1 DEF DeliverHistoryDone
    <2>3. /\ stream' \in StreamStates /\ stream'.at = stream.at
          /\ stream'.epoch = stream.epoch /\ stream'.queue = q
      BY <1>0, <2>1, <2>2 DEF StreamStates
    <2>4. \A x \in q : x.id <= Len(log) + 1
      BY <1>0, <2>1, ControlTyped
    <2>5. QED
      BY <1>0, <1>1, <2>1, <2>3, <2>4
  <1>4. CASE DeliverWrapped
    <2>1. PICK q \in SUBSET Delivered : q = stream.queue \cup {Control("wrapped")}
      BY <1>0, ControlTyped
    <2>2. stream' = [stream EXCEPT !.epoch = journal.epoch, !.queue = q]
          /\ stream.epoch # journal.epoch
      BY <1>4, <2>1 DEF DeliverWrapped
    <2>3. /\ stream' \in StreamStates /\ stream'.at = stream.at
          /\ stream'.epoch = journal.epoch /\ stream'.queue = q
      BY <1>0, <2>1, <2>2 DEF StreamStates
    <2>4. \A x \in q : x.id <= Len(log) + 1
      BY <1>0, <2>1, ControlTyped
    <2>5. QED
      BY <1>0, <1>1, <2>1, <2>2, <2>3, <2>4
  <1>5. QED
    BY <1>2, <1>3, <1>4 DEF Deliver

LEMMA StopByDelivery ==
    ASSUME StopInv, Deliver
    PROVE  StopInv'
  <1>1. /\ UNCHANGED <<log, journal, store, up, stop, cancel, stopping, control, w>>
        /\ stream' \in StreamStates /\ stream'.at <= Len(log)
        /\ \A e \in stream'.queue : e.id <= Len(log) + 1
    BY DeliveryFields
  <1>2. TypeOK'
    BY <1>1 DEF StopInv, TypeOK
  <1>3. Threads' /\ StopIsPrompt'
    BY <1>1 DEF StopInv, Threads, StopIsPrompt
  <1>4. Numbering'
    BY <1>1 DEF StopInv, Numbering
  <1>5. QED
    BY <1>2, <1>3, <1>4 DEF StopInv
-----------------------------------------------------------------------------
\* The worker's steps, field by field

LEMMA PcFields ==
    ASSUME TypeOK, NEW c \in WorkerSteps, NEW n, n = [w EXCEPT !.pc = c]
    PROVE  /\ n \in Workers /\ n.pc = c /\ n.roots = w.roots /\ n.watch = w.watch
           /\ n.before = w.before /\ n.pass = w.pass /\ n.metadata = w.metadata
           /\ n.events = w.events /\ n.pending = w.pending
  BY DEF TypeOK, Workers

LEMMA PassFields ==
    ASSUME TypeOK, NEW q \in Passes, w' = [w EXCEPT !.pc = "scan", !.pass = q]
    PROVE  /\ w' \in Workers /\ w'.pc = "scan" /\ w'.roots = w.roots /\ w'.watch = w.watch
           /\ w'.before = w.before /\ w'.pass = q /\ w'.metadata = w.metadata
           /\ w'.events = w.events /\ w'.pending = w.pending
  BY DEF TypeOK, Workers, WorkerSteps, Active, Passing

LEMMA UnderPaths ==
    ASSUME NEW scopes, scopes \subseteq Paths
    PROVE  scopes \subseteq Under(scopes) /\ Under(scopes) \subseteq Paths
  BY DEF Under

\* EnterPass without a stop.
LEMMA EnterFields ==
    ASSUME TypeOK, EnterPass, ~stop
    PROVE  \E q \in Passes :
             /\ w' = [w EXCEPT !.pc = "scan", !.pass = q] /\ w'.pass = q
             /\ q.initial = w.pass.initial /\ q.recursive = w.pass.recursive
             /\ q.scopes = w.pass.scopes /\ q.event_id = w.pass.event_id
             /\ q.todo = Scope /\ q.batch = w.pass.batch /\ q.seen = w.pass.seen
             /\ q.broken = w.pass.broken
  <1>0. w \in Workers /\ w.pass \in Passes
    BY DEF TypeOK, Workers
  <1>1. w.pass.scopes \subseteq Paths
    BY <1>0 DEF Passes
  <1>2. PICK todo \in SUBSET Paths :
          /\ todo = IF w.pass.recursive THEN Under(w.pass.scopes) ELSE w.pass.scopes
          /\ todo = Scope
    BY <1>1, UnderPaths DEF Scope
  <1>3. PICK pass \in Passes : pass = w.pass
    BY <1>0
  <1>4. PICK q : q = [pass EXCEPT !.todo = todo]
    OBVIOUS
  <1>5. /\ q \in Passes /\ q.initial = pass.initial /\ q.recursive = pass.recursive
        /\ q.scopes = pass.scopes /\ q.event_id = pass.event_id
        /\ q.todo = todo /\ q.batch = pass.batch /\ q.seen = pass.seen /\ q.broken = pass.broken
    BY <1>3, <1>4 DEF Passes
  <1>6. w' = [w EXCEPT !.pc = "scan", !.pass = q]
    BY <1>2, <1>3, <1>4 DEF EnterPass
  <1>7. w'.pass = q
    BY <1>0, <1>5, <1>6 DEF Workers
  <1>8. QED
    BY <1>2, <1>3, <1>5, <1>6, <1>7

\* One entry is read.
LEMMA EntryFields ==
    ASSUME TypeOK, ScanEntry
    PROVE  \E p \in w.pass.todo, q \in Passes :
             /\ w' = [w EXCEPT !.pc = "scan", !.pass = q] /\ w.pc = "scan"
             /\ UNCHANGED <<log, journal, up, stop, stopping, control, budget, store, cancel, stream>>
             /\ q.initial = w.pass.initial /\ q.recursive = w.pass.recursive
             /\ q.scopes = w.pass.scopes /\ q.event_id = w.pass.event_id
             /\ q.todo = w.pass.todo \ {p} /\ q.seen = w.pass.seen /\ q.broken = w.pass.broken
             /\ q.batch = IF Present(p)
                            THEN [x \in DOMAIN w.pass.batch \cup {p} |->
                                    IF x = p THEN Version(p) ELSE w.pass.batch[x]]
                            ELSE w.pass.batch
  <1>0. w \in Workers /\ w.pass \in Passes /\ w.pc = "scan"
    BY DEF TypeOK, Workers, ScanEntry
  <1>1. PICK pass \in Passes : pass = w.pass
    BY <1>0
  <1>2. pass.todo \subseteq Paths /\ pass.batch \in Batches
    BY DEF Passes
  <1>3. PICK p \in pass.todo :
          w' = [w EXCEPT !.pass.todo = pass.todo \ {p},
                         !.pass.batch = IF Present(p) THEN [x \in DOMAIN pass.batch \cup {p} |->
                                                              IF x = p THEN Version(p) ELSE pass.batch[x]]
                                        ELSE pass.batch]
    BY <1>1 DEF ScanEntry
  <1>4. PICK b : b = IF Present(p) THEN [x \in DOMAIN pass.batch \cup {p} |->
                                          IF x = p THEN Version(p) ELSE pass.batch[x]]
                     ELSE pass.batch
    BY Zenon
  <1>5. b \in Batches
    <2>1. PICK s \in SUBSET Paths : pass.batch \in [s -> Versions]
      BY <1>2 DEF Batches
    <2>2. Version(p) \in Versions
      BY MetadataTyped
    <2>3. PICK m : m = [x \in s \cup {p} |-> IF x = p THEN Version(p) ELSE pass.batch[x]]
      OBVIOUS
    <2>4. m \in [s \cup {p} -> Versions] /\ s \cup {p} \in SUBSET Paths
      BY <1>2, <2>1, <2>2, <2>3
    <2>5. m \in Batches
      BY <2>4 DEF Batches
    <2>6. DOMAIN pass.batch = s
      BY <2>1
    <2>7. QED
      BY <1>2, <1>4, <2>3, <2>5, <2>6
  <1>6. PICK q : q = [pass EXCEPT !.todo = pass.todo \ {p}, !.batch = b]
    OBVIOUS
  <1>7. /\ q \in Passes /\ q.initial = pass.initial /\ q.recursive = pass.recursive
        /\ q.scopes = pass.scopes /\ q.event_id = pass.event_id
        /\ q.todo = pass.todo \ {p} /\ q.batch = b /\ q.seen = pass.seen /\ q.broken = pass.broken
    BY <1>2, <1>5, <1>6 DEF Passes
  <1>8. w' = [w EXCEPT !.pass = q]
    BY <1>0, <1>1, <1>3, <1>4, <1>6 DEF Workers
  <1>9. w' = [w EXCEPT !.pc = "scan", !.pass = q]
    BY <1>0, <1>7, <1>8 DEF Workers, WorkerSteps, Active, Passing
  <1>10. UNCHANGED <<log, journal, up, stop, stopping, control, budget, store, cancel, stream>>
    BY DEF ScanEntry, Quiet, WorkerOnly
  <1>11. QED
    BY <1>0, <1>1, <1>4, <1>7, <1>9, <1>10, ZenonT(40)

LEMMA CommittedTyped ==
    ASSUME TypeOK, NEW b \in Batches
    PROVE  /\ Committed(b) \in Stores /\ DOMAIN b \subseteq Paths
           /\ Committed(b).rows = [p \in Paths |-> IF p \in DOMAIN b THEN b[p] ELSE store.rows[p]]
           /\ Committed(b).cursor = store.cursor /\ Committed(b).proof = store.proof
           /\ Committed(b).roots = store.roots /\ Committed(b).watch = store.watch
           /\ Committed(b).invalid = store.invalid
  <1>1. PICK s \in SUBSET Paths : b \in [s -> Versions]
    BY DEF Batches
  <1>2. store \in Stores /\ store.rows \in [Paths -> Versions]
    BY DEF TypeOK, Stores
  <1>3. PICK rows : rows = [p \in Paths |-> IF p \in DOMAIN b THEN b[p] ELSE store.rows[p]]
    OBVIOUS
  <1>4. rows \in [Paths -> Versions]
    BY <1>1, <1>2, <1>3
  <1>5. Committed(b) = [store EXCEPT !.rows = rows]
    BY <1>3 DEF Committed
  <1>6. QED
    BY <1>1, <1>2, <1>3, <1>4, <1>5 DEF Stores

\* A batch commits, or is dropped with a pass that can no longer succeed.
LEMMA BatchFields ==
    ASSUME TypeOK, CommitBatch
    PROVE  \E q \in Passes :
             /\ w' = [w EXCEPT !.pc = "scan", !.pass = q] /\ w.pc = "scan"
             /\ UNCHANGED <<log, journal, up, stop, stopping, control, stream>>
             /\ cancel' \in {cancel, TRUE}
             /\ q.initial = w.pass.initial /\ q.recursive = w.pass.recursive
             /\ q.scopes = w.pass.scopes /\ q.event_id = w.pass.event_id
             /\ q.todo = w.pass.todo /\ q.batch = << >>
             /\ w.pass.batch \in Batches
             /\ \/ /\ q.broken # "no" /\ store' \in {store, Committed(w.pass.batch)}
                   /\ store' # store => w.pass.broken = "no"
                \/ /\ q.broken = "no" /\ w.pass.broken = "no" /\ store' = Committed(w.pass.batch)
                   /\ q.seen = w.pass.seen \cup DOMAIN w.pass.batch
  <1>0. w \in Workers /\ w.pass \in Passes /\ w.pc = "scan"
    BY DEF TypeOK, Workers, CommitBatch
  <1>1. PICK pass \in Passes : pass = w.pass
    BY <1>0
  <1>2. pass.batch \in Batches /\ pass.seen \subseteq Paths
    BY DEF Passes
  <1>3. DOMAIN pass.batch \subseteq Paths
    BY <1>2, CommittedTyped
  <1>4. PICK seen \in SUBSET Paths, broken \in {"no", "cancelled", "retry", "error"} :
          /\ w' = [w EXCEPT !.pass = [pass EXCEPT !.batch = << >>, !.seen = seen, !.broken = broken]]
          /\ cancel' \in {cancel, TRUE}
          /\ \/ /\ broken # "no" /\ store' \in {store, Committed(pass.batch)}
                /\ store' # store => pass.broken = "no"
             \/ /\ broken = "no" /\ pass.broken = "no" /\ store' = Committed(pass.batch)
                /\ seen = pass.seen \cup DOMAIN pass.batch
    <2>1. /\ pass.seen \in SUBSET Paths /\ pass.seen \cup DOMAIN pass.batch \in SUBSET Paths
          /\ pass.broken \in {"no", "cancelled", "retry", "error"}
      BY <1>2, <1>3 DEF Passes
    <2>3. CASE /\ pass.broken # "no" /\ w' = [w EXCEPT !.pass.batch = << >>]
               /\ UNCHANGED <<store, cancel>>
      <3>1. w' = [w EXCEPT !.pass = [pass EXCEPT !.batch = << >>, !.seen = pass.seen,
                                                 !.broken = pass.broken]]
        BY <1>0, <1>1, <2>3 DEF Workers, Passes
      <3>2. QED
        BY <2>1, <2>3, <3>1
    <2>4. CASE /\ pass.broken = "no"
               /\ \E b \in {"cancelled", "retry", "error"} :
                    w' = [w EXCEPT !.pass.batch = << >>, !.pass.broken = b]
               /\ cancel' \in {cancel, TRUE} /\ store' \in {store, Committed(pass.batch)}
      <3>1. PICK b \in {"cancelled", "retry", "error"} :
              w' = [w EXCEPT !.pass.batch = << >>, !.pass.broken = b]
        BY <2>4
      <3>2. w' = [w EXCEPT !.pass = [pass EXCEPT !.batch = << >>, !.seen = pass.seen, !.broken = b]]
        BY <1>0, <1>1, <3>1 DEF Workers, Passes
      <3>3. QED
        BY <2>1, <2>4, <3>2
    <2>5. CASE /\ pass.broken = "no" /\ store' = Committed(pass.batch) /\ UNCHANGED cancel
               /\ w' = [w EXCEPT !.pass.batch = << >>, !.pass.seen = pass.seen \cup DOMAIN pass.batch]
      <3>1. w' = [w EXCEPT !.pass = [pass EXCEPT !.batch = << >>,
                                                 !.seen = pass.seen \cup DOMAIN pass.batch,
                                                 !.broken = "no"]]
        BY <1>0, <1>1, <2>5, ZenonT(40) DEF Workers, Passes
      <3>2. QED
        BY <2>1, <2>5, <3>1
    <2>6. QED
      BY <1>1, <2>3, <2>4, <2>5 DEF CommitBatch
  <1>5. PICK q : q = [pass EXCEPT !.batch = << >>, !.seen = seen, !.broken = broken]
    OBVIOUS
  <1>6. /\ q \in Passes /\ q.initial = pass.initial /\ q.recursive = pass.recursive
        /\ q.scopes = pass.scopes /\ q.event_id = pass.event_id
        /\ q.todo = pass.todo /\ q.batch = << >> /\ q.seen = seen /\ q.broken = broken
    BY <1>5, EmptyBatch DEF Passes
  <1>7. w' = [w EXCEPT !.pc = "scan", !.pass = q]
    BY <1>0, <1>4, <1>5, <1>6 DEF Workers
  <1>8. UNCHANGED <<log, journal, up, stop, stopping, control, stream>>
    BY DEF CommitBatch
  <1>9. QED
    BY <1>0, <1>1, <1>2, <1>4, <1>6, <1>7, <1>8
\* The scanner returns: the pass fails, is retried or cancelled, or goes on to
\* finish with everything read and committed.
LEMMA EndFields ==
    ASSUME TypeOK, EndScan
    PROVE  /\ w.pc = "scan" /\ w.pass.batch = << >>
           /\ UNCHANGED <<log, journal, up, stop, stopping, control, store, cancel, stream>>
           /\ \/ w' = [w EXCEPT !.pc = "over"]
              \/ w' = Outcome("cancelled", NoPass)
              \/ \E q \in Passes :
                   /\ w' = Outcome("retry", q)
                   /\ q.initial = w.pass.initial /\ q.recursive = w.pass.recursive
                   /\ q.scopes = w.pass.scopes /\ q.event_id = w.pass.event_id
                   /\ q.todo = {} /\ q.batch = << >> /\ q.seen = {} /\ q.broken = "no"
              \/ /\ w' = [w EXCEPT !.pc = "finish"]
                 /\ w.pass.todo = {} /\ w.pass.broken = "no"
  <1>0. w \in Workers /\ w.pass \in Passes /\ w.pc = "scan" /\ w.pass.batch = << >>
        /\ (w.pass.todo = {} \/ cancel)
    <2>1. w \in Workers /\ w.pass \in Passes
      BY DEF TypeOK, Workers
    <2>2. w.pc = "scan" /\ w.pass.batch = << >> /\ (w.pass.todo = {} \/ cancel)
      BY Zenon DEF EndScan
    <2>3. QED
      BY <2>1, <2>2
  <1>1. PICK pass \in Passes : pass = w.pass
    BY <1>0
  <1>2. UNCHANGED <<log, journal, up, stop, stopping, control, store, cancel, stream>>
    BY DEF EndScan, Quiet, WorkerOnly
  <1>3. PICK q : q = [pass EXCEPT !.todo = {}, !.seen = {}, !.broken = "no"]
    OBVIOUS
  <1>4. /\ q \in Passes /\ q.initial = pass.initial /\ q.recursive = pass.recursive
        /\ q.scopes = pass.scopes /\ q.event_id = pass.event_id
        /\ q.todo = {} /\ q.batch = pass.batch /\ q.seen = {} /\ q.broken = "no"
    BY <1>3 DEF Passes
  <1>5. pass.broken \in {"no", "cancelled", "retry", "error"}
    BY DEF Passes
  <1>6. CASE w' = [w EXCEPT !.pc = "over"]
    BY <1>0, <1>2, <1>6
  <1>7. CASE w' = Outcome("retry", q)
    BY <1>0, <1>1, <1>2, <1>4, <1>7
  <1>8. CASE w' = Outcome("cancelled", NoPass)
    BY <1>0, <1>2, <1>8
  <1>9. CASE /\ w' = [w EXCEPT !.pc = "finish"] /\ pass.broken \notin {"error", "retry", "cancelled"}
             /\ ~(IF pass.recursive THEN cancel ELSE pass.todo # {})
    <2>1. pass.broken = "no" /\ pass.todo = {}
      BY <1>0, <1>1, <1>5, <1>9
    <2>2. QED
      BY <1>0, <1>1, <1>2, <1>9, <2>1
  <1>10. QED
    BY <1>1, <1>3, <1>6, <1>7, <1>8, <1>9 DEF EndScan

\* finish_observed commits; the refresh after it may still fail.
LEMMA FinishFields ==
    ASSUME TypeOK, FinishPass
    PROVE  /\ w.pc = "finish"
           /\ UNCHANGED <<log, journal, up, stop, cancel, stopping, control, stream>>
           /\ store' \in Stores
           /\ store'.rows =
                [p \in Paths |-> IF w.pass.recursive /\ p \in Under(w.pass.scopes) \ w.pass.seen
                                   THEN None ELSE store.rows[p]]
           /\ store'.cursor = w.pass.event_id /\ store'.proof = store.proof
           /\ w' = Outcome("complete", w.pass) \/ w' = [w EXCEPT !.pc = "over"]
  <1>0. w \in Workers /\ w.pass \in Passes /\ w.pc = "finish" /\ store \in Stores
        /\ store.rows \in [Paths -> Versions] /\ w.pass.event_id \in Nat
    BY DEF TypeOK, Workers, FinishPass, Stores, Passes
  <1>1. PICK rows : rows =
          [p \in Paths |-> IF p \in Under(IF w.pass.recursive THEN w.pass.scopes ELSE {}) \ w.pass.seen
                             THEN None ELSE store.rows[p]]
    OBVIOUS
  <1>2. rows \in [Paths -> Versions]
    <2>1. None \in Versions
      BY MetadataTyped
    <2>2. QED
      BY <1>0, <1>1, <2>1
  <1>3. PICK id \in Nat : id = w.pass.event_id
    BY <1>0
  <1>4. store' = [store EXCEPT !.rows = rows, !.cursor = id]
    BY <1>1, <1>3 DEF FinishPass, Finished
  <1>5. /\ store' \in Stores /\ store'.rows = rows /\ store'.cursor = id
        /\ store'.proof = store.proof
    BY <1>0, <1>2, <1>3, <1>4 DEF Stores
  <1>6. Under({}) = {}
    BY NamespaceAssumption DEF Under
  <1>7. rows = [p \in Paths |-> IF w.pass.recursive /\ p \in Under(w.pass.scopes) \ w.pass.seen
                                  THEN None ELSE store.rows[p]]
    BY <1>1, <1>6
  <1>8. QED
    BY <1>0, <1>3, <1>5, <1>7 DEF FinishPass

LEMMA CheckpointFields ==
    ASSUME TypeOK, Threads, Checkpoint
    PROVE  /\ w.pc = "checkpoint"
           /\ UNCHANGED <<log, journal, up, stop, cancel, stopping, control, stream>>
           /\ store' \in Stores /\ store'.rows = store.rows /\ store'.cursor = store.cursor
           /\ \/ store'.proof = store.proof
              \/ /\ w.watch /\ w.before = journal.epoch
                 /\ store'.proof = [roots |-> w.roots, epoch |-> w.before]
           /\ w' = [w EXCEPT !.pc = IF w.watch THEN "watch" ELSE "over"]
  <1>0. w \in Workers /\ w.pc = "checkpoint" /\ store \in Stores /\ journal.epoch \in Nat
        /\ UNCHANGED <<log, journal, up, stop, cancel, stopping, control, stream>>
    BY DEF TypeOK, Checkpoint, WorkerOnly
  <1>1. w.roots \in RootSets
    BY <1>0 DEF Threads
  <1>2. CASE w.watch /\ w.before = journal.epoch
    <2>1. PICK proof \in [roots : RootSets, epoch : Nat] :
            proof = [roots |-> w.roots, epoch |-> w.before]
      BY <1>0, <1>1, <1>2
    <2>2. store' = [store EXCEPT !.proof = proof, !.invalid = FALSE]
      BY <1>2, <2>1 DEF Checkpoint, commit_resume_proof
    <2>3. /\ store' \in Stores /\ store'.rows = store.rows /\ store'.cursor = store.cursor
          /\ store'.proof = proof
      BY <1>0, <2>1, <2>2 DEF Stores
    <2>4. QED
      BY <1>0, <1>2, <2>1, <2>3 DEF Checkpoint
  <1>3. CASE ~(w.watch /\ w.before = journal.epoch)
    BY <1>0, <1>3 DEF Checkpoint
  <1>4. QED
    BY <1>2, <1>3

\* Control events never reach the plan.
LEMMA DrainFields ==
    ASSUME TypeOK, Drain
    PROVE  LET drained == w.pending \cup stream.queue
               events == {e \in drained : "done" \notin e.flags}
           IN  /\ w.pc = "watch" /\ ~stop /\ drained \subseteq Delivered
               /\ UNCHANGED <<log, journal, up, stop, cancel, stopping, control>>
               /\ stream' \in StreamStates /\ stream'.queue = {} /\ stream'.at = stream.at
               /\ stream'.epoch = stream.epoch
               /\ \/ /\ store' \in Stores /\ store'.proof = NoProof
                     /\ \E n \in Workers : /\ w' = n /\ n.pc = "restart" /\ n.roots = w.roots
                                           /\ n.before = w.before
                                           /\ n.pending = {} /\ n.events = w.events
                  \/ /\ UNCHANGED store /\ \A e \in drained : "wrapped" \notin e.flags
                     /\ events = {}
                     /\ \E n \in Workers :
                          /\ w' = n /\ n.pc = "watch" /\ n.roots = w.roots /\ n.watch = w.watch
                          /\ n.before = w.before /\ n.pass = w.pass /\ n.metadata = w.metadata
                          /\ n.events = w.events /\ n.pending = {}
                  \/ /\ UNCHANGED store /\ \A e \in drained : "wrapped" \notin e.flags
                     /\ events # {}
                     /\ \E n \in Workers :
                          /\ w' = n /\ n.pc = "plan" /\ n.roots = w.roots /\ n.watch = w.watch
                          /\ n.before = w.before /\ n.metadata = w.metadata
                          /\ n.pass.initial = w.pass.initial /\ n.pass.event_id = store.cursor
                          /\ n.events = events /\ n.pending = {}
  <1>0. /\ w \in Workers /\ w.pass \in Passes /\ w.pc = "watch" /\ ~stop /\ store \in Stores
        /\ stream \in StreamStates
        /\ UNCHANGED <<log, journal, up, stop, cancel, stopping, control>>
        /\ w.pending \cup stream.queue \in SUBSET Delivered /\ store.cursor \in Nat
        /\ w.replaying \in BOOLEAN
    BY DEF TypeOK, Drain, WorkerOnly, Workers, StreamStates, Stores
  <1>1. PICK drained \in SUBSET Delivered : drained = w.pending \cup stream.queue
    BY <1>0
  <1>2. PICK events \in SUBSET Delivered : events = {e \in drained : "done" \notin e.flags}
    BY <1>1
  <1>3. PICK done \in BOOLEAN : done = ("done" \in Flags(drained))
    <2>1. CASE "done" \in Flags(drained)
      <3>1. TRUE = ("done" \in Flags(drained))
        BY <2>1
      <3>2. QED
        BY <3>1
    <2>2. CASE ~("done" \in Flags(drained))
      <3>1. FALSE = ("done" \in Flags(drained))
        BY <2>2
      <3>2. QED
        BY <3>1
    <2>3. QED
      BY <2>1, <2>2
  <1>4. /\ stream' \in StreamStates /\ stream'.queue = {} /\ stream'.at = stream.at
        /\ stream'.epoch = stream.epoch
    BY <1>0 DEF Drain, StreamStates
  <1>5. CASE "wrapped" \in Flags(drained)
    <2>1. store' = invalidate_event_history /\ w' = [w EXCEPT !.pc = "restart", !.pending = {}]
      BY <1>1, <1>5 DEF Drain
    <2>2. store' \in Stores /\ store'.proof = NoProof
      BY <1>0, <2>1 DEF invalidate_event_history, Stores
    <2>3. /\ w' \in Workers /\ w'.pc = "restart" /\ w'.roots = w.roots /\ w'.before = w.before
          /\ w'.pending = {} /\ w'.events = w.events
      BY <1>0, <2>1 DEF Workers, WorkerSteps
    <2>4. QED
      BY <1>0, <1>1, <1>4, <2>2, <2>3
  <1>6. CASE "wrapped" \notin Flags(drained)
    <2>1. \A e \in drained : "wrapped" \notin e.flags
      BY <1>6 DEF Flags
    <2>2. /\ UNCHANGED store
          /\ w' = IF events = {}
                    THEN [w EXCEPT !.pending = {}, !.replaying = w.replaying /\ ~done]
                    ELSE [w EXCEPT !.pending = {}, !.pc = "plan", !.events = events,
                                   !.done = done, !.pass.event_id = store.cursor]
      BY <1>1, <1>2, <1>3, <1>6 DEF Drain
    <2>3. CASE events = {}
      <3>1. PICK replaying \in BOOLEAN : replaying = (w.replaying /\ ~done)
        BY <1>0, Zenon
      <3>2. w' = [w EXCEPT !.pending = {}, !.replaying = replaying]
        BY <2>2, <2>3, <3>1
      <3>3. /\ w' \in Workers /\ w'.pc = "watch" /\ w'.roots = w.roots /\ w'.watch = w.watch
            /\ w'.before = w.before /\ w'.pass = w.pass /\ w'.metadata = w.metadata
            /\ w'.events = w.events /\ w'.pending = {}
        BY <1>0, <3>1, <3>2 DEF Workers
      <3>4. QED
        BY <1>0, <1>1, <1>2, <1>4, <2>1, <2>2, <2>3, <3>3
    <2>4. CASE events # {}
      <3>6. events \in SUBSET Reported
        BY <1>2, <2>1 DEF Delivered, Control
      <3>1. PICK q : q = [w.pass EXCEPT !.event_id = store.cursor]
        OBVIOUS
      <3>2. q \in Passes /\ q.initial = w.pass.initial /\ q.event_id = store.cursor
        BY <1>0, <3>1 DEF Passes
      <3>3. w' = [w EXCEPT !.pending = {}, !.pc = "plan", !.events = events, !.done = done, !.pass = q]
        BY <2>2, <2>4, <3>1
      <3>4. /\ w' \in Workers /\ w'.pc = "plan" /\ w'.roots = w.roots /\ w'.watch = w.watch
            /\ w'.before = w.before /\ w'.pass = q /\ w'.metadata = w.metadata
            /\ w'.events = events /\ w'.pending = {}
        BY <1>0, <1>3, <3>2, <3>3, <3>6 DEF Workers, WorkerSteps, Active
      <3>5. QED
        BY <1>0, <1>1, <1>2, <1>4, <2>1, <2>2, <2>4, <3>2, <3>4
    <2>5. QED
      BY <2>3, <2>4
  <1>7. QED
    BY <1>5, <1>6
\* The plan of a drain: directories are read again for their metadata only.
LEMMA PlanTyped ==
    ASSUME TypeOK, Threads, w.pc # "none", NEW events \in SUBSET Reported
    PROVE  /\ RecursiveScopes(events) \subseteq Paths
           /\ MetadataPaths(events) \subseteq Dirs
  <1>1. w.roots \subseteq Paths
    BY RootsArePaths DEF Threads
  <1>2. \A e \in events : e.path \in Paths
    BY DEF Reported
  <1>3. RecursiveScopes(events) \subseteq Paths
    BY <1>1, <1>2 DEF RecursiveScopes
  <1>4. Under(w.roots) \subseteq Paths
    BY <1>1, UnderPaths
  <1>5. ASSUME NEW p \in MetadataPaths(events), p \notin Dirs PROVE FALSE
    <2>1. PICK q \in Paths : p = Parent[q] /\ p \in Paths
      BY <1>2, <1>4, <1>5 DEF MetadataPaths
    <2>2. QED
      BY <1>5, <2>1, NamespaceAssumption DEF Dirs
  <1>6. QED
    BY <1>3, <1>5

LEMMA PlanFields ==
    ASSUME TypeOK, Threads, Plan, ~stop
    PROVE  /\ w.pc = "plan"
           /\ UNCHANGED <<log, journal, up, stop, stopping, control, store, cancel, stream>>
           /\ \E n \in Workers :
                /\ w' = n /\ n.pc = "clear" /\ n.roots = w.roots /\ n.watch = w.watch
                /\ n.before = w.before /\ n.events = w.events /\ n.pending = w.pending
                /\ n.metadata = w.metadata \/ n.pass.recursive
                /\ n.pass.initial = FALSE /\ n.pass.event_id = w.pass.event_id
                /\ n.pass.todo = {} /\ n.pass.batch = << >> /\ n.pass.seen = {} /\ n.pass.broken = "no"
                /\ \/ /\ n.pass.recursive /\ n.pass.scopes = RecursiveScopes(w.events)
                      /\ n.metadata = MetadataPaths(w.events)
                   \/ /\ ~n.pass.recursive /\ n.pass.scopes = MetadataPaths(w.events)
                      /\ RecursiveScopes(w.events) = {}
  <1>0. w \in Workers /\ w.pass \in Passes /\ w.pc = "plan" /\ w.events \in SUBSET Reported
        /\ w.pass.event_id \in Nat
        /\ UNCHANGED <<log, journal, up, stop, stopping, control, store, cancel, stream>>
    BY DEF TypeOK, Workers, Plan, Quiet, WorkerOnly, Passes
  <1>1. PICK recursive \in SUBSET Paths : recursive = RecursiveScopes(w.events)
    BY <1>0, PlanTyped
  <1>2. PICK metadata \in SUBSET Dirs : metadata = MetadataPaths(w.events)
    BY <1>0, PlanTyped
  <1>3. CASE recursive # {}
    <2>5. PICK q : q = NewPass(FALSE, TRUE, recursive, w.pass.event_id)
      OBVIOUS
    <2>1. /\ q \in Passes
          /\ q.initial = FALSE /\ q.recursive = TRUE /\ q.scopes = recursive
          /\ q.event_id = w.pass.event_id
          /\ q.todo = {} /\ q.batch = << >> /\ q.seen = {} /\ q.broken = "no"
      <3>1. q \in Passes
        BY <1>0, <2>5, NewPassTyped
      <3>2. QED
        BY <2>5, <3>1 DEF NewPass, NoPass, Passes
    <2>2. w' = [w EXCEPT !.pc = "clear", !.metadata = metadata, !.pass = q]
      BY <1>1, <1>2, <1>3, <2>5 DEF Plan
    <2>3. /\ w' \in Workers /\ w'.pc = "clear" /\ w'.roots = w.roots /\ w'.watch = w.watch
          /\ w'.before = w.before /\ w'.events = w.events /\ w'.pending = w.pending
          /\ w'.metadata = metadata /\ w'.pass = q
      BY <1>0, <1>2, <2>1, <2>2 DEF Workers, WorkerSteps, Active, Passing, Beginning
    <2>4. QED
      BY <1>0, <1>1, <1>2, <2>1, <2>3
  <1>4. CASE recursive = {}
    <2>0. metadata \in SUBSET Paths
      BY DEF Dirs
    <2>5. PICK q : q = NewPass(FALSE, FALSE, metadata, w.pass.event_id)
      OBVIOUS
    <2>1. /\ q \in Passes
          /\ q.initial = FALSE /\ q.recursive = FALSE /\ q.scopes = metadata
          /\ q.event_id = w.pass.event_id
          /\ q.todo = {} /\ q.batch = << >> /\ q.seen = {} /\ q.broken = "no"
      <3>1. q \in Passes
        BY <1>0, <2>0, <2>5, NewPassTyped
      <3>2. QED
        BY <2>5, <3>1 DEF NewPass, NoPass, Passes
    <2>2. w' = [w EXCEPT !.pc = "clear", !.pass = q]
      BY <1>1, <1>2, <1>4, <2>5 DEF Plan
    <2>3. /\ w' \in Workers /\ w'.pc = "clear" /\ w'.roots = w.roots /\ w'.watch = w.watch
          /\ w'.before = w.before /\ w'.events = w.events /\ w'.pending = w.pending
          /\ w'.metadata = w.metadata /\ w'.pass = q
      BY <1>0, <2>1, <2>2 DEF Workers, WorkerSteps, Active, Passing, Beginning
    <2>4. QED
      BY <1>0, <1>1, <1>2, <1>4, <2>1, <2>3
  <1>5. QED
    BY <1>3, <1>4

\* The acknowledged cursor is one of the drain's identifiers.
LEMMA AcknowledgeFields ==
    ASSUME TypeOK, Numbering, Acknowledge
    PROVE  /\ w.pc = "acknowledge"
           /\ UNCHANGED <<log, journal, up, stop, stopping, control, cancel, stream>>
           /\ store' \in Stores /\ store'.rows = store.rows /\ store'.proof = store.proof
           /\ store'.cursor \in Ids \/ store' = store
           /\ \E n \in Workers :
                /\ w' = n /\ n.pc = "watch" /\ n.roots = w.roots /\ n.watch = w.watch
                /\ n.before = w.before /\ n.events = {} /\ n.pending = w.pending
                /\ n.pass = NoPass
  <1>0. w \in Workers /\ w.pass \in Passes /\ w.pc = "acknowledge" /\ w.events \in SUBSET Reported
        /\ w.pass.event_id \in Nat /\ store \in Stores /\ Len(log) \in Nat
        /\ UNCHANGED <<log, journal, up, stop, stopping, control, cancel, stream>>
        /\ w.replaying \in BOOLEAN /\ w.done \in BOOLEAN
    BY DEF TypeOK, Workers, Acknowledge, WorkerOnly, Passes
  <1>1. \A e \in w.events : e.id \in Nat /\ e.id <= Len(log) + 1
    BY <1>0 DEF Numbering, Reported
  <1>2. PICK m \in Ids : m = Max(Ids) /\ m \in Nat
    <2>1. Ids \subseteq Nat /\ Ids # {}
      BY <1>0, <1>1 DEF Ids
    <2>2. PICK b \in Nat : \A x \in Ids : x <= b
      <3>1. w.pass.event_id + Len(log) + 1 \in Nat
        BY <1>0
      <3>2. \A x \in Ids : x <= w.pass.event_id + Len(log) + 1
        BY <1>0, <1>1 DEF Ids
      <3>3. QED
        BY <3>1, <3>2
    <2>3. Max(Ids) \in Ids
      BY <2>1, <2>2, MaxOfBounded
    <2>4. QED
      BY <2>1, <2>3
  <1>3. store' = IF m > w.pass.event_id THEN [store EXCEPT !.cursor = m] ELSE store
    BY <1>2 DEF Acknowledge, Ids
  <1>4. /\ store' \in Stores /\ store'.rows = store.rows /\ store'.proof = store.proof
        /\ store'.cursor = m \/ store' = store
    BY <1>0, <1>2, <1>3 DEF Stores
  <1>5. PICK replaying \in BOOLEAN : replaying = (w.replaying /\ ~w.done)
    BY <1>0, Zenon
  <1>6. w' = [w EXCEPT !.pc = "watch", !.pass = NoPass, !.events = {}, !.done = FALSE,
                       !.replaying = replaying]
    BY <1>5 DEF Acknowledge
  <1>7. /\ w' \in Workers /\ w'.pc = "watch" /\ w'.roots = w.roots /\ w'.watch = w.watch
        /\ w'.before = w.before /\ w'.events = {} /\ w'.pending = w.pending /\ w'.pass = NoPass
    BY <1>0, <1>5, <1>6, NoPassTyped DEF Workers, WorkerSteps, Active
  <1>8. QED
    BY <1>0, <1>2, <1>4, <1>7

LEMMA MaxOfTwo ==
    ASSUME NEW a \in Int, NEW b \in Int
    PROVE  Max({a, b}) \in Int /\ a <= Max({a, b}) /\ b <= Max({a, b})
  <1>1. \E x \in {a, b} : \A y \in {a, b} : x >= y
    OBVIOUS
  <1>2. Max({a, b}) \in {a, b} /\ \A y \in {a, b} : Max({a, b}) >= y
    BY <1>1 DEF Max
  <1>3. QED
    BY <1>2

\* A stream opened at a cursor lies in this epoch and at or before the cursor.
LEMMA StreamFields ==
    ASSUME TypeOK, Numbering, NEW since \in Nat, since >= 1, since <= current_event_id,
           NEW s \in Streams(since)
    PROVE  /\ s \in StreamStates /\ s.queue = {} /\ s.epoch = journal.epoch
           /\ journal.base <= s.at /\ s.at <= Position(since) /\ s.at <= Len(log)
  <1>0. journal.base \in Nat /\ journal.epoch \in Nat /\ Len(log) \in Nat
        /\ journal.base <= Len(log) /\ ReplaySlack \in Nat
    BY BoundsAssumption DEF TypeOK, Numbering
  <1>1. PICK first \in Nat : first = journal.base + since - 1
    BY <1>0
  <1>2. PICK low : low = Max({journal.base, first - ReplaySlack})
    OBVIOUS
  <1>3. low \in Int /\ journal.base <= low
    <2>1. journal.base \in Int /\ first - ReplaySlack \in Int
      BY <1>0, <1>1
    <2>2. \A a, b \in Int : Max({a, b}) \in Int /\ a <= Max({a, b})
      BY MaxOfTwo
    <2>3. QED
      BY <1>2, <2>1, <2>2, Zenon
  <1>4. PICK at \in low .. first :
          s = [open |-> TRUE, at |-> at, end |-> Len(log), epoch |-> journal.epoch,
               done |-> FALSE, queue |-> {}]
    BY <1>1, <1>2 DEF Streams
  <1>5. at \in Nat /\ journal.base <= at /\ at <= first
    BY <1>0, <1>3, <1>4
  <1>6. first <= Len(log)
    BY <1>0, <1>1 DEF current_event_id
  <1>7. s \in StreamStates /\ s.queue = {} /\ s.epoch = journal.epoch /\ s.at = at
    BY <1>0, <1>4, <1>5 DEF StreamStates
  <1>8. QED
    BY <1>0, <1>1, <1>5, <1>6, <1>7 DEF Position
\* The resume decision: the journal is replayed from a cursor that every check
\* accepts, or a first pass starts from the current identifier.
LEMMA DecideFields ==
    ASSUME TypeOK, Threads, Numbering, Decide
    PROVE  /\ w.pc = "decide"
           /\ UNCHANGED <<log, journal, store, up, stop, cancel, stopping, control>>
           /\ stream' \in StreamStates /\ stream'.at <= Len(log)
           /\ stream' = stream \/ stream'.queue = {}
           /\ \E n \in Workers :
                /\ w' = n /\ n.pc \in {"checkpoint", "enter"} /\ n.roots = w.roots
                /\ n.watch = w.watch /\ n.before \in {NoEpoch, journal.epoch}
                /\ n.events = w.events /\ n.pending = w.pending
                /\ n.pass.todo = {} /\ n.pass.batch = << >> /\ n.pass.seen = {}
                /\ n.pass.broken = "no" /\ n.pass.recursive
                /\ n.pc = "enter" => n.pass.scopes = w.roots
                /\ w.watch => /\ stream'.queue = {} /\ stream'.epoch = journal.epoch
                              /\ journal.base <= stream'.at
                              /\ stream'.at <= Position(n.pass.event_id)
                /\ \/ /\ ~n.pass.initial /\ n.before = journal.epoch /\ w.watch
                      /\ Resumable(journal.epoch, w.roots) /\ n.pass.event_id = store.cursor
                   \/ /\ n.pass.initial /\ n.pc = "enter" /\ n.pass.event_id = current_event_id
  <1>0. /\ w \in Workers /\ store \in Stores /\ stream \in StreamStates /\ w.pc = "decide"
        /\ w.watch \in BOOLEAN /\ journal.epoch \in Nat /\ journal.base \in Nat
        /\ Len(log) \in Nat /\ journal.base <= Len(log) /\ stream.at <= Len(log)
        /\ store.cursor \in Nat
        /\ UNCHANGED <<log, journal, store, up, stop, cancel, stopping, control>>
    BY DEF TypeOK, Numbering, Decide, Workers, Stores
  <1>1. w.roots \in RootSets /\ w.roots \subseteq Paths /\ w.roots # {}
    BY <1>0, RootsArePaths DEF Threads
  <1>2. PICK before \in {NoEpoch, journal.epoch}, recheck \in {{}, w.roots} :
          DecideWith(before, recheck)
    BY DEF Decide
  <1>3. before \in Int /\ current_event_id \in Nat /\ current_event_id >= 1
    BY <1>0 DEF NoEpoch, current_event_id
  <1>4. CASE w.watch /\ w.resume /\ before # NoEpoch /\ Resumable(before, w.roots)
    <2>1. before = journal.epoch /\ Resumable(journal.epoch, w.roots) /\ w.watch
      BY <1>2, <1>4
    <2>2. PICK since \in Nat : since = store.cursor
      BY <1>0
    <2>3. since >= 1 /\ since <= current_event_id
      BY <1>0, <1>3, <2>1, <2>2 DEF Resumable
    <2>4. PICK q \in Passes : q = NewPass(FALSE, TRUE, recheck, since)
      <3>1. recheck \subseteq Paths
        BY <1>1
      <3>2. QED
        BY <3>1, NewPassTyped
    <2>5. /\ q.initial = FALSE /\ q.recursive = TRUE /\ q.scopes = recheck /\ q.event_id = since
          /\ q.todo = {} /\ q.batch = << >> /\ q.seen = {} /\ q.broken = "no"
      BY <2>4 DEF NewPass, NoPass, Passes
    <2>6. PICK c \in {"checkpoint", "enter"} :
            c = IF q.scopes = {} THEN "checkpoint" ELSE "enter"
      OBVIOUS
    <2>7. /\ w' = [w EXCEPT !.pc = c, !.since = since, !.restore = TRUE, !.before = before,
                            !.pass = q, !.replaying = w.watch]
          /\ stream' \in Streams(since)
      BY <1>2, <1>4, <2>2, <2>4, <2>6 DEF DecideWith
    <2>8. /\ w' \in Workers /\ w'.pc = c /\ w'.roots = w.roots /\ w'.watch = w.watch
          /\ w'.before = before /\ w'.pass = q /\ w'.events = w.events /\ w'.pending = w.pending
      BY <1>0, <1>3, <2>4, <2>6, <2>7 DEF Workers, WorkerSteps, Active, Passing, Beginning
    <2>9. /\ stream' \in StreamStates /\ stream'.queue = {} /\ stream'.epoch = journal.epoch
          /\ journal.base <= stream'.at /\ stream'.at <= Position(since) /\ stream'.at <= Len(log)
      BY <2>3, <2>7, StreamFields
    <2>10. c = "enter" => recheck = w.roots
      BY <1>2, <2>5, <2>6
    <2>11. QED
      BY <1>0, <1>2, <2>1, <2>2, <2>5, <2>6, <2>8, <2>9, <2>10
  <1>5. CASE ~(w.watch /\ w.resume /\ before # NoEpoch /\ Resumable(before, w.roots))
    <2>1. PICK since \in Nat : since = current_event_id
      BY <1>3
    <2>2. PICK q \in Passes : q = NewPass(TRUE, TRUE, w.roots, since)
      BY <1>1, NewPassTyped
    <2>3. /\ q.initial = TRUE /\ q.recursive = TRUE /\ q.scopes = w.roots /\ q.event_id = since
          /\ q.todo = {} /\ q.batch = << >> /\ q.seen = {} /\ q.broken = "no"
      BY <2>2 DEF NewPass, NoPass, Passes
    <2>4. /\ w' = [w EXCEPT !.pc = "enter", !.since = since, !.restore = FALSE, !.before = before,
                            !.pass = q, !.replaying = w.watch]
          /\ IF w.watch THEN stream' \in Streams(since) ELSE UNCHANGED stream
      BY <1>1, <1>2, <1>5, <2>1, <2>2, <2>3 DEF DecideWith
    <2>5. /\ w' \in Workers /\ w'.pc = "enter" /\ w'.roots = w.roots /\ w'.watch = w.watch
          /\ w'.before = before /\ w'.pass = q /\ w'.events = w.events /\ w'.pending = w.pending
      BY <1>0, <1>3, <2>2, <2>4 DEF Workers, WorkerSteps, Active, Passing, Beginning
    <2>6. w.watch =>
            /\ stream' \in StreamStates /\ stream'.queue = {} /\ stream'.epoch = journal.epoch
            /\ journal.base <= stream'.at /\ stream'.at <= Position(since) /\ stream'.at <= Len(log)
      BY <1>3, <2>1, <2>4, StreamFields
    <2>7. ~w.watch => stream' = stream
      BY <2>4
    <2>8. QED
      BY <1>0, <1>2, <2>1, <2>3, <2>5, <2>6, <2>7
  <1>6. QED
    BY <1>4, <1>5

\* A step of the worker that leaves the store and the stream alone.
LEMMA QuietlyMoves ==
    ASSUME StopInv, w.pc # "none", NEW n \in Workers, w' = n, n.pc # "scan", n.roots = w.roots,
           UNCHANGED <<log, journal, up, stop, stopping, control, store, stream>>,
           cancel' \in BOOLEAN,
           \A e \in n.pending \cup n.events : e \in w.pending \cup w.events \cup {Control("done")}
    PROVE  StopInv'
  <1>1. /\ store' \in Stores /\ stream' \in StreamStates /\ stream'.at <= Len(log)
        /\ n.pc # "none" => n.roots \in RootSets
        /\ Len(log) \in Nat
    BY DEF StopInv, TypeOK, Threads, Numbering
  <1>2. \A e \in stream.queue \cup w.pending \cup w.events : e.id <= Len(log) + 1
    BY DEF StopInv, Numbering
  <1>3. \A e \in stream'.queue \cup n.pending \cup n.events : e.id <= Len(log) + 1
    BY <1>1, <1>2, ControlTyped
  <1>4. QED
    BY <1>1, <1>3, WorkerMoves
LEMMA OutcomeKeeps ==
    ASSUME TypeOK, NEW outcome \in {"complete", "retry", "cancelled"}, NEW pass \in Passes,
           NEW n, n = Outcome(outcome, pass)
    PROVE  n.roots = w.roots /\ n.watch = w.watch /\ n.before = w.before
  BY DEF Outcome, Baseline, TypeOK, Workers

\* The outcome of a pass that writes nothing.
LEMMA OutcomeMoves ==
    ASSUME StopInv, w.pc # "none", NEW outcome \in {"complete", "retry", "cancelled"},
           NEW pass \in Passes, w' = Outcome(outcome, pass),
           UNCHANGED <<log, journal, up, stop, stopping, control, cancel, stream>>,
           store' \in Stores
    PROVE  StopInv'
  <1>1. PICK n : n = Outcome(outcome, pass)
    OBVIOUS
  <1>2. /\ n \in Workers /\ n.roots = w.roots /\ n.pc # "scan"
        /\ \A e \in n.pending \cup n.events : e \in w.pending \cup w.events \cup {Control("done")}
    <2>1. TypeOK
      BY DEF StopInv
    <2>2. n \in Workers
      BY <1>1, <2>1, OutcomeFields, Zenon
    <2>7. n.roots = w.roots
      BY <1>1, <2>1, OutcomeKeeps
    <2>3. w.events = {} => /\ n.events = {} /\ n.pending = w.pending
                           /\ n.pc \in {"checkpoint", "retry", "over"}
      BY <1>1, <2>1, OutcomeFields
    <2>4. w.events # {} /\ outcome = "complete" =>
            n.events = w.events /\ n.pending = w.pending /\ n.pc \in {"acknowledge", "enter"}
      BY <1>1, <2>1, OutcomeFields, ZenonT(120)
    <2>5. w.events # {} /\ outcome # "complete" =>
            /\ n.events = {} /\ n.pc = "watch"
            /\ n.pending \in {w.events, w.events \cup {Control("done")}}
      BY <1>1, <2>1, OutcomeFields
    <2>6. QED
      BY <2>2, <2>7, <2>3, <2>4, <2>5
  <1>3. /\ stream' \in StreamStates /\ stream'.at <= Len(log) /\ cancel' \in BOOLEAN
        /\ n.pc # "none" => n.roots \in RootSets
        /\ Len(log) \in Nat
    BY <1>2 DEF StopInv, TypeOK, Threads, Numbering
  <1>4. \A e \in stream.queue \cup w.pending \cup w.events : e.id <= Len(log) + 1
    BY DEF StopInv, Numbering
  <1>5. \A e \in stream'.queue \cup n.pending \cup n.events : e.id <= Len(log) + 1
    BY <1>2, <1>3, <1>4, ControlTyped
  <1>6. QED
    BY <1>1, <1>2, <1>3, <1>5, WorkerMoves

LEMMA StopByControlSteps ==
    ASSUME StopInv,
           \/ Prune \/ RetryBaseline \/ ClearRetry \/ StopWatching \/ ClearCancel \/ StepFails
    PROVE  StopInv'
  <1>1. PICK c \in WorkerSteps \ {"scan"} : w' = [w EXCEPT !.pc = c]
    BY DEF Prune, RetryBaseline, ClearRetry, StopWatching, ClearCancel, StepFails, WorkerSteps,
           Active, Passing, Beginning
  <1>2. /\ w.pc # "none" /\ cancel' \in BOOLEAN
        /\ UNCHANGED <<log, journal, up, stop, stopping, control, store, stream>>
    <2>1. cancel \in BOOLEAN
      BY DEF StopInv, TypeOK
    <2>2. QED
      BY <2>1 DEF Prune, RetryBaseline, ClearRetry, StopWatching, ClearCancel, StepFails, Quiet,
                  WorkerOnly
  <1>3. PICK n : n = [w EXCEPT !.pc = c]
    OBVIOUS
  <1>4. n \in Workers /\ n.pc = c /\ n.roots = w.roots /\ n.events = w.events
        /\ n.pending = w.pending
    BY <1>3, PcFields DEF StopInv
  <1>5. /\ w' = n /\ n.pc # "scan"
        /\ \A e \in n.pending \cup n.events : e \in w.pending \cup w.events \cup {Control("done")}
    BY <1>1, <1>3, <1>4
  <1>6. QED
    BY <1>2, <1>4, <1>5, QuietlyMoves

LEMMA StopByPass ==
    ASSUME StopInv, EnterPass \/ ScanEntry \/ CommitBatch \/ EndScan \/ FinishPass
    PROVE  StopInv'
  <1>0. /\ TypeOK /\ store \in Stores /\ stream \in StreamStates /\ stream.at <= Len(log)
        /\ cancel \in BOOLEAN
        /\ \A e \in stream.queue \cup w.pending \cup w.events : e.id <= Len(log) + 1
        /\ w.pc # "none" => w.roots \in RootSets
        /\ w.pc = "scan" => ~stop \/ cancel \/ stopping \/ control.pc = "signal"
    BY DEF StopInv, TypeOK, Numbering, Threads, StopIsPrompt
  <1>1. ASSUME NEW q \in Passes, w' = [w EXCEPT !.pc = "scan", !.pass = q], w.pc # "none",
               UNCHANGED <<log, journal, up, stop, stopping, control, stream>>,
               store' \in Stores, cancel' \in {cancel, TRUE}, w.pc = "scan" \/ ~stop
        PROVE  StopInv'
    <2>1. PICK n : n = [w EXCEPT !.pc = "scan", !.pass = q]
      OBVIOUS
    <2>2. "scan" \in WorkerSteps
      BY DEF WorkerSteps, Active, Passing
    <2>3. n \in Workers /\ n.pc = "scan" /\ n.roots = w.roots /\ n.events = w.events
          /\ n.pending = w.pending
      BY <1>0, <2>1, <2>2 DEF TypeOK, Workers
    <2>4. cancel' \in BOOLEAN /\ (~stop \/ cancel' \/ stopping \/ control.pc = "signal")
      <3>1. CASE cancel' = cancel
        BY <1>0, <1>1, <3>1
      <3>2. CASE cancel' = TRUE
        BY <3>2
      <3>3. QED
        BY <1>1, <3>1, <3>2
    <2>5. QED
      BY <1>0, <1>1, <2>1, <2>3, <2>4, WorkerMoves
  <1>2. CASE EnterPass
    <2>1. /\ w.pc = "enter"
          /\ UNCHANGED <<log, journal, up, stop, stopping, control, stream, store, cancel>>
      BY <1>2 DEF EnterPass, Quiet, WorkerOnly
    <2>2. CASE stop
      <3>1. w' = Outcome("cancelled", NoPass)
        BY <1>2, <2>2 DEF EnterPass
      <3>2. QED
        BY <1>0, <2>1, <3>1, NoPassTyped, OutcomeMoves
    <2>3. CASE ~stop
      <3>1. PICK q \in Passes : w' = [w EXCEPT !.pc = "scan", !.pass = q]
        BY <1>0, <1>2, <2>3, EnterFields
      <3>2. QED
        BY <1>0, <1>1, <2>1, <2>3, <3>1
    <2>4. QED
      BY <2>2, <2>3
  <1>3. CASE ScanEntry
    <2>1. PICK q \in Passes :
            /\ w' = [w EXCEPT !.pc = "scan", !.pass = q] /\ w.pc = "scan"
            /\ UNCHANGED <<log, journal, up, stop, stopping, control, store, cancel, stream>>
      BY <1>0, <1>3, EntryFields
    <2>2. QED
      BY <1>0, <1>1, <2>1
  <1>4. CASE CommitBatch
    <2>1. PICK q \in Passes :
            /\ w' = [w EXCEPT !.pc = "scan", !.pass = q] /\ w.pc = "scan"
            /\ UNCHANGED <<log, journal, up, stop, stopping, control, stream>>
            /\ cancel' \in {cancel, TRUE} /\ w.pass.batch \in Batches
            /\ store' \in {store, Committed(w.pass.batch)}
      BY <1>0, <1>4, BatchFields
    <2>2. store' \in Stores
      BY <1>0, <2>1, CommittedTyped
    <2>3. QED
      BY <1>0, <1>1, <2>1, <2>2
  <1>5. CASE EndScan
    <2>1. /\ w.pc = "scan"
          /\ UNCHANGED <<log, journal, up, stop, stopping, control, store, cancel, stream>>
          /\ \/ \E c \in {"over", "finish"} : w' = [w EXCEPT !.pc = c]
             \/ w' = Outcome("cancelled", NoPass)
             \/ \E q \in Passes : w' = Outcome("retry", q)
      BY <1>0, <1>5, EndFields
    <2>2. ASSUME NEW c \in {"over", "finish"}, w' = [w EXCEPT !.pc = c] PROVE StopInv'
      <3>1. PICK n : n = [w EXCEPT !.pc = c]
        OBVIOUS
      <3>2. c \in WorkerSteps
        BY DEF WorkerSteps, Active, Passing
      <3>3. n \in Workers /\ n.pc = c /\ n.roots = w.roots /\ n.events = w.events
            /\ n.pending = w.pending
        BY <1>0, <3>1, <3>2, PcFields
      <3>4. QED
        BY <1>0, <2>1, <2>2, <3>1, <3>3, QuietlyMoves
    <2>3. CASE w' = Outcome("cancelled", NoPass)
      <3>1. store' \in Stores /\ w.pc # "none"
        BY <1>0, <2>1
      <3>2. QED
        BY <2>1, <2>3, <3>1, NoPassTyped, OutcomeMoves
    <2>4. CASE \E q \in Passes : w' = Outcome("retry", q)
      <3>1. store' \in Stores /\ w.pc # "none"
        BY <1>0, <2>1
      <3>2. PICK q \in Passes : w' = Outcome("retry", q)
        BY <2>4
      <3>3. QED
        BY <2>1, <3>1, <3>2, OutcomeMoves
    <2>5. QED
      BY <2>1, <2>2, <2>3, <2>4
  <1>6. CASE FinishPass
    <2>1. /\ w.pc = "finish" /\ store' \in Stores
          /\ UNCHANGED <<log, journal, up, stop, cancel, stopping, control, stream>>
          /\ w' = Outcome("complete", w.pass) \/ w' = [w EXCEPT !.pc = "over"]
      BY <1>0, <1>6, FinishFields
    <2>2. CASE w' = Outcome("complete", w.pass)
      <3>1. w.pass \in Passes
        BY <1>0 DEF TypeOK, Workers
      <3>2. QED
        BY <2>1, <2>2, <3>1, OutcomeMoves
    <2>3. CASE w' = [w EXCEPT !.pc = "over"]
      <3>1. PICK n : n = [w EXCEPT !.pc = "over"]
        OBVIOUS
      <3>2. n \in Workers /\ n.pc = "over" /\ n.roots = w.roots /\ n.events = w.events
            /\ n.pending = w.pending
        BY <1>0, <3>1, PcFields DEF WorkerSteps
      <3>3. QED
        BY <1>0, <2>1, <2>3, <3>1, <3>2, WorkerMoves
    <2>4. QED
      BY <2>1, <2>2, <2>3
  <1>7. QED
    BY <1>2, <1>3, <1>4, <1>5, <1>6

LEMMA StopByWatch ==
    ASSUME StopInv,
           Decide \/ Checkpoint \/ Drain \/ Restart \/ Plan \/ Acknowledge \/ Exit
    PROVE  StopInv'
  <1>0. /\ TypeOK /\ Threads /\ Numbering
        /\ store \in Stores /\ stream \in StreamStates /\ stream.at <= Len(log)
        /\ cancel \in BOOLEAN /\ Len(log) \in Nat
        /\ \A e \in stream.queue \cup w.pending \cup w.events : e.id <= Len(log) + 1
        /\ w.pc # "none" => w.roots \in RootSets
        /\ w.watch \in BOOLEAN /\ w.resume \in BOOLEAN
    BY DEF StopInv, TypeOK, Numbering, Threads, Workers
  <1>1. /\ Closed \in StreamStates /\ Closed.at = 0 /\ Closed.queue = {}
    BY DEF Closed, StreamStates
  <1>2. CASE Decide
    <2>1. /\ w.pc = "decide" /\ UNCHANGED <<log, journal, store, up, stop, cancel, stopping, control>>
          /\ stream' \in StreamStates /\ stream'.at <= Len(log)
          /\ stream' = stream \/ stream'.queue = {}
      BY <1>0, <1>2, DecideFields
    <2>2. PICK n \in Workers :
            /\ w' = n /\ n.pc \in {"checkpoint", "enter"} /\ n.roots = w.roots
            /\ n.events = w.events /\ n.pending = w.pending
      BY <1>0, <1>2, DecideFields
    <2>3. \A e \in stream'.queue \cup n.pending \cup n.events : e.id <= Len(log) + 1
      BY <1>0, <2>1, <2>2
    <2>4. QED
      BY <1>0, <2>1, <2>2, <2>3, WorkerMoves
  <1>3. CASE Checkpoint
    <2>1. /\ w.pc = "checkpoint" /\ store' \in Stores
          /\ UNCHANGED <<log, journal, up, stop, cancel, stopping, control, stream>>
          /\ w' = [w EXCEPT !.pc = IF w.watch THEN "watch" ELSE "over"]
      BY <1>0, <1>3, CheckpointFields
    <2>2. PICK c \in {"watch", "over"} : c = IF w.watch THEN "watch" ELSE "over"
      OBVIOUS
    <2>3. PICK n : n = [w EXCEPT !.pc = c]
      OBVIOUS
    <2>4. c \in WorkerSteps
      BY DEF WorkerSteps, Active
    <2>5. n \in Workers /\ n.pc = c /\ n.roots = w.roots /\ n.events = w.events
          /\ n.pending = w.pending
      BY <1>0, <2>3, <2>4, PcFields
    <2>6. w' = n
      BY <2>1, <2>2, <2>3
    <2>7. QED
      BY <1>0, <2>1, <2>5, <2>6, WorkerMoves
  <1>4. CASE Drain
    <2>1. /\ w.pc = "watch" /\ UNCHANGED <<log, journal, up, stop, cancel, stopping, control>>
          /\ stream' \in StreamStates /\ stream'.queue = {} /\ stream'.at = stream.at
          /\ store' \in Stores
      BY <1>0, <1>4, DrainFields
    <2>2. PICK n \in Workers :
            /\ w' = n /\ n.pc \in {"restart", "watch", "plan"} /\ n.roots = w.roots
            /\ \A e \in n.pending \cup n.events : e \in stream.queue \cup w.pending \cup w.events
      BY <1>0, <1>4, DrainFields
    <2>3. \A e \in stream'.queue \cup n.pending \cup n.events : e.id <= Len(log) + 1
      BY <1>0, <2>1, <2>2
    <2>4. QED
      BY <1>0, <2>1, <2>2, <2>3, WorkerMoves
  <1>5. CASE Restart
    <2>1. /\ w.pc = "restart" /\ stream' = Closed
          /\ UNCHANGED <<log, journal, up, stop, cancel, stopping, control, store>>
      BY <1>5 DEF Restart, WorkerOnly
    <2>2. CASE stop
      <3>1. PICK n : n = [w EXCEPT !.pc = "over"]
        OBVIOUS
      <3>2. n \in Workers /\ n.pc = "over" /\ n.roots = w.roots /\ n.events = w.events
            /\ n.pending = w.pending
        BY <1>0, <3>1, PcFields DEF WorkerSteps
      <3>3. w' = n
        BY <1>5, <2>2, <3>1 DEF Restart
      <3>4. QED
        BY <1>0, <1>1, <2>1, <3>2, <3>3, WorkerMoves
    <2>3. CASE ~stop
      <3>1. PICK n : n = Worker(w.roots, w.watch, w.resume)
        OBVIOUS
      <3>2. n \in Workers /\ n.pc = "prune" /\ n.roots = w.roots /\ n.events = {} /\ n.pending = {}
        BY <1>0, <2>1, <3>1, WorkerTyped
      <3>3. w' = n
        BY <1>5, <2>3, <3>1 DEF Restart
      <3>4. QED
        BY <1>0, <1>1, <2>1, <3>2, <3>3, WorkerMoves
    <2>4. QED
      BY <2>2, <2>3
  <1>6. CASE Plan
    <2>1. CASE stop
      <3>1. PICK n : n = [w EXCEPT !.pc = "over"]
        OBVIOUS
      <3>2. n \in Workers /\ n.pc = "over" /\ n.roots = w.roots /\ n.events = w.events
            /\ n.pending = w.pending
        BY <1>0, <3>1, PcFields DEF WorkerSteps
      <3>3. w' = n /\ w.pc = "plan"
            /\ UNCHANGED <<log, journal, up, stop, stopping, control, store, cancel, stream>>
        BY <1>6, <2>1, <3>1 DEF Plan, Quiet, WorkerOnly
      <3>4. QED
        BY <1>0, <3>2, <3>3, QuietlyMoves
    <2>2. CASE ~stop
      <3>1. /\ w.pc = "plan"
            /\ UNCHANGED <<log, journal, up, stop, stopping, control, store, cancel, stream>>
        BY <1>0, <1>6, <2>2, PlanFields
      <3>2. PICK n \in Workers :
              /\ w' = n /\ n.pc = "clear" /\ n.roots = w.roots
              /\ n.events = w.events /\ n.pending = w.pending
        BY <1>0, <1>6, <2>2, PlanFields
      <3>3. QED
        BY <1>0, <3>1, <3>2, QuietlyMoves
    <2>3. QED
      BY <2>1, <2>2
  <1>7. CASE Acknowledge
    <2>1. /\ w.pc = "acknowledge" /\ store' \in Stores
          /\ UNCHANGED <<log, journal, up, stop, stopping, control, cancel, stream>>
      BY <1>0, <1>7, AcknowledgeFields
    <2>2. PICK n \in Workers : /\ w' = n /\ n.pc = "watch" /\ n.roots = w.roots
                               /\ n.events = {} /\ n.pending = w.pending
      BY <1>0, <1>7, AcknowledgeFields
    <2>3. QED
      BY <1>0, <2>1, <2>2, WorkerMoves
  <1>8. CASE Exit
    <2>1. /\ w.pc = "over" /\ w' = NoWorker /\ stream' = Closed
          /\ UNCHANGED <<log, journal, up, stop, cancel, stopping, control, store>>
      BY <1>8 DEF Exit, WorkerOnly
    <2>2. QED
      BY <1>0, <1>1, <2>1, NoWorkerTyped, WorkerMoves
  <1>9. QED
    BY <1>2, <1>3, <1>4, <1>5, <1>6, <1>7, <1>8

LEMMA StopStep == StopInv /\ [Next]_vars => StopInv'
  <1> SUFFICES ASSUME StopInv, [Next]_vars PROVE StopInv'
    OBVIOUS
  <1>1. CASE UNCHANGED vars
    BY <1>1 DEF vars, StopInv, TypeOK, Threads, Numbering, StopIsPrompt
  <1>2. CASE Next
    BY <1>2, StopByChange, StopByWrap, StopByDelivery, StopByClient, StopByRequest, StopByProcess,
       StopByControlSteps, StopByPass, StopByWatch
       DEF Next, Client, WorkerStep
  <1>3. QED
    BY <1>1, <1>2

\* The two flags of a stop or of a restart reach a scanning worker whatever the
\* roots and however requests interleave with the worker's own resets of
\* scan_cancel (start_worker, reconcile_baseline, scan_worker).
THEOREM StopsArePrompt == Spec => []StopIsPrompt
  <1>1. Spec => []StopInv
    BY StopInitially, StopStep, PTL DEF Spec
  <1>2. StopInv => StopIsPrompt
    BY DEF StopInv
  <1>3. QED
    BY <1>1, <1>2, PTL

\* Every variable of the worker, the stream, the store and the requesting
\* thread keeps its type.
THEOREM ReconciliationTyped == Spec => []TypeOK
  <1>1. Spec => []StopInv
    BY StopInitially, StopStep, PTL DEF Spec
  <1>2. StopInv => TypeOK
    BY DEF StopInv
  <1>3. QED
    BY <1>1, <1>2, PTL
-----------------------------------------------------------------------------
\* Values and the positions up to which they are current

LEMMA OneRoot ==
    ASSUME OneSelection
    PROVE  Selected \in RootSets /\ RootSets = {Selected}
  BY DEF OneSelection, Selected

LEMMA FreshWeaker ==
    ASSUME TypeOK, NEW v, NEW p, NEW j \in Int, NEW k \in Int, j <= k, Fresh(v, p, k)
    PROVE  Fresh(v, p, j)
  <1>1. \A i \in DOMAIN log : i \in Int
    BY DEF TypeOK
  <1>2. QED
    BY <1>1 DEF Fresh

LEMMA FreshSame ==
    ASSUME UNCHANGED log, NEW v, NEW p, NEW k
    PROVE  Fresh(v, p, k)' <=> Fresh(v, p, k)
  BY DEF Fresh, Metadata, Present, Version

\* A change keeps the metadata of every entry it does not affect.
LEMMA MetadataAfterChange ==
    ASSUME TypeOK, NEW c \in Changes, NEW p, ~Affects(c, p),
           DOMAIN log' = 1 .. Len(log) + 1, log'[Len(log) + 1] = c,
           \A i \in DOMAIN log : log'[i] = log[i]
    PROVE  Metadata(p)' = Metadata(p)
  <1>0. DOMAIN log = 1 .. Len(log) /\ Len(log) \in Nat
    BY DEF TypeOK
  <1>1. {i \in DOMAIN log' : Affects(log'[i], p)} = {i \in DOMAIN log : Affects(log[i], p)}
    <2>1. \A i \in DOMAIN log' : i \in DOMAIN log \/ i = Len(log) + 1
      BY <1>0
    <2>2. QED
      BY <1>0, <2>1
  <1>2. {i \in DOMAIN log' : log'[i].path = p} = {i \in DOMAIN log : log[i].path = p}
    <2>1. \A i \in DOMAIN log' : i \in DOMAIN log \/ i = Len(log) + 1
      BY <1>0
    <2>2. c.path # p
      BY DEF Affects
    <2>3. QED
      BY <1>0, <2>1, <2>2
  <1>3. Version(p)' = Version(p)
    BY <1>1 DEF Version
  <1>4. Present(p)' <=> Present(p)
    <2>1. PICK own : own = {i \in DOMAIN log : log[i].path = p}
      OBVIOUS
    <2>2. own = {i \in DOMAIN log' : log'[i].path = p}
      BY <1>2, <2>1
    <2>3. Present(p) <=> \A i \in own : log[i].op = "remove" => \E j \in own : j > i
      BY <2>1 DEF Present
    <2>4. Present(p)' <=> \A i \in own : log'[i].op = "remove" => \E j \in own : j > i
      BY <2>2 DEF Present
    <2>5. \A i \in own : log'[i] = log[i]
      BY <2>1
    <2>6. QED
      BY <2>3, <2>4, <2>5
  <1>5. QED
    BY <1>3, <1>4 DEF Metadata

LEMMA FreshAfterChange ==
    ASSUME TypeOK, Numbering, Change, NEW v, NEW p, NEW k \in Int, k <= Len(log), Fresh(v, p, k)
    PROVE  Fresh(v, p, k)'
  <1>1. PICK c \in Changes :
          /\ Len(log') = Len(log) + 1 /\ DOMAIN log' = 1 .. Len(log) + 1
          /\ log'[Len(log) + 1] = c
          /\ \A i \in DOMAIN log : log'[i] = log[i]
          /\ DOMAIN log = 1 .. Len(log) /\ Len(log) \in Nat
    BY ChangeAppends
  <1>2. CASE Affects(c, p)
    <2>1. Len(log) + 1 \in DOMAIN log' /\ Len(log) + 1 > k
      BY <1>1
    <2>2. Affects(log'[Len(log) + 1], p)
      BY <1>1, <1>2
    <2>3. \E i \in DOMAIN log' : i > k /\ Affects(log'[i], p)
      BY <2>1, <2>2
    <2>4. QED
      BY <2>3 DEF Fresh
  <1>3. CASE ~Affects(c, p)
    <2>1. Metadata(p)' = Metadata(p)
      BY <1>1, <1>3, MetadataAfterChange
    <2>2. CASE v = Metadata(p)
      BY <2>1, <2>2 DEF Fresh
    <2>3. CASE v # Metadata(p)
      <3>1. PICK i \in DOMAIN log : i > k /\ Affects(log[i], p)
        BY <2>3 DEF Fresh
      <3>2. i \in DOMAIN log' /\ log'[i] = log[i]
        BY <1>1
      <3>3. \E j \in DOMAIN log' : j > k /\ Affects(log'[j], p)
        BY <3>1, <3>2
      <3>4. QED
        BY <3>3 DEF Fresh
    <2>4. QED
      BY <2>2, <2>3
  <1>4. QED
    BY <1>2, <1>3

LEMMA TracedStays ==
    ASSUME UNCHANGED log, stream'.at = stream.at, NEW v, NEW p,
           stream.queue \cup w.pending \subseteq stream'.queue \cup w'.pending, Traced(v, p)
    PROVE  Traced(v, p)'
  <1>1. CASE Fresh(v, p, stream.at)
    <2>1. PICK k : k = stream.at
      OBVIOUS
    <2>2. Fresh(v, p, k)'
      BY <1>1, <2>1, FreshSame
    <2>3. stream'.at = k
      BY <2>1
    <2>4. Fresh(v, p, stream.at)'
      BY <2>2, <2>3 DEF Fresh
    <2>5. QED
      BY <2>4 DEF Traced
  <1>2. CASE \E e \in stream.queue \cup w.pending : Marks(e, p)
    BY <1>2 DEF Traced, Marks
  <1>3. QED
    BY <1>1, <1>2 DEF Traced

-----------------------------------------------------------------------------
\* The steps that leave the file system, the journal and the trace of a change

\* The cursor stays sound while neither it nor a row changes.
LEMMA CursorStays ==
    ASSUME CursorIsSound, UNCHANGED <<log, journal>>, store'.cursor = store.cursor,
           \A p \in Under(Selected) : store'.rows[p] = store.rows[p],
           Proven' \/ (w'.pc \in Active /\ ~w'.pass.initial /\ Anchored') =>
             Proven \/ (w.pc \in Active /\ ~w.pass.initial /\ Anchored)
    PROVE  CursorIsSound'
  <1> SUFFICES ASSUME Proven' \/ (w'.pc \in Active /\ ~w'.pass.initial /\ Anchored')
               PROVE  /\ store'.cursor \in 1 .. current_event_id'
                      /\ \A p \in Under(Selected) : Fresh(store.rows[p], p, Position(store.cursor))'
    BY DEF CursorIsSound, Under
  <1>1. /\ store.cursor \in 1 .. current_event_id
        /\ \A p \in Under(Selected) : Fresh(store.rows[p], p, Position(store.cursor))
    BY DEF CursorIsSound
  <1>2. store'.cursor \in 1 .. current_event_id'
    BY <1>1 DEF current_event_id
  <1>3. ASSUME NEW p \in Under(Selected) PROVE Fresh(store.rows[p], p, Position(store.cursor))'
    <2>1. Fresh(store.rows[p], p, Position(store.cursor))
      BY <1>1
    <2>2. store'.rows[p] = store.rows[p] /\ Position(store.cursor)' = Position(store.cursor)
      BY DEF Position
    <2>3. QED
      BY <2>1, <2>2 DEF Fresh, Metadata, Present, Version
  <1>4. QED
    BY <1>2, <1>3

\* Without an active worker only the persisted resume point matters.
LEMMA Inactive ==
    ASSUME StopInv', Epochs', CursorIsSound', w'.pc \notin Active,
           w'.pc \in {"prune", "decide"} => w'.events = {} /\ w'.pending = {}
    PROVE  ResumeInv'
  <1>1. Phases'
    BY DEF Phases, Active, Passing, Beginning
  <1>2. Identifiers' /\ RowsAreTraced' /\ DrainIsComplete'
    BY DEF Identifiers, RowsAreTraced, DrainIsComplete
  <1>3. PassIsExact'
    BY DEF PassIsExact, Active, Passing
  <1>4. QED
    BY <1>1, <1>2, <1>3 DEF ResumeInv

\* The worker ends, begins or has not yet decided.
LEMMA InactiveStays ==
    ASSUME ResumeInv, StopInv', UNCHANGED <<log, journal>>, w'.pc \notin Active,
           w'.pc \in {"prune", "decide"} => w'.events = {} /\ w'.pending = {},
           w'.before <= journal.epoch, stream'.epoch <= journal.epoch,
           \/ store'.proof = NoProof
           \/ /\ store'.proof = store.proof /\ store'.cursor = store.cursor
              /\ \A p \in Under(Selected) : store'.rows[p] = store.rows[p]
    PROVE  ResumeInv'
  <1>1. Epochs'
    BY DEF Epochs, ResumeInv
  <1>2. CursorIsSound'
    <2>1. CASE store'.proof = NoProof
      BY <2>1 DEF CursorIsSound, Proven
    <2>2. CASE store'.proof = store.proof /\ store'.cursor = store.cursor
               /\ \A p \in Under(Selected) : store'.rows[p] = store.rows[p]
      <3>1. Proven' => Proven
        BY <2>2 DEF Proven
      <3>2. CursorIsSound
        BY DEF ResumeInv
      <3>3. QED
        BY <2>2, <3>1, <3>2, CursorStays
    <2>3. QED
      BY <2>1, <2>2
  <1>3. QED
    BY <1>1, <1>2, Inactive

\* A step that touches only flags, requests and the other persisted settings.
LEMMA TraceStays ==
    ASSUME ResumeInv, StopInv', UNCHANGED <<log, journal, stream, w>>,
           store'.proof = store.proof, store'.cursor = store.cursor, store'.rows = store.rows
    PROVE  ResumeInv'
  <1>1. Epochs' /\ (Proven' <=> Proven) /\ (Tracked' <=> Tracked)
    BY DEF Epochs, ResumeInv, Proven, Tracked
  <1>2. Anchored' <=> Anchored
    BY <1>1 DEF Anchored
  <1>3. Phases'
    BY <1>1 DEF Phases, ResumeInv
  <1>4. Identifiers'
    BY <1>1, <1>2 DEF Identifiers, ResumeInv, current_event_id, Position
  <1>5. CursorIsSound'
    BY <1>1, <1>2, CursorStays DEF ResumeInv
  <1>6. \A v, p : (Fresh(v, p, stream.at)' <=> Fresh(v, p, stream.at)) /\ (Marks(v, p)' <=> Marks(v, p))
    BY DEF Fresh, Metadata, Present, Version, Marks
  <1>7. \A v, p : Traced(v, p)' <=> Traced(v, p)
    BY <1>6 DEF Traced
  <1>8. \A v, p : Settled(v, p)' <=> Settled(v, p)
    <2>1. Ids' = Ids
      BY DEF Ids
    <2>2. \A v, p, id : Fresh(v, p, Position(id))' <=> Fresh(v, p, Position(id))
      BY DEF Fresh, Metadata, Present, Version, Position
    <2>3. QED
      BY <2>1, <2>2 DEF Settled
  <1>9. PassIsExact'
    <2>1. \A p : Read(p)' = Read(p)
      BY DEF Read
    <2>2. Scope' = Scope /\ Under(Selected)' = Under(Selected)
      BY DEF Scope, Under
    <2>3. PassIsExact
      BY DEF ResumeInv
    <2>4. QED
      BY <1>2, <1>7, <1>8, <2>1, <2>2, <2>3 DEF PassIsExact
  <1>10. RowsAreTraced'
    BY <1>1, <1>6, <1>7 DEF RowsAreTraced, ResumeInv
  <1>11. DrainIsComplete'
    <2>1. \A p : Outstanding(p)' <=> Outstanding(p)
      BY <1>6 DEF Outstanding, Scope
    <2>2. QED
      BY <1>1, <1>7, <1>8, <2>1 DEF DrainIsComplete, ResumeInv
  <1>12. QED
    BY <1>1, <1>3, <1>4, <1>5, <1>9, <1>10, <1>11 DEF ResumeInv
\* Requests, flags and settings leave the trace alone.
LEMMA ResumeByRequest ==
    ASSUME ResumeInv, StopInv',
           Scan \/ Signal \/ Join \/ SetRoots \/ ResetStop \/ Stop \/ StopCancels \/ CancelScan
    PROVE  ResumeInv'
  <1>1. UNCHANGED <<log, journal, stream, w>>
    BY DEF Scan, Signal, Join, SetRoots, ResetStop, Stop, StopCancels, CancelScan
  <1>2. store \in Stores
    BY DEF ResumeInv, StopInv, TypeOK
  <1>3. store'.proof = store.proof /\ store'.cursor = store.cursor /\ store'.rows = store.rows
    BY <1>2 DEF Scan, Signal, Join, SetRoots, ResetStop, Stop, StopCancels, CancelScan, Stores
  <1>4. QED
    BY <1>1, <1>3, TraceStays

\* retain_roots keeps every row below the one selection.
LEMMA ResumeByRetain ==
    ASSUME OneSelection, ResumeInv, StopInv', Retain
    PROVE  ResumeInv'
  <1>1. /\ UNCHANGED <<log, journal, stream, w>> /\ control.pc = "retain"
        /\ store' = retain_roots(control.roots)
    BY DEF Retain
  <1>2. w.pc = "none" /\ control.roots \in RootSets
    BY <1>1 DEF ResumeInv, StopInv, Threads, Joined
  <1>3. control.roots = Selected /\ Selected \subseteq Paths
    BY <1>2, OneRoot, RootsArePaths
  <1>4. store \in Stores /\ Under(Selected) \subseteq Paths
    BY <1>3, UnderPaths DEF ResumeInv, StopInv, TypeOK
  <1>5. PICK rows :
          rows = [p \in Paths |-> IF p \in Under(control.roots) THEN store.rows[p] ELSE None]
    OBVIOUS
  <1>6. store' = [store EXCEPT !.rows = rows]
    BY <1>1, <1>5 DEF retain_roots
  <1>7. store'.proof = store.proof /\ store'.cursor = store.cursor /\ store'.rows = rows
    BY <1>4, <1>6 DEF Stores
  <1>8. \A p \in Under(Selected) : store'.rows[p] = store.rows[p]
    BY <1>3, <1>4, <1>5, <1>7
  <1>9. w'.pc \notin Active /\ w'.pc \notin {"prune", "decide"}
    BY <1>1, <1>2 DEF Active, Passing, Beginning
  <1>10. w'.before <= journal.epoch /\ stream'.epoch <= journal.epoch
    BY <1>1 DEF ResumeInv, Epochs
  <1>11. QED
    BY <1>1, <1>7, <1>8, <1>9, <1>10, InactiveStays

\* A worker begins, or the process ends and starts again.
LEMMA ResumeByProcess ==
    ASSUME ResumeInv, StopInv', Spawn \/ Crash \/ Reopen
    PROVE  ResumeInv'
  <1>0. /\ store \in Stores /\ control \in Controls /\ journal.epoch \in Nat
        /\ control.pc # "free" => control.roots \in RootSets
        /\ w.before <= journal.epoch /\ stream.epoch <= journal.epoch
    BY DEF ResumeInv, StopInv, TypeOK, Threads, Epochs
  <1>1. /\ UNCHANGED <<log, journal, store>> /\ stream' \in {stream, Closed}
        /\ \/ w' = NoWorker
           \/ \E roots \in RootSets, watch, resume \in BOOLEAN : w' = Worker(roots, watch, resume)
    <2>1. CASE Spawn
      <3>1. control.roots \in RootSets /\ control.watch \in BOOLEAN
        BY <1>0, <2>1 DEF Spawn, Controls
      <3>2. QED
        BY <2>1, <3>1 DEF Spawn
    <2>2. CASE Crash
      BY <2>2 DEF Crash
    <2>3. CASE Reopen
      <3>1. store.roots \in {{}} \cup RootSets
        BY <1>0 DEF Stores
      <3>2. CASE store.watch /\ store.roots # {}
        <4>1. w' = Worker(store.roots, TRUE, TRUE) /\ store.roots \in RootSets
          BY <2>3, <3>1, <3>2 DEF Reopen
        <4>2. QED
          BY <2>3, <4>1 DEF Reopen
      <3>3. CASE ~(store.watch /\ store.roots # {})
        BY <2>3, <3>3 DEF Reopen
      <3>4. QED
        BY <3>2, <3>3
    <2>4. QED
      BY <2>1, <2>2, <2>3
  <1>2. /\ w'.pc \in {"none", "prune"} /\ w'.pending = {} /\ w'.events = {}
        /\ w'.before = NoEpoch
    <2>1. CASE w' = NoWorker
      BY <2>1, NoWorkerTyped
    <2>2. CASE w' # NoWorker
      <3>1. PICK roots \in RootSets, watch \in BOOLEAN, resume \in BOOLEAN :
              w' = Worker(roots, watch, resume)
        BY <1>1, <2>2
      <3>2. PICK n : n = Worker(roots, watch, resume)
        OBVIOUS
      <3>3. n.pc = "prune" /\ n.pending = {} /\ n.events = {} /\ n.before = NoEpoch
        BY <3>2, WorkerTyped
      <3>4. QED
        BY <3>1, <3>2, <3>3
    <2>3. QED
      BY <2>1, <2>2
  <1>3. w'.pc \notin Active /\ w'.before <= journal.epoch
    BY <1>0, <1>2 DEF Active, Passing, Beginning, NoEpoch
  <1>4. stream'.epoch <= journal.epoch
    BY <1>0, <1>1 DEF Closed
  <1>5. /\ store'.proof = store.proof /\ store'.cursor = store.cursor
        /\ \A p \in Under(Selected) : store'.rows[p] = store.rows[p]
    BY <1>1
  <1>6. QED
    BY <1>1, <1>2, <1>3, <1>4, <1>5, InactiveStays

\* The worker before its decision and after its end.
LEMMA ResumeByEnd ==
    ASSUME ResumeInv, StopInv', Prune \/ StepFails \/ StopWatching \/ Exit \/ Restart
    PROVE  ResumeInv'
  <1>0. /\ w \in Workers /\ journal.epoch \in Nat /\ TypeOK
        /\ w.pc # "none" => w.roots \in RootSets
        /\ w.before <= journal.epoch /\ stream.epoch <= journal.epoch
        /\ w.pc = "prune" => w.events = {} /\ w.pending = {}
    BY DEF ResumeInv, StopInv, TypeOK, Threads, Epochs, Phases
  <1>1. UNCHANGED <<log, journal, store>> /\ stream' \in {stream, Closed}
    BY DEF Prune, StepFails, StopWatching, Exit, Restart, Quiet, WorkerOnly
  <1>2. stream'.epoch <= journal.epoch
    BY <1>0, <1>1 DEF Closed
  <1>3. /\ w'.pc \in {"over", "decide", "none", "prune"} /\ w'.before <= journal.epoch
        /\ w'.pc \in {"prune", "decide"} => w'.events = {} /\ w'.pending = {}
    <2>1. CASE Prune
      <3>1. PICK c \in {"over", "decide"} : w' = [w EXCEPT !.pc = c] /\ w.pc = "prune"
        BY <2>1 DEF Prune
      <3>2. c \in WorkerSteps
        BY DEF WorkerSteps
      <3>3. QED
        BY <1>0, <3>1, <3>2, PcFields
    <2>2. CASE StepFails \/ StopWatching \/ (Restart /\ stop)
      <3>1. w' = [w EXCEPT !.pc = "over"]
        BY <2>2 DEF StepFails, StopWatching, Restart
      <3>2. "over" \in WorkerSteps
        BY DEF WorkerSteps
      <3>3. QED
        BY <1>0, <3>1, <3>2, PcFields
    <2>3. CASE Exit
      BY <1>0, <2>3, NoWorkerTyped DEF Exit, NoEpoch
    <2>4. CASE Restart /\ ~stop
      <3>1. w' = Worker(w.roots, w.watch, w.resume) /\ w.pc = "restart"
        BY <2>4 DEF Restart
      <3>2. w.roots \in RootSets /\ w.watch \in BOOLEAN /\ w.resume \in BOOLEAN
        BY <1>0, <3>1 DEF Workers
      <3>3. PICK n : n = Worker(w.roots, w.watch, w.resume)
        OBVIOUS
      <3>4. n.pc = "prune" /\ n.pending = {} /\ n.events = {} /\ n.before = NoEpoch
        BY <3>2, <3>3, WorkerTyped
      <3>5. QED
        BY <1>0, <3>1, <3>3, <3>4 DEF NoEpoch
    <2>5. QED
      BY <2>1, <2>2, <2>3, <2>4
  <1>4. w'.pc \notin Active
    BY <1>3 DEF Active, Passing, Beginning
  <1>5. /\ store'.proof = store.proof /\ store'.cursor = store.cursor
        /\ \A p \in Under(Selected) : store'.rows[p] = store.rows[p]
    BY <1>1
  <1>6. QED
    BY <1>1, <1>2, <1>3, <1>4, <1>5, InactiveStays
-----------------------------------------------------------------------------
\* A pass under way

\* The identifiers and the trace of a step that leaves the stream, the events
\* and the pass's cursor alone.
LEMMA SameTrace ==
    ASSUME UNCHANGED <<log, journal, stream>>, NEW n, w' = n,
           n.watch = w.watch, n.before = w.before, n.pending = w.pending, n.events = w.events,
           n.pass.event_id = w.pass.event_id, store'.proof = store.proof
    PROVE  /\ Proven' <=> Proven
           /\ Tracked' <=> Tracked
           /\ Anchored' <=> Anchored
           /\ \A v, p : Traced(v, p)' <=> Traced(v, p)
           /\ \A v, p : Settled(v, p)' <=> Settled(v, p)
           /\ \A e, p : Marks(e, p)' <=> Marks(e, p)
  <1>1. (Proven' <=> Proven) /\ (Tracked' <=> Tracked)
    BY DEF Proven, Tracked
  <1>2. Anchored' <=> Anchored
    BY <1>1 DEF Anchored
  <1>3. \A v, p : (Fresh(v, p, stream.at)' <=> Fresh(v, p, stream.at)) /\ (Marks(v, p)' <=> Marks(v, p))
    BY DEF Fresh, Metadata, Present, Version, Marks
  <1>4. \A v, p : Traced(v, p)' <=> Traced(v, p)
    BY <1>3 DEF Traced
  <1>5. \A v, p : Settled(v, p)' <=> Settled(v, p)
    <2>1. Ids' = Ids
      BY DEF Ids
    <2>2. \A v, p, id : Fresh(v, p, Position(id))' <=> Fresh(v, p, Position(id))
      BY DEF Fresh, Metadata, Present, Version, Position
    <2>3. QED
      BY <2>1, <2>2 DEF Settled
  <1>6. QED
    BY <1>1, <1>2, <1>3, <1>4, <1>5

\* In a pass of this epoch the persisted cursor does not lie ahead of the one
\* the pass will store.
LEMMA CursorBehindPass ==
    ASSUME ResumeInv, w.pc \in Passing, Proven \/ (~w.pass.initial /\ Anchored)
    PROVE  /\ Anchored /\ store.cursor \in Nat /\ w.pass.event_id \in 1 .. current_event_id
           /\ store.cursor <= w.pass.event_id /\ current_event_id \in Nat
  <1>0. w.pc \in Active
    BY DEF Active
  <1>1. Anchored
    BY <1>0 DEF ResumeInv, Phases, Anchored
  <1>2. w.pass.event_id \in 1 .. current_event_id
    BY <1>0, <1>1 DEF ResumeInv, Identifiers
  <1>3. /\ store.cursor \in Nat /\ Len(log) \in Nat /\ journal.base \in Nat
        /\ journal.base <= Len(log)
    BY DEF ResumeInv, StopInv, TypeOK, Stores, Numbering
  <1>4. current_event_id \in Nat
    BY <1>3 DEF current_event_id
  <1>5. CASE w.events = {}
    BY <1>0, <1>1, <1>2, <1>3, <1>4, <1>5 DEF ResumeInv, Identifiers
  <1>6. CASE w.events # {}
    <2>1. w.pass.event_id = store.cursor
      BY <1>0, <1>6 DEF ResumeInv, Phases
    <2>2. QED
      BY <1>1, <1>2, <1>3, <1>4, <2>1
  <1>7. QED
    BY <1>5, <1>6

\* What is settled is current up to the cursor the pass will store.
LEMMA SettledAtPass ==
    ASSUME NEW v, NEW p, Settled(v, p)
    PROVE  Fresh(v, p, Position(w.pass.event_id))
  BY DEF Settled, Ids

LEMMA PositionsOrdered ==
    ASSUME TypeOK, NEW a \in Nat, NEW b \in Nat, a <= b
    PROVE  Position(a) \in Int /\ Position(b) \in Int /\ Position(a) <= Position(b)
  BY DEF Position, TypeOK

\* A step inside a pass.  The rows it writes are values the pass has read.
LEMMA PassGoesOn ==
    ASSUME ResumeInv, StopInv', UNCHANGED <<log, journal, stream>>,
           w.pc \in Passing, NEW n \in Workers, w' = n, n.pc \in Passing \ {"clear"},
           n.watch = w.watch, n.before = w.before, n.pending = w.pending, n.events = w.events,
           n.metadata = w.metadata,
           n.pass.event_id = w.pass.event_id, n.pass.initial = w.pass.initial,
           n.pass.recursive = w.pass.recursive, n.pass.scopes = w.pass.scopes,
           store'.proof = store.proof, store'.cursor = store.cursor,
           \A p \in Under(Selected) :
             \/ store'.rows[p] = store.rows[p]
             \/ Anchored => /\ Settled(store'.rows[p], p)
                            /\ w.watch => Traced(store'.rows[p], p),
           n.pc \in {"retry", "again"} => n.events = {},
           n.pc \in Beginning => n.pass.todo = {} /\ n.pass.batch = << >> /\ n.pass.seen = {}
                                 /\ n.pass.broken = "no",
           n.pc = "finish" => n.pass.todo = {} /\ n.pass.batch = << >> /\ n.pass.broken = "no",
           PassIsExact'
    PROVE  ResumeInv'
  <1>0. w.pc \in Active /\ n.pc \in Active /\ TypeOK
    BY DEF Active, ResumeInv, StopInv
  <1>1. /\ Proven' <=> Proven
        /\ Tracked' <=> Tracked
        /\ Anchored' <=> Anchored
    BY SameTrace
  <1>2. /\ \A v, p : Traced(v, p)' <=> Traced(v, p)
        /\ \A v, p : Settled(v, p)' <=> Settled(v, p)
        /\ \A e, p : Marks(e, p)' <=> Marks(e, p)
    BY SameTrace
  <1>3. Epochs'
    BY DEF Epochs, ResumeInv
  <1>4. Phases'
    <2>1. n.pc \notin {"prune", "decide", "checkpoint", "watch", "plan", "clear", "acknowledge"}
      BY DEF Passing, Beginning
    <2>2. Phases
      BY DEF ResumeInv
    <2>3. n.events # {} =>
            n.pending = {} /\ n.watch /\ ~n.pass.initial /\ n.pass.event_id = store'.cursor
      BY <1>0, <2>2 DEF Phases
    <2>4. /\ n.events = {} => n.pass.scopes = Selected /\ n.pass.recursive
          /\ ~n.pass.recursive => n.pass.scopes \subseteq Dirs
          /\ n.watch /\ (Proven \/ w.before = journal.epoch) => Tracked
      BY <1>0, <2>2 DEF Phases
    <2>5. QED
      BY <1>1, <2>1, <2>3, <2>4 DEF Phases
  <1>5. Identifiers'
    <2>1. Identifiers
      BY DEF ResumeInv
    <2>2. QED
      BY <1>0, <1>1, <2>1 DEF Identifiers, current_event_id, Position
  <1>6. CursorIsSound'
    <2> SUFFICES ASSUME Proven \/ (~w.pass.initial /\ Anchored)
                 PROVE  /\ store'.cursor \in 1 .. current_event_id'
                        /\ \A p \in Under(Selected) : Fresh(store.rows[p], p, Position(store.cursor))'
      BY <1>1 DEF CursorIsSound, Under
    <2>1. /\ store.cursor \in 1 .. current_event_id
          /\ \A p \in Under(Selected) : Fresh(store.rows[p], p, Position(store.cursor))
      BY <1>0 DEF CursorIsSound, ResumeInv
    <2>2. /\ Anchored /\ store.cursor \in Nat /\ w.pass.event_id \in Nat
          /\ store.cursor <= w.pass.event_id
      BY CursorBehindPass
    <2>3. ASSUME NEW p \in Under(Selected) PROVE Fresh(store.rows[p], p, Position(store.cursor))'
      <3>1. PICK v, c : v = store'.rows[p] /\ c = Position(store.cursor)
        OBVIOUS
      <3>2. Fresh(v, p, c)
        <4>1. CASE v = store.rows[p]
          BY <2>1, <3>1, <4>1
        <4>2. CASE v # store.rows[p]
          <5>1. Settled(v, p)
            BY <2>2, <3>1, <4>2
          <5>2. Fresh(v, p, Position(w.pass.event_id))
            BY <5>1, SettledAtPass
          <5>3. /\ Position(store.cursor) \in Int /\ Position(w.pass.event_id) \in Int
                /\ Position(store.cursor) <= Position(w.pass.event_id)
            BY <1>0, <2>2, PositionsOrdered
          <5>4. QED
            BY <1>0, <3>1, <5>2, <5>3, FreshWeaker
        <4>3. QED
          BY <4>1, <4>2
      <3>3. Fresh(v, p, c)'
        BY <3>2, FreshSame
      <3>4. Position(store.cursor)' = c
        BY <3>1 DEF Position
      <3>5. QED
        BY <3>1, <3>3, <3>4 DEF Fresh
    <2>4. store'.cursor \in 1 .. current_event_id'
      BY <2>1 DEF current_event_id
    <2>5. QED
      BY <2>3, <2>4
  <1>7. RowsAreTraced'
    <2> SUFFICES ASSUME ~w.pass.initial, w.watch, Tracked, NEW p \in Under(Selected)
                 PROVE  Traced(store.rows[p], p)' \/ \E e \in w.events : Marks(e, p)
      BY <1>1, <1>2 DEF RowsAreTraced, Under
    <2>1. PICK v : v = store'.rows[p]
      OBVIOUS
    <2>2. Anchored
      BY DEF Anchored
    <2>3. Traced(v, p) \/ \E e \in w.events : Marks(e, p)
      BY <1>0, <2>1, <2>2 DEF RowsAreTraced, ResumeInv
    <2>4. Traced(v, p)' \/ \E e \in w.events : Marks(e, p)
      BY <1>2, <2>3
    <2>5. QED
      BY <2>1, <2>4 DEF Traced
  <1>8. DrainIsComplete'
    <2> SUFFICES ASSUME w.events # {}, Tracked, NEW p \in Under(Selected)
                 PROVE  \/ Outstanding(p)'
                        \/ Settled(store.rows[p], p)' /\ Traced(store.rows[p], p)'
      BY <1>1 DEF DrainIsComplete, Under
    <2>1. PICK v : v = store'.rows[p]
      OBVIOUS
    <2>2. w.watch
      BY <1>0 DEF ResumeInv, Phases
    <2>3. Anchored
      BY <2>2 DEF Anchored
    <2>4. Outstanding(p) \/ (Settled(v, p) /\ Traced(v, p))
      BY <1>0, <2>1, <2>2, <2>3 DEF DrainIsComplete, ResumeInv
    <2>5. Outstanding(p) => Outstanding(p)'
      BY DEF Outstanding, Scope, Under, Passing, Beginning
    <2>6. Outstanding(p)' \/ (Settled(v, p)' /\ Traced(v, p)')
      BY <1>2, <2>4, <2>5
    <2>7. QED
      BY <2>1, <2>6 DEF Traced, Settled
  <1>9. QED
    BY <1>3, <1>4, <1>5, <1>6, <1>7, <1>8 DEF ResumeInv
\* A worker that ends leaves the store as it is.
LEMMA WorkerEnds ==
    ASSUME ResumeInv, StopInv', UNCHANGED <<log, journal, stream, store>>,
           NEW n, w' = n, n.pc = "over", n.before = w.before
    PROVE  ResumeInv'
  <1>1. w'.pc \notin Active /\ w'.pc \notin {"prune", "decide"}
    BY DEF Active, Passing, Beginning
  <1>2. w'.before <= journal.epoch /\ stream'.epoch <= journal.epoch
    BY DEF ResumeInv, Epochs
  <1>3. /\ store'.proof = store.proof /\ store'.cursor = store.cursor
        /\ \A p \in Under(Selected) : store'.rows[p] = store.rows[p]
    OBVIOUS
  <1>4. QED
    BY <1>1, <1>2, <1>3, InactiveStays

\* A pass that does not complete gives the events of its drain back.
LEMMA EventsGivenBack ==
    ASSUME ResumeInv, StopInv', UNCHANGED <<log, journal, stream, store>>,
           w.pc \in Passing, w.events # {}, NEW n \in Workers, w' = n, n.pc = "watch",
           n.watch = w.watch, n.before = w.before, n.events = {}, n.pass = NoPass,
           n.pending \in {w.events, w.events \cup {Control("done")}}
    PROVE  ResumeInv'
  <1>0. w.pc \in Active /\ n.pc \in Active /\ n.pc \notin Passing
    BY DEF Active, Passing, Beginning
  <1>1. w.watch /\ w.pending = {} /\ ~w.pass.initial
    BY <1>0 DEF ResumeInv, Phases
  <1>2. ~n.pass.initial
    BY DEF NoPass
  <1>3. /\ Proven' <=> Proven
        /\ Tracked' <=> Tracked
    BY DEF Proven, Tracked
  <1>4. Anchored' <=> Anchored
    BY <1>3 DEF Anchored
  <1>5. Epochs'
    BY DEF Epochs, ResumeInv
  <1>6. Phases'
    <2>1. Proven \/ w.before = journal.epoch => Tracked
      BY <1>0, <1>1 DEF ResumeInv, Phases
    <2>2. n.pc \notin Passing /\ n.pc \notin Beginning
      BY <1>0 DEF Passing
    <2>3. QED
      BY <1>1, <1>2, <1>3, <2>1, <2>2 DEF Phases
  <1>7. Identifiers'
    <2> SUFFICES ASSUME Anchored
                 PROVE  /\ journal.base <= stream.at
                        /\ \A e \in stream.queue \cup n.pending : Position(e.id)' <= stream.at
      BY <1>0, <1>4 DEF Identifiers
    <2>1. /\ journal.base <= stream.at
          /\ \A e \in stream.queue \cup w.pending \cup w.events : Position(e.id) <= stream.at
      BY <1>0, <1>1 DEF ResumeInv, Identifiers
    <2>2. journal.base \in Nat /\ stream.at \in Nat
      BY DEF ResumeInv, StopInv, TypeOK, StreamStates
    <2>3. Position(Control("done").id) <= stream.at
      BY <2>1, <2>2, ControlTyped DEF Position
    <2>4. QED
      BY <2>1, <2>3 DEF Position
  <1>8. PassIsExact'
    BY DEF PassIsExact
  <1>9. CursorIsSound'
    BY <1>0, <1>1, <1>3, <1>4, CursorStays DEF ResumeInv
  <1>10. RowsAreTraced'
    <2> SUFFICES ASSUME Tracked, NEW p \in Under(Selected)
                 PROVE  Traced(store.rows[p], p)'
      BY <1>3 DEF RowsAreTraced, Under
    <2>1. PICK v : v = store.rows[p]
      OBVIOUS
    <2>2. Traced(v, p) \/ \E e \in w.events : Marks(e, p)
      BY <1>0, <1>1, <2>1 DEF RowsAreTraced, ResumeInv
    <2>3. CASE Traced(v, p)
      <3>1. Traced(v, p)'
        BY <1>1, <2>3, TracedStays
      <3>2. QED
        BY <2>1, <3>1 DEF Traced
    <2>4. CASE \E e \in w.events : Marks(e, p)
      BY <2>4 DEF Traced, Marks
    <2>5. QED
      BY <2>2, <2>3, <2>4
  <1>11. DrainIsComplete'
    BY DEF DrainIsComplete
  <1>12. QED
    BY <1>5, <1>6, <1>7, <1>8, <1>9, <1>10, <1>11 DEF ResumeInv

\* A pass is cancelled: a baseline ends the worker, a drain gives its events back.
LEMMA ResumeByCancelled ==
    ASSUME ResumeInv, StopInv', UNCHANGED <<log, journal, stream, store>>, w.pc \in Passing,
           w' = Outcome("cancelled", NoPass)
    PROVE  ResumeInv'
  <1>0. TypeOK /\ NoPass \in Passes
    BY NoPassTyped DEF ResumeInv, StopInv
  <1>1. PICK n : n = Outcome("cancelled", NoPass)
    OBVIOUS
  <1>2. n.watch = w.watch /\ n.before = w.before
    BY <1>0, <1>1, OutcomeKeeps
  <1>3. CASE w.events = {}
    <2>1. n.pc = "over"
      BY <1>0, <1>1, <1>3, OutcomeFields
    <2>2. QED
      BY <1>1, <1>2, <2>1, WorkerEnds
  <1>4. CASE w.events # {}
    <2>1. /\ n \in Workers /\ n.pc = "watch" /\ n.events = {} /\ n.pass = NoPass
          /\ n.pending \in {w.events, w.events \cup {Control("done")}}
      BY <1>0, <1>1, <1>4, OutcomeFields
    <2>2. w' = n
      BY <1>1
    <2>3. QED
      BY <1>2, <1>4, <2>1, <2>2, EventsGivenBack
  <1>5. QED
    BY <1>3, <1>4

LEMMA ResumeByEnter ==
    ASSUME ResumeInv, StopInv', EnterPass
    PROVE  ResumeInv'
  <1>0. TypeOK /\ w.pc = "enter" /\ w.pc \in Passing /\ w.pc \in Beginning
        /\ UNCHANGED <<log, journal, stream, store>>
    BY DEF ResumeInv, StopInv, EnterPass, Passing, Beginning, Quiet, WorkerOnly
  <1>1. CASE stop
    <2>1. w' = Outcome("cancelled", NoPass)
      BY <1>1 DEF EnterPass
    <2>2. QED
      BY <1>0, <2>1, ResumeByCancelled
  <1>2. CASE ~stop
    <2>1. PICK q \in Passes :
             /\ w' = [w EXCEPT !.pc = "scan", !.pass = q] /\ w'.pass = q
             /\ q.initial = w.pass.initial /\ q.recursive = w.pass.recursive
             /\ q.scopes = w.pass.scopes /\ q.event_id = w.pass.event_id
             /\ q.todo = Scope /\ q.batch = w.pass.batch /\ q.seen = w.pass.seen
             /\ q.broken = w.pass.broken
      BY <1>0, <1>2, EnterFields
    <2>2. PICK n : n = w'
      OBVIOUS
    <2>3. "scan" \in Passing \ {"clear"}
      BY DEF Passing
    <2>4. /\ n \in Workers /\ n.pc = "scan" /\ n.watch = w.watch
          /\ n.before = w.before /\ n.pass = q /\ n.metadata = w.metadata
          /\ n.events = w.events /\ n.pending = w.pending
      BY <1>0, <2>1, <2>2, PassFields
    <2>5. w' = n
      BY <2>2
    <2>6. w.pass.batch = << >> /\ w.pass.seen = {}
      BY <1>0 DEF ResumeInv, Phases
    <2>7. PassIsExact'
      <3>1. Scope' = Scope
        BY <2>1, <2>4, <2>5 DEF Scope, Under
      <3>2. DOMAIN q.batch = {} /\ q.seen = {}
        BY <2>1, <2>6
      <3>3. QED
        BY <2>1, <3>1, <3>2 DEF PassIsExact
    <2>8. n.pc \notin Beginning
      BY <2>4 DEF Beginning
    <2>9. UNCHANGED <<log, journal, stream>> /\ store'.proof = store.proof
          /\ store'.cursor = store.cursor /\ store'.rows = store.rows
      BY <1>0
    <2>10. QED
      BY <1>0, <2>1, <2>3, <2>4, <2>5, <2>7, <2>8, <2>9, PassGoesOn
  <1>3. QED
    BY <1>1, <1>2

\* reconcile_baseline tries again; a drain's pass begins with a fresh token.
LEMMA ResumeByClear ==
    ASSUME ResumeInv, StopInv', RetryBaseline \/ ClearRetry \/ ClearCancel
    PROVE  ResumeInv'
  <1>0. TypeOK /\ UNCHANGED <<log, journal, stream, store>>
    BY DEF ResumeInv, StopInv, RetryBaseline, ClearRetry, ClearCancel, Quiet, WorkerOnly
  <1>1. PICK c \in {"over", "again", "enter"} :
          /\ w' = [w EXCEPT !.pc = c] /\ w.pc \in {"retry", "again", "clear"}
          /\ c = "again" => w.pc = "retry"
    BY DEF RetryBaseline, ClearRetry, ClearCancel
  <1>2. PICK n : n = [w EXCEPT !.pc = c]
    OBVIOUS
  <1>3. c \in WorkerSteps
    BY DEF WorkerSteps, Active, Passing, Beginning
  <1>4. /\ n \in Workers /\ n.pc = c /\ n.watch = w.watch
        /\ n.before = w.before /\ n.pass = w.pass /\ n.metadata = w.metadata
        /\ n.events = w.events /\ n.pending = w.pending /\ w' = n
    BY <1>0, <1>1, <1>2, <1>3, PcFields
  <1>5. CASE c = "over"
    BY <1>0, <1>4, <1>5, WorkerEnds
  <1>6. CASE c # "over"
    <2>1. w.pc \in Beginning /\ w.pc \in Passing
      BY <1>1 DEF Passing, Beginning
    <2>2. /\ w.pass.todo = {} /\ w.pass.batch = << >> /\ w.pass.seen = {} /\ w.pass.broken = "no"
          /\ c = "again" => w.events = {}
      BY <1>1, <2>1 DEF ResumeInv, Phases
    <2>3. n.pc \in Passing \ {"clear"} /\ n.pc \notin {"scan", "finish"}
      BY <1>4, <1>6 DEF Passing, Beginning
    <2>4. PassIsExact'
      BY <1>4, <2>3 DEF PassIsExact
    <2>5. UNCHANGED <<log, journal, stream>> /\ store'.proof = store.proof
          /\ store'.cursor = store.cursor /\ store'.rows = store.rows
      BY <1>0
    <2>6. n.pc \in {"retry", "again"} => n.events = {}
      BY <1>4, <1>6, <2>2
    <2>7. n.pc # "finish"
      BY <2>3
    <2>8. QED
      BY <1>4, <2>1, <2>2, <2>3, <2>4, <2>5, <2>6, <2>7, PassGoesOn
  <1>7. QED
    BY <1>5, <1>6
\* An entry is read: what the pass knows of it is its present metadata.
LEMMA ResumeByEntry ==
    ASSUME ResumeInv, StopInv', ScanEntry
    PROVE  ResumeInv'
  <1>0. TypeOK
    BY DEF ResumeInv, StopInv
  <1>1. PICK x \in w.pass.todo, q \in Passes :
             /\ w' = [w EXCEPT !.pc = "scan", !.pass = q] /\ w.pc = "scan"
             /\ UNCHANGED <<log, journal, store, stream>>
             /\ q.initial = w.pass.initial /\ q.recursive = w.pass.recursive
             /\ q.scopes = w.pass.scopes /\ q.event_id = w.pass.event_id
             /\ q.todo = w.pass.todo \ {x} /\ q.seen = w.pass.seen /\ q.broken = w.pass.broken
             /\ q.batch = IF Present(x)
                            THEN [y \in DOMAIN w.pass.batch \cup {x} |->
                                    IF y = x THEN Version(x) ELSE w.pass.batch[y]]
                            ELSE w.pass.batch
    BY <1>0, EntryFields
  <1>2. PICK n : n = w'
    OBVIOUS
  <1>3. "scan" \in Passing \ {"clear"} /\ "scan" \notin Beginning
    BY DEF Passing, Beginning
  <1>4. /\ n \in Workers /\ n.pc = "scan" /\ n.watch = w.watch
        /\ n.before = w.before /\ n.pass = q /\ n.metadata = w.metadata
        /\ n.events = w.events /\ n.pending = w.pending
    BY <1>0, <1>1, <1>2, PassFields
  <1>5. w' = n
    BY <1>2
  <1>6. UNCHANGED <<log, journal, stream>> /\ store'.proof = store.proof
        /\ store'.cursor = store.cursor /\ store'.rows = store.rows
    BY <1>1
  <1>7. PassIsExact'
    <2> SUFFICES ASSUME q.broken = "no" PROVE PassIsExact'
      BY <1>4, <1>5 DEF PassIsExact
    <2>1. Scope' = Scope
      BY <1>1, <1>4, <1>5, SMTT(40) DEF Scope, Under
    <2>2. /\ w.pass.todo \cup DOMAIN w.pass.batch \cup w.pass.seen \subseteq Scope
          /\ w.pass.todo \cap (DOMAIN w.pass.batch \cup w.pass.seen) = {}
          /\ ~w.pass.recursive =>
               Scope \subseteq w.pass.todo \cup DOMAIN w.pass.batch \cup w.pass.seen
          /\ Anchored => \A p \in (Scope \cap Under(Selected)) \ w.pass.todo :
                     Settled(Read(p), p) /\ (w.watch => Traced(Read(p), p))
      BY <1>1 DEF ResumeInv, PassIsExact
    <2>3. DOMAIN q.batch = IF Present(x) THEN DOMAIN w.pass.batch \cup {x} ELSE DOMAIN w.pass.batch
      BY <1>1
    <2>4. Read(x)' = Metadata(x)
      <3>1. Metadata(x) = IF Present(x) THEN Version(x) ELSE None
        BY DEF Metadata
      <3>2. x \notin DOMAIN w.pass.batch /\ x \notin w.pass.seen
        BY <1>1, <2>2
      <3>3. CASE Present(x)
        <4>1. x \in DOMAIN q.batch /\ q.batch[x] = Version(x)
          BY <1>1, <2>3, <3>3
        <4>2. QED
          BY <1>4, <1>5, <3>1, <3>3, <4>1 DEF Read
      <3>4. CASE ~Present(x)
        <4>1. x \notin DOMAIN q.batch /\ x \notin q.seen
          BY <1>1, <2>3, <3>2, <3>4
        <4>2. QED
          BY <1>4, <1>5, <3>1, <3>4, <4>1 DEF Read, None
      <3>5. QED
        BY <3>3, <3>4
    <2>5. \A p : p # x => Read(p)' = Read(p)
      <3> SUFFICES ASSUME NEW p, p # x PROVE Read(p)' = Read(p)
        OBVIOUS
      <3>1. p \in DOMAIN q.batch <=> p \in DOMAIN w.pass.batch
        BY <2>3
      <3>2. p \in DOMAIN w.pass.batch => q.batch[p] = w.pass.batch[p]
        BY <1>1
      <3>3. QED
        BY <1>1, <1>4, <1>5, <3>1, <3>2 DEF Read, None
    <2>6. /\ Anchored' <=> Anchored
          /\ \A v, p : Traced(v, p)' <=> Traced(v, p)
          /\ \A v, p : Settled(v, p)' <=> Settled(v, p)
      BY <1>1, <1>4, <1>5, <1>6, SameTrace
    <2>7. ASSUME Anchored', NEW p \in (Scope \cap Under(Selected)) \ q.todo
          PROVE  Settled(Read(p), p)' /\ (w.watch => Traced(Read(p), p)')
      <3>1. PICK v : v = Read(p)'
        OBVIOUS
      <3>2. Settled(v, p) /\ (w.watch => Traced(v, p))
        <4>1. CASE p = x
          <5>1. v = Metadata(p)
            BY <2>4, <3>1, <4>1
          <5>2. QED
            BY <5>1 DEF Settled, Traced, Fresh
        <4>2. CASE p # x
          <5>1. v = Read(p) /\ p \in (Scope \cap Under(Selected)) \ w.pass.todo
            BY <1>1, <2>5, <2>7, <3>1, <4>2
          <5>2. QED
            BY <2>2, <2>6, <2>7, <5>1
        <4>3. QED
          BY <4>1, <4>2
      <3>3. Settled(v, p)' /\ (w.watch => Traced(v, p)')
        BY <2>6, <3>2
      <3>4. QED
        BY <3>1, <3>3 DEF Settled, Traced
    <2>8. /\ q.todo \cup DOMAIN q.batch \cup q.seen \subseteq Scope
          /\ q.todo \cap (DOMAIN q.batch \cup q.seen) = {}
          /\ ~q.recursive => Scope \subseteq q.todo \cup DOMAIN q.batch \cup q.seen
      <3>1. ~w.pass.recursive => Present(x)
        <4>1. w.pc \in Passing
          BY <1>1, <1>3
        <4>2. ~w.pass.recursive => x \in Dirs
          BY <1>1, <2>2, <4>1 DEF ResumeInv, Phases, Scope
        <4>3. \A i \in DOMAIN log : log[i].path \in Dirs => log[i].op = "touch"
          BY DEF ResumeInv, StopInv, Numbering
        <4>4. QED
          BY <4>2, <4>3 DEF Present
      <3>2. QED
        BY <1>1, <2>2, <2>3, <3>1
    <2>9. QED
      BY <1>4, <1>5, <2>1, <2>7, <2>8 DEF PassIsExact, Under
  <1>8. QED
    BY <1>1, <1>3, <1>4, <1>5, <1>6, <1>7, PassGoesOn
\* A batch commits values the pass has read, or the pass can no longer succeed.
LEMMA ResumeByBatch ==
    ASSUME OneSelection, ResumeInv, StopInv', CommitBatch
    PROVE  ResumeInv'
  <1>0. TypeOK
    BY DEF ResumeInv, StopInv
  <1>1. PICK q \in Passes :
             /\ w' = [w EXCEPT !.pc = "scan", !.pass = q] /\ w.pc = "scan"
             /\ UNCHANGED <<log, journal, stream>>
             /\ q.initial = w.pass.initial /\ q.recursive = w.pass.recursive
             /\ q.scopes = w.pass.scopes /\ q.event_id = w.pass.event_id
             /\ q.todo = w.pass.todo /\ q.batch = << >>
             /\ w.pass.batch \in Batches
             /\ \/ /\ q.broken # "no" /\ store' \in {store, Committed(w.pass.batch)}
                   /\ store' # store => w.pass.broken = "no"
                \/ /\ q.broken = "no" /\ w.pass.broken = "no" /\ store' = Committed(w.pass.batch)
                   /\ q.seen = w.pass.seen \cup DOMAIN w.pass.batch
    BY <1>0, BatchFields
  <1>2. PICK n : n = w'
    OBVIOUS
  <1>3. "scan" \in Passing \ {"clear"} /\ "scan" \notin Beginning
    BY DEF Passing, Beginning
  <1>4. /\ n \in Workers /\ n.pc = "scan" /\ n.watch = w.watch
        /\ n.before = w.before /\ n.pass = q /\ n.metadata = w.metadata
        /\ n.events = w.events /\ n.pending = w.pending
    BY <1>0, <1>1, <1>2, PassFields
  <1>5. w' = n
    BY <1>2
  <1>6. PICK b \in Batches : b = w.pass.batch
    BY <1>1
  <1>7. /\ Committed(b).rows = [p \in Paths |-> IF p \in DOMAIN b THEN b[p] ELSE store.rows[p]]
        /\ Committed(b).cursor = store.cursor /\ Committed(b).proof = store.proof
    BY <1>0, CommittedTyped
  <1>8. store'.proof = store.proof /\ store'.cursor = store.cursor
    BY <1>1, <1>6, <1>7
  <1>9. Under(Selected) \subseteq Paths
    BY OneRoot, RootsArePaths, UnderPaths
  <1>10. w.pass.broken = "no" =>
          /\ w.pass.todo \cup DOMAIN b \cup w.pass.seen \subseteq Scope
          /\ w.pass.todo \cap (DOMAIN b \cup w.pass.seen) = {}
          /\ ~w.pass.recursive => Scope \subseteq w.pass.todo \cup DOMAIN b \cup w.pass.seen
          /\ Anchored => \A p \in (Scope \cap Under(Selected)) \ w.pass.todo :
                     Settled(Read(p), p) /\ (w.watch => Traced(Read(p), p))
    BY <1>1, <1>6 DEF ResumeInv, PassIsExact
  <1>11. \A p \in Under(Selected) :
             \/ store'.rows[p] = store.rows[p]
             \/ Anchored => /\ Settled(store'.rows[p], p)
                            /\ w.watch => Traced(store'.rows[p], p)
    <2> SUFFICES ASSUME NEW p \in Under(Selected), store'.rows[p] # store.rows[p], Anchored
                 PROVE  Settled(store'.rows[p], p) /\ (w.watch => Traced(store'.rows[p], p))
      OBVIOUS
    <2>1. store' = Committed(b) /\ w.pass.broken = "no"
      BY <1>1, <1>6
    <2>2. p \in DOMAIN b /\ store'.rows[p] = b[p]
      BY <1>7, <1>9, <2>1
    <2>3. Read(p) = b[p]
      BY <1>6, <2>2 DEF Read
    <2>4. p \in (Scope \cap Under(Selected)) \ w.pass.todo
      BY <1>10, <2>1, <2>2
    <2>5. Settled(b[p], p) /\ (w.watch => Traced(b[p], p))
      BY <1>10, <2>1, <2>3, <2>4
    <2>6. QED
      BY <2>2, <2>5
  <1>12. PassIsExact'
    <2> SUFFICES ASSUME q.broken = "no" PROVE PassIsExact'
      BY <1>4, <1>5 DEF PassIsExact
    <2>1. /\ w.pass.broken = "no" /\ store' = Committed(b)
          /\ q.seen = w.pass.seen \cup DOMAIN b /\ DOMAIN q.batch = {}
      BY <1>1, <1>6
    <2>2. Scope' = Scope
      BY <1>1, <1>4, <1>5, ZenonT(40) DEF Scope, Under
    <2>3. \A p \in Under(Selected) : Read(p)' = Read(p)
      <3> SUFFICES ASSUME NEW p \in Under(Selected) PROVE Read(p)' = Read(p)
        BY DEF Under
      <3>1. Read(p)' = IF p \in q.seen THEN store'.rows[p] ELSE None
        BY <1>4, <1>5, <2>1 DEF Read, None
      <3>2. store'.rows[p] = IF p \in DOMAIN b THEN b[p] ELSE store.rows[p]
        BY <1>7, <1>9, <2>1
      <3>3. Read(p) = IF p \in DOMAIN b THEN b[p]
                      ELSE IF p \in w.pass.seen THEN store.rows[p] ELSE None
        BY <1>6 DEF Read
      <3>4. QED
        BY <2>1, <3>1, <3>2, <3>3
    <2>4. /\ Anchored' <=> Anchored
          /\ \A v, p : Traced(v, p)' <=> Traced(v, p)
          /\ \A v, p : Settled(v, p)' <=> Settled(v, p)
      BY <1>1, <1>4, <1>5, <1>8, SameTrace
    <2>5. ASSUME Anchored', NEW p \in (Scope \cap Under(Selected)) \ q.todo
          PROVE  Settled(Read(p), p)' /\ (w.watch => Traced(Read(p), p)')
      <3>1. PICK v : v = Read(p)'
        OBVIOUS
      <3>2. v = Read(p) /\ p \in (Scope \cap Under(Selected)) \ w.pass.todo
        BY <1>1, <2>3, <2>5, <3>1
      <3>3. Settled(v, p) /\ (w.watch => Traced(v, p))
        BY <1>10, <2>1, <2>4, <2>5, <3>2
      <3>4. Settled(v, p)' /\ (w.watch => Traced(v, p)')
        BY <2>4, <3>3
      <3>5. QED
        BY <3>1, <3>4 DEF Settled, Traced
    <2>6. /\ q.todo \cup DOMAIN q.batch \cup q.seen \subseteq Scope
          /\ q.todo \cap (DOMAIN q.batch \cup q.seen) = {}
          /\ ~q.recursive => Scope \subseteq q.todo \cup DOMAIN q.batch \cup q.seen
      BY <1>1, <1>10, <2>1
    <2>7. QED
      BY <1>4, <1>5, <2>2, <2>5, <2>6 DEF PassIsExact, Under
  <1>13. n.pc \in Passing \ {"clear"} /\ n.pc \notin Beginning /\ n.pc # "finish"
         /\ n.pc \notin {"retry", "again"} /\ w.pc \in Passing
    BY <1>1, <1>3, <1>4
  <1>14. QED
    BY <1>1, <1>4, <1>5, <1>8, <1>11, <1>12, <1>13, PassGoesOn

\* The scanner returns.
LEMMA ResumeByEndScan ==
    ASSUME ResumeInv, StopInv', EndScan
    PROVE  ResumeInv'
  <1>0. TypeOK
    BY DEF ResumeInv, StopInv
  <1>1. w.pc = "scan" /\ w.pass.batch = << >> /\ UNCHANGED <<log, journal, stream, store>>
    BY <1>0, EndFields
  <1>2. w.pc \in Passing
    BY <1>1 DEF Passing
  <1>3. CASE w' = [w EXCEPT !.pc = "over"]
    <2>1. PICK n : n = w'
      OBVIOUS
    <2>2. "over" \in WorkerSteps
      BY DEF WorkerSteps
    <2>3. n.pc = "over" /\ n.before = w.before
      BY <1>0, <1>3, <2>1, <2>2, PcFields
    <2>4. QED
      BY <1>1, <2>1, <2>3, WorkerEnds
  <1>4. CASE w' = Outcome("cancelled", NoPass)
    BY <1>1, <1>2, <1>4, ResumeByCancelled
  <1>5. CASE \E q \in Passes :
                   /\ w' = Outcome("retry", q)
                   /\ q.initial = w.pass.initial /\ q.recursive = w.pass.recursive
                   /\ q.scopes = w.pass.scopes /\ q.event_id = w.pass.event_id
                   /\ q.todo = {} /\ q.batch = << >> /\ q.seen = {} /\ q.broken = "no"
    <2>1. PICK q \in Passes :
                   /\ w' = Outcome("retry", q)
                   /\ q.initial = w.pass.initial /\ q.recursive = w.pass.recursive
                   /\ q.scopes = w.pass.scopes /\ q.event_id = w.pass.event_id
                   /\ q.todo = {} /\ q.batch = << >> /\ q.seen = {} /\ q.broken = "no"
      BY <1>5
    <2>2. PICK n : n = Outcome("retry", q)
      OBVIOUS
    <2>3. n.watch = w.watch /\ n.before = w.before /\ w' = n
      BY <1>0, <2>1, <2>2, OutcomeKeeps
    <2>4. CASE w.events = {}
      <3>1. /\ n \in Workers /\ n.pc = "retry" /\ n.pass = q /\ n.events = w.events
            /\ n.pending = w.pending
        BY <1>0, <2>2, <2>4, OutcomeFields
      <3>2. n.metadata = w.metadata
        BY <1>0, <2>2, <2>4 DEF Outcome, Baseline, TypeOK, Workers
      <3>3. n.pc \in Passing \ {"clear"} /\ n.pc \notin {"scan", "finish"}
        BY <3>1 DEF Passing, Beginning
      <3>4. PassIsExact'
        BY <2>3, <3>3 DEF PassIsExact
      <3>5. UNCHANGED <<log, journal, stream>> /\ store'.proof = store.proof
            /\ store'.cursor = store.cursor /\ store'.rows = store.rows
        BY <1>1
      <3>6. n.pc # "finish" /\ n.events = {}
        BY <2>4, <3>1, <3>3
      <3>7. /\ n.pass.event_id = w.pass.event_id /\ n.pass.initial = w.pass.initial
            /\ n.pass.recursive = w.pass.recursive /\ n.pass.scopes = w.pass.scopes
            /\ n.pass.todo = {} /\ n.pass.batch = << >> /\ n.pass.seen = {}
            /\ n.pass.broken = "no"
        BY <2>1, <3>1
      <3>8. QED
        BY <1>2, <2>3, <3>1, <3>2, <3>3, <3>4, <3>5, <3>6, <3>7, PassGoesOn
    <2>5. CASE w.events # {}
      <3>1. /\ n \in Workers /\ n.pc = "watch" /\ n.events = {} /\ n.pass = NoPass
            /\ n.pending \in {w.events, w.events \cup {Control("done")}}
        BY <1>0, <2>2, <2>5, OutcomeFields
      <3>2. QED
        BY <1>1, <1>2, <2>3, <2>5, <3>1, EventsGivenBack
    <2>6. QED
      BY <2>4, <2>5
  <1>6. CASE /\ w' = [w EXCEPT !.pc = "finish"]
             /\ w.pass.todo = {} /\ w.pass.broken = "no"
    <2>1. PICK n : n = w'
      OBVIOUS
    <2>2. "finish" \in WorkerSteps /\ "finish" \in Passing \ {"clear"} /\ "finish" \notin Beginning
      BY DEF WorkerSteps, Active, Passing, Beginning
    <2>3. /\ n \in Workers /\ n.pc = "finish" /\ n.watch = w.watch
          /\ n.before = w.before /\ n.pass = w.pass /\ n.metadata = w.metadata
          /\ n.events = w.events /\ n.pending = w.pending
      BY <1>0, <1>6, <2>1, <2>2, PcFields
    <2>4. w' = n
      BY <2>1
    <2>5. UNCHANGED <<log, journal, stream>> /\ store'.proof = store.proof
          /\ store'.cursor = store.cursor /\ store'.rows = store.rows
      BY <1>1
    <2>6. PassIsExact'
      <3>1. /\ Anchored' <=> Anchored
            /\ \A v, p : Traced(v, p)' <=> Traced(v, p)
            /\ \A v, p : Settled(v, p)' <=> Settled(v, p)
        BY <2>3, <2>4, <2>5, SameTrace
      <3>2. Scope' = Scope /\ Under(Selected)' = Under(Selected)
        BY <2>3, <2>4 DEF Scope, Under
      <3>3. \A p : Read(p)' = Read(p)
        BY <2>3, <2>4, <2>5 DEF Read
      <3>4. PassIsExact
        BY DEF ResumeInv
      <3>5. QED
        BY <1>1, <1>6, <2>3, <2>4, <3>1, <3>2, <3>3, <3>4 DEF PassIsExact
    <2>7. n.pc \notin {"retry", "again"} /\ n.pc \notin Beginning /\ n.pc \in Passing \ {"clear"}
      BY <2>2, <2>3
    <2>8. QED
      BY <1>1, <1>2, <1>6, <2>3, <2>4, <2>5, <2>6, <2>7, PassGoesOn
  <1>7. QED
    BY <1>0, <1>3, <1>4, <1>5, <1>6, EndFields
-----------------------------------------------------------------------------
\* The end of a pass

\* finish_observed leaves in every row of the scope what the pass has read,
\* and the cursor the pass began with is sound for all rows.
LEMMA FinishedRows ==
    ASSUME OneSelection, ResumeInv, FinishPass
    PROVE  /\ \A p \in Under(Selected) \ Scope : store'.rows[p] = store.rows[p]
           /\ Anchored => \A p \in Under(Selected) \cap Scope :
                /\ Settled(store'.rows[p], p)
                /\ w.watch => Traced(store'.rows[p], p)
           /\ Proven \/ (Anchored /\ (w.events = {} \/ ~w.pass.initial)) =>
                /\ store'.cursor \in 1 .. current_event_id
                /\ \A p \in Under(Selected) : Fresh(store'.rows[p], p, Position(store'.cursor))
  <1>0. TypeOK
    BY DEF ResumeInv, StopInv
  <1>1. /\ w.pc = "finish"
        /\ store'.rows =
                [p \in Paths |-> IF w.pass.recursive /\ p \in Under(w.pass.scopes) \ w.pass.seen
                                   THEN None ELSE store.rows[p]]
        /\ store'.cursor = w.pass.event_id
    BY <1>0, FinishFields
  <1>2. /\ w.pc \in Passing /\ w.pc \in Active /\ w.pass.todo = {} /\ w.pass.batch = << >>
        /\ w.pass.broken = "no"
    BY <1>1 DEF Passing, Active, ResumeInv, Phases
  <1>3. Under(Selected) \subseteq Paths
    BY OneRoot, RootsArePaths, UnderPaths
  <1>4. DOMAIN w.pass.batch = {}
    BY <1>2
  <1>5. /\ w.pass.seen \subseteq Scope
        /\ ~w.pass.recursive => Scope \subseteq w.pass.seen
        /\ Anchored => \A p \in Scope \cap Under(Selected) :
                     Settled(Read(p), p) /\ (w.watch => Traced(Read(p), p))
    BY <1>1, <1>2, <1>4 DEF ResumeInv, PassIsExact
  <1>6. \A p \in Under(Selected) \ Scope : store'.rows[p] = store.rows[p]
    BY <1>1, <1>3 DEF Scope
  <1>7. \A p \in Under(Selected) \cap Scope : store'.rows[p] = Read(p)
    <2> SUFFICES ASSUME NEW p \in Under(Selected) \cap Scope PROVE store'.rows[p] = Read(p)
      OBVIOUS
    <2>1. Read(p) = IF p \in w.pass.seen THEN store.rows[p] ELSE None
      BY <1>4 DEF Read
    <2>2. CASE w.pass.recursive
      BY <1>1, <1>3, <2>1, <2>2 DEF Scope
    <2>3. CASE ~w.pass.recursive
      BY <1>1, <1>3, <1>5, <2>1, <2>3
    <2>4. QED
      BY <2>2, <2>3
  <1>8. Anchored => \A p \in Under(Selected) \cap Scope :
          Settled(store'.rows[p], p) /\ (w.watch => Traced(store'.rows[p], p))
    BY <1>5, <1>7
  <1>9. ASSUME Proven \/ (Anchored /\ (w.events = {} \/ ~w.pass.initial))
        PROVE  /\ store'.cursor \in 1 .. current_event_id
               /\ \A p \in Under(Selected) : Fresh(store'.rows[p], p, Position(store'.cursor))
    <2>1. Anchored
      BY <1>2, <1>9 DEF ResumeInv, Phases, Anchored
    <2>2. store'.cursor \in 1 .. current_event_id
      BY <1>1, <1>2, <2>1 DEF ResumeInv, Identifiers
    <2>3. ASSUME NEW p \in Under(Selected)
          PROVE  Fresh(store'.rows[p], p, Position(store'.cursor))
      <3>1. CASE p \in Scope
        BY <1>1, <1>8, <2>1, <2>3, <3>1, SettledAtPass
      <3>2. CASE p \notin Scope
        <4>1. w.events # {}
          BY <1>2, <2>3, <3>2 DEF ResumeInv, Phases, Scope
        <4>2. w.pass.event_id = store.cursor /\ ~w.pass.initial
          BY <1>2, <4>1 DEF ResumeInv, Phases
        <4>3. Fresh(store.rows[p], p, Position(store.cursor))
          BY <1>2, <2>1, <2>3, <4>2 DEF ResumeInv, CursorIsSound
        <4>4. QED
          BY <1>1, <1>6, <2>3, <3>2, <4>2, <4>3
      <3>3. QED
        BY <3>1, <3>2
    <2>4. QED
      BY <2>2, <2>3
  <1>10. QED
    BY <1>6, <1>8, <1>9

LEMMA CursorFinished ==
    ASSUME OneSelection, ResumeInv, FinishPass, NEW n, w' = n,
           n.watch = w.watch, n.before = w.before,
           n.pc \in Active => w.events = {} \/ ~w.pass.initial
    PROVE  CursorIsSound'
  <1>0. TypeOK
    BY DEF ResumeInv, StopInv
  <1>1. UNCHANGED <<log, journal, stream>> /\ store'.proof = store.proof
    BY <1>0, FinishFields
  <1>2. (Proven' <=> Proven) /\ (Tracked' <=> Tracked)
    BY <1>1 DEF Proven, Tracked
  <1>3. Anchored' <=> Anchored
    BY <1>1, <1>2 DEF Anchored
  <1> SUFFICES ASSUME Proven' \/ (n.pc \in Active /\ ~n.pass.initial /\ Anchored')
               PROVE  /\ store'.cursor \in 1 .. current_event_id'
                      /\ \A p \in Under(Selected) : Fresh(store.rows[p], p, Position(store.cursor))'
    BY DEF CursorIsSound, Under
  <1>4. Proven \/ (Anchored /\ (w.events = {} \/ ~w.pass.initial))
    BY <1>2, <1>3
  <1>5. /\ store'.cursor \in 1 .. current_event_id
        /\ \A p \in Under(Selected) : Fresh(store'.rows[p], p, Position(store'.cursor))
    BY <1>4, FinishedRows
  <1>6. store'.cursor \in 1 .. current_event_id'
    BY <1>1, <1>5 DEF current_event_id
  <1>7. ASSUME NEW p \in Under(Selected) PROVE Fresh(store.rows[p], p, Position(store.cursor))'
    <2>1. PICK v, c : v = store'.rows[p] /\ c = Position(store'.cursor)
      OBVIOUS
    <2>2. Fresh(v, p, c)'
      BY <1>1, <1>5, <2>1, FreshSame
    <2>3. Position(store.cursor)' = c
      BY <1>1, <2>1 DEF Position
    <2>4. QED
      BY <2>1, <2>2, <2>3 DEF Fresh
  <1>8. QED
    BY <1>6, <1>7

\* The first pass, or the check of a resumed one, is complete.
LEMMA BaselineCompletes ==
    ASSUME OneSelection, ResumeInv, StopInv', FinishPass, w.events = {}, NEW n \in Workers, w' = n,
           n.watch = w.watch, n.before = w.before, n.events = {}, n.pending = w.pending,
           n.pc = "checkpoint", n.pass = NoPass
    PROVE  ResumeInv'
  <1>0. TypeOK
    BY DEF ResumeInv, StopInv
  <1>1. /\ UNCHANGED <<log, journal, stream>> /\ store'.proof = store.proof /\ w.pc = "finish"
    BY <1>0, FinishFields
  <1>2. (Proven' <=> Proven) /\ (Tracked' <=> Tracked)
    BY <1>1 DEF Proven, Tracked
  <1>3. Anchored' <=> Anchored
    BY <1>1, <1>2 DEF Anchored
  <1>4. /\ w.pc \in Active /\ w.pc \in Passing /\ n.pc \in Active /\ n.pc \notin Passing
        /\ n.pc \notin Beginning /\ ~n.pass.initial
    BY <1>1 DEF Active, Passing, Beginning, NoPass
  <1>5. Epochs'
    BY <1>1 DEF Epochs, ResumeInv
  <1>6. Phases'
    <2>1. w.watch /\ (Proven \/ w.before = journal.epoch) => Tracked
      BY <1>4 DEF ResumeInv, Phases
    <2>2. QED
      BY <1>1, <1>2, <1>4, <2>1 DEF Phases
  <1>7. Identifiers'
    <2>1. Identifiers
      BY DEF ResumeInv
    <2>2. QED
      BY <1>1, <1>3, <1>4, <2>1 DEF Identifiers, Position
  <1>8. PassIsExact' /\ DrainIsComplete'
    BY DEF PassIsExact, DrainIsComplete
  <1>9. CursorIsSound'
    BY CursorFinished
  <1>10. RowsAreTraced'
    <2> SUFFICES ASSUME w.watch, Tracked, NEW p \in Under(Selected)
                 PROVE  Traced(store.rows[p], p)'
      BY <1>2 DEF RowsAreTraced, Under
    <2>1. PICK v : v = store'.rows[p]
      OBVIOUS
    <2>2. p \in Scope /\ Anchored
      BY <1>4 DEF ResumeInv, Phases, Scope, Anchored
    <2>3. Traced(v, p)
      BY <2>1, <2>2, FinishedRows
    <2>4. Traced(v, p)'
      BY <1>1, <2>3, TracedStays
    <2>5. QED
      BY <2>1, <2>4 DEF Traced
  <1>11. QED
    BY <1>5, <1>6, <1>7, <1>8, <1>9, <1>10 DEF ResumeInv

\* A pass of a drain is complete; the directories only touched come next.
LEMMA DrainPassCompletes ==
    ASSUME OneSelection, ResumeInv, StopInv', FinishPass, w.events # {}, NEW n \in Workers, w' = n,
           n.watch = w.watch, n.before = w.before, n.events = w.events, n.pending = w.pending,
           n.metadata = {}, n.pass.event_id = w.pass.event_id, ~n.pass.initial,
           \/ w.metadata = {} /\ n.pc = "acknowledge"
           \/ /\ n.pc = "enter" /\ ~n.pass.recursive /\ n.pass.scopes = w.metadata
              /\ n.pass.todo = {} /\ n.pass.batch = << >> /\ n.pass.seen = {} /\ n.pass.broken = "no"
    PROVE  ResumeInv'
  <1>0. TypeOK /\ w.metadata \subseteq Dirs
    BY DEF ResumeInv, StopInv, TypeOK, Workers
  <1>1. /\ UNCHANGED <<log, journal, stream>> /\ store'.proof = store.proof /\ w.pc = "finish"
        /\ store'.cursor = w.pass.event_id
    BY <1>0, FinishFields
  <1>2. /\ Proven' <=> Proven
        /\ Tracked' <=> Tracked
        /\ Anchored' <=> Anchored
    BY <1>1, SameTrace
  <1>3. /\ \A v, p : Traced(v, p)' <=> Traced(v, p)
        /\ \A v, p : Settled(v, p)' <=> Settled(v, p)
        /\ \A e, p : Marks(e, p)' <=> Marks(e, p)
    BY <1>1, SameTrace
  <1>4. w.pc \in Active /\ w.pc \in Passing /\ n.pc \in Active
    BY <1>1 DEF Active, Passing, Beginning
  <1>5. /\ w.watch /\ w.pending = {} /\ ~w.pass.initial
        /\ Proven \/ w.before = journal.epoch => Tracked
    BY <1>4 DEF ResumeInv, Phases
  <1>6. Epochs'
    BY <1>1 DEF Epochs, ResumeInv
  <1>7. Phases'
    BY <1>0, <1>1, <1>2, <1>5 DEF Phases, Passing, Beginning
  <1>8. Identifiers'
    <2>1. Identifiers
      BY DEF ResumeInv
    <2>2. QED
      BY <1>1, <1>2, <1>4, <2>1 DEF Identifiers, Position, current_event_id
  <1>9. PassIsExact'
    BY DEF PassIsExact
  <1>10. CursorIsSound'
    BY <1>5, CursorFinished
  <1>11. RowsAreTraced'
    <2> SUFFICES ASSUME Tracked, NEW p \in Under(Selected)
                 PROVE  Traced(store.rows[p], p)' \/ \E e \in w.events : Marks(e, p)
      BY <1>2, <1>3 DEF RowsAreTraced, Under
    <2>1. PICK v : v = store'.rows[p]
      OBVIOUS
    <2>2. Anchored
      BY <1>5 DEF Anchored
    <2>3. Traced(v, p) \/ \E e \in w.events : Marks(e, p)
      <3>1. CASE p \in Scope
        BY <1>5, <2>1, <2>2, <3>1, FinishedRows
      <3>2. CASE p \notin Scope
        <4>1. v = store.rows[p]
          BY <2>1, <3>2, FinishedRows
        <4>2. QED
          BY <1>4, <1>5, <4>1 DEF RowsAreTraced, ResumeInv
      <3>3. QED
        BY <3>1, <3>2
    <2>4. Traced(v, p)' \/ \E e \in w.events : Marks(e, p)
      BY <1>3, <2>3
    <2>5. QED
      BY <2>1, <2>4 DEF Traced
  <1>12. DrainIsComplete'
    <2> SUFFICES ASSUME Tracked, NEW p \in Under(Selected)
                 PROVE  \/ Outstanding(p)'
                        \/ Settled(store.rows[p], p)' /\ Traced(store.rows[p], p)'
      BY <1>2 DEF DrainIsComplete, Under
    <2>1. PICK v : v = store'.rows[p]
      OBVIOUS
    <2>2. Anchored
      BY <1>5 DEF Anchored
    <2>3. p \in w.metadata => Outstanding(p)'
      BY DEF Outstanding, Scope
    <2>4. p \in w.metadata \/ (Settled(v, p) /\ Traced(v, p))
      <3>1. CASE p \in Scope
        BY <1>5, <2>1, <2>2, <3>1, FinishedRows
      <3>2. CASE p \notin Scope
        <4>1. v = store.rows[p]
          BY <2>1, <3>2, FinishedRows
        <4>2. Outstanding(p) => p \in w.metadata
          BY <1>1, <3>2 DEF Outstanding
        <4>3. QED
          BY <1>4, <4>1, <4>2 DEF DrainIsComplete, ResumeInv
      <3>3. QED
        BY <3>1, <3>2
    <2>5. Outstanding(p)' \/ (Settled(v, p)' /\ Traced(v, p)')
      BY <1>3, <2>3, <2>4
    <2>6. QED
      BY <2>1, <2>5 DEF Traced, Settled
  <1>13. QED
    BY <1>6, <1>7, <1>8, <1>9, <1>10, <1>11, <1>12 DEF ResumeInv

LEMMA ResumeByFinish ==
    ASSUME OneSelection, ResumeInv, StopInv', FinishPass
    PROVE  ResumeInv'
  <1>0. TypeOK
    BY DEF ResumeInv, StopInv
  <1>1. /\ UNCHANGED <<log, journal, stream>> /\ store'.proof = store.proof /\ w.pc = "finish"
        /\ w' = Outcome("complete", w.pass) \/ w' = [w EXCEPT !.pc = "over"]
    BY <1>0, FinishFields
  <1>2. CASE w' = [w EXCEPT !.pc = "over"]
    <2>1. PICK n : n = w'
      OBVIOUS
    <2>2. "over" \in WorkerSteps
      BY DEF WorkerSteps
    <2>3. n.pc = "over" /\ n.before = w.before /\ n.watch = w.watch
      BY <1>0, <1>2, <2>1, <2>2, PcFields
    <2>4. w'.pc \notin Active /\ w'.pc \notin {"prune", "decide"}
      BY <2>1, <2>3 DEF Active, Passing, Beginning
    <2>5. CursorIsSound'
      BY <2>1, <2>3, <2>4, CursorFinished
    <2>6. Epochs'
      BY <1>1, <2>1, <2>3 DEF Epochs, ResumeInv
    <2>7. QED
      BY <2>4, <2>5, <2>6, Inactive
  <1>3. CASE w' = Outcome("complete", w.pass)
    <2>1. w.pass \in Passes
      BY <1>0 DEF TypeOK, Workers
    <2>2. PICK pass \in Passes : pass = w.pass
      BY <2>1
    <2>3. PICK n : n = Outcome("complete", pass)
      OBVIOUS
    <2>4. n.watch = w.watch /\ n.before = w.before
      BY <1>0, <2>3, OutcomeKeeps
    <2>5. w' = n
      BY <1>3, <2>2, <2>3
    <2>6. CASE w.events = {}
      <3>1. /\ n \in Workers /\ n.events = {} /\ n.pending = w.pending
            /\ n.pc = "checkpoint" /\ n.pass = NoPass
        BY <1>0, <2>3, <2>6, OutcomeFields
      <3>2. QED
        BY <2>4, <2>5, <2>6, <3>1, BaselineCompletes
    <2>7. CASE w.events # {}
      <3>1. /\ n \in Workers /\ n.events = w.events /\ n.pending = w.pending /\ n.metadata = {}
            /\ w.metadata = {} => n.pc = "acknowledge" /\ n.pass = w.pass
            /\ w.metadata # {} =>
                 /\ n.pc = "enter"
                 /\ n.pass = NewPass(FALSE, FALSE, w.metadata, pass.event_id)
        BY <1>0, <2>3, <2>7, OutcomeFields, ZenonT(40)
      <3>2. CASE w.metadata = {}
        <4>1. ~w.pass.initial
          BY <1>1, <2>7 DEF ResumeInv, Phases, Active, Passing
        <4>2. QED
          BY <2>4, <2>5, <2>7, <3>1, <3>2, <4>1, DrainPassCompletes
      <3>3. CASE w.metadata # {}
        <4>1. PICK q : q = NewPass(FALSE, FALSE, w.metadata, pass.event_id)
          OBVIOUS
        <4>2. /\ ~q.initial /\ ~q.recursive /\ q.scopes = w.metadata /\ q.event_id = pass.event_id
              /\ q.todo = {} /\ q.batch = << >> /\ q.seen = {} /\ q.broken = "no"
          BY <4>1 DEF NewPass, NoPass
        <4>3. n.pass = q /\ n.pc = "enter"
          BY <3>1, <3>3, <4>1
        <4>4. QED
          BY <2>2, <2>4, <2>5, <2>7, <3>1, <4>2, <4>3, DrainPassCompletes
      <3>4. QED
        BY <3>2, <3>3
    <2>8. QED
      BY <2>6, <2>7
  <1>4. QED
    BY <1>1, <1>2, <1>3
-----------------------------------------------------------------------------
\* The decision, the checkpoint and the watch loop

\* checkpoint_resume_proof is made while the stream still follows the epoch of
\* the inspection, so the rows it vouches for are current up to the cursor.
LEMMA ResumeByCheckpoint ==
    ASSUME ResumeInv, StopInv', Checkpoint
    PROVE  ResumeInv'
  <1>0. TypeOK /\ Threads
    BY DEF ResumeInv, StopInv
  <1>1. /\ w.pc = "checkpoint" /\ UNCHANGED <<log, journal, stream>>
        /\ store'.rows = store.rows /\ store'.cursor = store.cursor
        /\ \/ store'.proof = store.proof
           \/ /\ w.watch /\ w.before = journal.epoch
              /\ store'.proof = [roots |-> w.roots, epoch |-> w.before]
        /\ w' = [w EXCEPT !.pc = IF w.watch THEN "watch" ELSE "over"]
    BY <1>0, CheckpointFields
  <1>2. PICK c \in {"watch", "over"} :
          /\ c = IF w.watch THEN "watch" ELSE "over"
          /\ c \in WorkerSteps
    BY DEF WorkerSteps, Active
  <1>3. PICK n : n = w'
    OBVIOUS
  <1>4. /\ n.pc = c /\ n.watch = w.watch /\ n.before = w.before /\ n.pass = w.pass
        /\ n.events = w.events /\ n.pending = w.pending
    <2>1. n = [w EXCEPT !.pc = c]
      BY <1>1, <1>2, <1>3
    <2>2. QED
      BY <1>0, <1>2, <2>1, PcFields
  <1>5. w.pc \in Active /\ w.events = {} /\ ~w.pass.initial
    BY <1>1 DEF ResumeInv, Phases, Active
  <1>6. Epochs
    BY DEF ResumeInv
  <1>7. Epochs'
    BY <1>1, <1>3, <1>4, <1>6 DEF Epochs
  <1>8. Tracked' <=> Tracked
    BY <1>1 DEF Tracked
  <1>9. CASE ~w.watch
    <2>1. store'.proof = store.proof /\ n.pc = "over"
      BY <1>1, <1>2, <1>4, <1>9
    <2>2. w'.pc \notin Active /\ w'.pc \notin {"prune", "decide"}
      BY <1>3, <2>1 DEF Active, Passing, Beginning
    <2>3. w'.before <= journal.epoch /\ stream'.epoch <= journal.epoch
      BY <1>1, <1>3, <1>4, <1>6 DEF Epochs
    <2>4. QED
      BY <1>1, <2>1, <2>2, <2>3, InactiveStays
  <1>10. CASE w.watch
    <2>0. n.pc = "watch" /\ n.pc \in Active /\ n.pc \notin Passing /\ n.pc \notin Beginning
      BY <1>2, <1>4, <1>10 DEF Active, Passing, Beginning
    <2>1. Proven' => Proven \/ w.before = journal.epoch
      BY <1>1 DEF Proven
    <2>2. Proven \/ w.before = journal.epoch => Tracked
      BY <1>5, <1>10 DEF ResumeInv, Phases
    <2>3. Anchored' <=> Anchored
      BY <1>3, <1>4, <1>8, <1>10 DEF Anchored
    <2>4. Anchored <=> Tracked
      BY <1>10 DEF Anchored
    <2>5. Phases'
      BY <1>1, <1>3, <1>4, <1>5, <1>8, <1>10, <2>0, <2>1, <2>2 DEF Phases
    <2>6. Identifiers'
      <3>1. Identifiers
        BY DEF ResumeInv
      <3>2. QED
        BY <1>1, <1>3, <1>4, <1>5, <2>0, <2>3, <3>1 DEF Identifiers, Position
    <2>7. PassIsExact' /\ DrainIsComplete'
      BY <1>3, <1>4, <1>5, <2>0 DEF PassIsExact, DrainIsComplete
    <2>8. CursorIsSound'
      <3>1. CursorIsSound
        BY DEF ResumeInv
      <3>2. Proven' \/ Anchored' => w.pc \in Active /\ ~w.pass.initial /\ Anchored
        BY <1>5, <2>1, <2>2, <2>3, <2>4
      <3>3. QED
        BY <1>1, <3>1, <3>2, CursorStays
    <2>9. RowsAreTraced'
      <3> SUFFICES ASSUME Tracked, NEW p \in Under(Selected)
                   PROVE  Traced(store.rows[p], p)'
        BY <1>8 DEF RowsAreTraced, Under
      <3>1. PICK v : v = store.rows[p]
        OBVIOUS
      <3>2. Traced(v, p)
        BY <1>5, <1>10, <3>1 DEF RowsAreTraced, ResumeInv
      <3>3. Traced(v, p)'
        BY <1>1, <1>3, <1>4, <3>2, TracedStays
      <3>4. QED
        BY <1>1, <3>1, <3>3 DEF Traced
    <2>10. QED
      BY <1>7, <2>5, <2>6, <2>7, <2>8, <2>9 DEF ResumeInv
  <1>11. QED
    BY <1>9, <1>10

\* The resume decision: a resumed worker starts with rows that are current up
\* to the position its stream begins at.
LEMMA ResumeByDecide ==
    ASSUME OneSelection, ResumeInv, StopInv', Decide
    PROVE  ResumeInv'
  <1>0. /\ TypeOK /\ Threads /\ Numbering
        /\ journal.base \in Nat /\ Len(log) \in Nat /\ journal.base <= Len(log)
        /\ journal.epoch \in Nat
    BY DEF ResumeInv, StopInv, Numbering, TypeOK
  <1>1. /\ w.pc = "decide" /\ UNCHANGED <<log, journal, store>>
        /\ stream' \in StreamStates /\ stream'.at <= Len(log)
    BY <1>0, DecideFields
  <1>2. PICK n \in Workers :
          /\ w' = n /\ n.pc \in {"checkpoint", "enter"}
          /\ n.watch = w.watch /\ n.before \in {NoEpoch, journal.epoch}
          /\ n.events = w.events /\ n.pending = w.pending
          /\ n.pass.todo = {} /\ n.pass.batch = << >> /\ n.pass.seen = {}
          /\ n.pass.broken = "no" /\ n.pass.recursive
          /\ n.pc = "enter" => n.pass.scopes = w.roots
          /\ w.watch => /\ stream'.queue = {} /\ stream'.epoch = journal.epoch
                        /\ journal.base <= stream'.at
                        /\ stream'.at <= Position(n.pass.event_id)
          /\ \/ /\ ~n.pass.initial /\ n.before = journal.epoch /\ w.watch
                /\ Resumable(journal.epoch, w.roots) /\ n.pass.event_id = store.cursor
             \/ /\ n.pass.initial /\ n.pc = "enter" /\ n.pass.event_id = current_event_id
    BY <1>0, DecideFields
  <1>3. ~w.watch => stream' = stream
    BY DEF Decide, DecideWith
  <1>4. n.events = {} /\ n.pending = {} /\ w.roots = Selected
    <2>1. w.events = {} /\ w.pending = {}
      BY <1>1 DEF ResumeInv, Phases
    <2>2. w.roots \in RootSets
      BY <1>0, <1>1 DEF Threads
    <2>3. QED
      BY <1>2, <2>1, <2>2, OneRoot
  <1>5. n.pc \in Active /\ n.pc \notin {"scan", "finish"}
    BY <1>2 DEF Active, Passing, Beginning
  <1>6. Epochs'
    <2>1. Epochs
      BY DEF ResumeInv
    <2>2. QED
      BY <1>0, <1>1, <1>2, <1>3, <2>1 DEF Epochs, NoEpoch
  <1>7. w.watch => Tracked'
    BY <1>1, <1>2 DEF Tracked
  <1>8. Phases'
    BY <1>2, <1>4, <1>7 DEF Phases, Passing, Beginning
  <1>9. Proven' <=> Proven
    BY <1>1 DEF Proven
  <1>10. ~n.pass.initial => Proven
    BY <1>2 DEF Resumable, Proven
  <1>11. CursorIsSound
    BY DEF ResumeInv
  <1>12. CursorIsSound'
    BY <1>1, <1>2, <1>9, <1>10, <1>11, CursorStays
  <1>13. current_event_id \in Nat /\ current_event_id >= 1 /\ current_event_id' = current_event_id
    BY <1>0, <1>1 DEF current_event_id
  <1>14. n.pass.event_id \in 1 .. current_event_id /\ (Proven => store.cursor <= n.pass.event_id)
    <2>1. Proven => store.cursor \in 1 .. current_event_id
      BY <1>11 DEF CursorIsSound
    <2>2. CASE n.pass.event_id = current_event_id
      BY <1>13, <2>1, <2>2
    <2>3. CASE n.pass.event_id = store.cursor /\ ~n.pass.initial
      BY <1>10, <1>13, <2>1, <2>3
    <2>4. QED
      BY <1>2, <2>2, <2>3
  <1>15. Identifiers'
    BY <1>1, <1>2, <1>4, <1>9, <1>10, <1>13, <1>14 DEF Identifiers
  <1>16. PassIsExact' /\ DrainIsComplete'
    BY <1>2, <1>4, <1>5 DEF PassIsExact, DrainIsComplete
  <1>17. RowsAreTraced'
    <2> SUFFICES ASSUME ~n.pass.initial, NEW p \in Under(Selected)
                 PROVE  Fresh(store.rows[p], p, stream.at)'
      BY <1>2 DEF RowsAreTraced, Traced, Under
    <2>1. PICK v, k : v = store.rows[p] /\ k = stream'.at
      OBVIOUS
    <2>2. Fresh(v, p, Position(store.cursor)) /\ store.cursor \in Nat
      BY <1>10, <1>11, <1>13, <2>1 DEF CursorIsSound
    <2>3. k \in Int /\ k <= Position(store.cursor) /\ Position(store.cursor) \in Int
      BY <1>0, <1>1, <1>2, <2>1, <2>2 DEF StreamStates, Position
    <2>4. Fresh(v, p, k)
      BY <1>0, <2>2, <2>3, FreshWeaker
    <2>5. Fresh(v, p, k)'
      BY <1>1, <2>4, FreshSame
    <2>6. QED
      BY <1>1, <2>1, <2>5 DEF Fresh
  <1>18. QED
    BY <1>6, <1>8, <1>12, <1>15, <1>16, <1>17 DEF ResumeInv
\* HistoryDone names no entry.
LEMMA DoneMarksNothing ==
    ASSUME NEW e \in Delivered, "done" \in e.flags, NEW p
    PROVE  ~Marks(e, p)
  <1>1. CASE e = Control("done")
    BY <1>1 DEF Control, Marks
  <1>2. CASE e = Control("wrapped")
    BY <1>2 DEF Control
  <1>3. CASE e \in Reported
    BY <1>3 DEF Reported
  <1>4. QED
    BY <1>1, <1>2, <1>3 DEF Delivered

\* A drain moves the queued and pending events to the plan: those it leaves
\* behind name no entry.
LEMMA ResumeByDrain ==
    ASSUME ResumeInv, StopInv', Drain
    PROVE  ResumeInv'
  <1> DEFINE drained == w.pending \cup stream.queue
             events == {e \in drained : "done" \notin e.flags}
  <1>0. TypeOK
    BY DEF ResumeInv, StopInv
  <1>1. /\ w.pc = "watch" /\ drained \subseteq Delivered /\ UNCHANGED <<log, journal>>
        /\ stream' \in StreamStates /\ stream'.queue = {} /\ stream'.at = stream.at
        /\ stream'.epoch = stream.epoch
    BY <1>0, DrainFields
  <1>2. /\ w.pc \in Active /\ w.events = {} /\ w.watch /\ ~w.pass.initial
        /\ Proven \/ w.before = journal.epoch => Tracked
    BY <1>1 DEF ResumeInv, Phases, Active
  <1>3. Epochs
    BY DEF ResumeInv
  <1>4. CASE /\ store'.proof = NoProof
             /\ \E n \in Workers : /\ w' = n /\ n.pc = "restart" /\ n.before = w.before
                                   /\ n.pending = {} /\ n.events = w.events
    <2>1. w'.pc = "restart" /\ w'.before = w.before
      BY <1>4
    <2>2. w'.pc \notin Active /\ w'.pc \notin {"prune", "decide"}
      BY <2>1 DEF Active, Passing, Beginning
    <2>3. w'.before <= journal.epoch /\ stream'.epoch <= journal.epoch
      BY <1>1, <1>3, <2>1 DEF Epochs
    <2>4. QED
      BY <1>1, <1>4, <2>2, <2>3, InactiveStays
  <1>5. CASE /\ UNCHANGED store /\ \A e \in drained : "wrapped" \notin e.flags
             /\ \E n \in Workers :
                  /\ w' = n /\ n.pc \in {"watch", "plan"} /\ n.watch = w.watch
                  /\ n.before = w.before /\ n.pass.initial = w.pass.initial
                  /\ n.pc = "plan" => n.pass.event_id = store.cursor /\ events # {}
                  /\ n.pc = "watch" => events = {}
                  /\ n.events = events /\ n.pending = {}
    <2>1. PICK n \in Workers :
                  /\ w' = n /\ n.pc \in {"watch", "plan"} /\ n.watch = w.watch
                  /\ n.before = w.before /\ n.pass.initial = w.pass.initial
                  /\ n.pc = "plan" => n.pass.event_id = store.cursor /\ events # {}
                  /\ n.pc = "watch" => events = {}
                  /\ n.events = events /\ n.pending = {}
      BY <1>5
    <2>2. /\ n.pc \in Active /\ n.pc \notin Passing /\ n.pc \notin Beginning
          /\ n.pc \notin {"scan", "finish"}
      BY <2>1 DEF Active, Passing, Beginning
    <2>3. (Proven' <=> Proven) /\ (Tracked' <=> Tracked)
      BY <1>1, <1>5 DEF Proven, Tracked
    <2>4. (Anchored <=> Tracked) /\ (Anchored' <=> Tracked)
      BY <1>2, <2>1, <2>3 DEF Anchored
    <2>5. Epochs'
      BY <1>1, <1>3, <1>5, <2>1 DEF Epochs
    <2>6. Phases'
      BY <1>1, <1>2, <1>5, <2>1, <2>2, <2>3 DEF Phases
    <2>7. CursorIsSound
      BY DEF ResumeInv
    <2>8. CursorIsSound'
      BY <1>1, <1>2, <1>5, <2>1, <2>3, <2>4, <2>7, CursorStays
    <2>9. Tracked => store.cursor \in 1 .. current_event_id
      BY <1>2, <2>4, <2>7 DEF CursorIsSound
    <2>10. Tracked => journal.base <= stream.at /\ \A e \in drained : Position(e.id) <= stream.at
      BY <1>2, <2>4 DEF ResumeInv, Identifiers
    <2>11. Identifiers'
      <3>1. current_event_id' = current_event_id /\ \A e : Position(e.id)' = Position(e.id)
        BY <1>1 DEF current_event_id, Position
      <3>2. \A e \in stream'.queue \cup n.pending \cup n.events : e \in drained
        BY <1>1, <2>1
      <3>3. QED
        BY <1>1, <2>1, <2>2, <2>4, <2>9, <2>10, <3>1, <3>2 DEF Identifiers
    <2>12. PassIsExact'
      BY <2>1, <2>2 DEF PassIsExact
    <2>13. ASSUME Tracked, NEW p \in Under(Selected)
           PROVE  Fresh(store.rows[p], p, stream.at) \/ \E e \in events : Marks(e, p)
      <3>1. Traced(store.rows[p], p)
        BY <1>2, <2>13 DEF ResumeInv, RowsAreTraced
      <3>2. CASE Fresh(store.rows[p], p, stream.at)
        BY <3>2
      <3>3. CASE \E e \in stream.queue \cup w.pending : Marks(e, p)
        <4>1. PICK e \in stream.queue \cup w.pending : Marks(e, p)
          BY <3>3
        <4>2. "done" \notin e.flags
          BY <1>1, <4>1, DoneMarksNothing
        <4>3. QED
          BY <4>1, <4>2
      <3>4. QED
        BY <3>1, <3>2, <3>3 DEF Traced
    <2>14. ASSUME NEW p \in Under(Selected), Fresh(store.rows[p], p, stream.at)
           PROVE  Traced(store.rows[p], p)'
      <3>1. PICK v, k : v = store.rows[p] /\ k = stream.at
        OBVIOUS
      <3>2. Fresh(v, p, k)'
        BY <1>1, <2>14, <3>1, FreshSame
      <3>3. Fresh(store.rows[p], p, stream.at)'
        BY <1>1, <1>5, <3>1, <3>2 DEF Fresh
      <3>4. QED
        BY <3>3 DEF Traced
    <2>15. RowsAreTraced'
      <3> SUFFICES ASSUME Tracked, NEW p \in Under(Selected)
                   PROVE  Traced(store.rows[p], p)' \/ \E e \in events : Marks(e, p)
        BY <2>1, <2>3 DEF RowsAreTraced, Under, Marks
      <3>1. QED
        BY <2>13, <2>14
    <2>16. DrainIsComplete'
      <3> SUFFICES ASSUME Tracked, n.pc = "plan", NEW p \in Under(Selected)
                   PROVE  \/ \E e \in events : Marks(e, p)
                          \/ Settled(store.rows[p], p)' /\ Traced(store.rows[p], p)'
        BY <2>1, <2>3 DEF DrainIsComplete, Under, Outstanding, Marks
      <3>1. CASE \E e \in events : Marks(e, p)
        BY <3>1
      <3>2. CASE Fresh(store.rows[p], p, stream.at)
        <4>1. PICK v, k : v = store.rows[p] /\ k = stream.at
          OBVIOUS
        <4>2. k \in Int /\ journal.base \in Nat /\ store.cursor \in Nat
          BY <1>0, <4>1 DEF TypeOK, StreamStates, Stores
        <4>3. Fresh(v, p, Position(store.cursor))
          BY <1>2, <2>4, <2>7, <4>1 DEF CursorIsSound
        <4>4. \A e \in events : Fresh(v, p, Position(e.id))
          <5> SUFFICES ASSUME NEW e \in events PROVE Fresh(v, p, Position(e.id))
            OBVIOUS
          <5>1. e.id \in Nat
            BY <1>1, ControlTyped DEF Delivered, Reported
          <5>2. Position(e.id) \in Int /\ Position(e.id) <= k
            BY <2>10, <4>1, <4>2, <5>1 DEF Position
          <5>3. Fresh(v, p, k)
            BY <3>2, <4>1
          <5>4. QED
            BY <1>0, <4>2, <5>2, <5>3, FreshWeaker
        <4>5. ASSUME NEW id \in Ids' PROVE Fresh(v, p, Position(id))'
          <5>1. Fresh(v, p, Position(id))
            BY <2>1, <4>3, <4>4, <4>5 DEF Ids
          <5>2. QED
            BY <1>1, <5>1 DEF Fresh, Metadata, Present, Version, Position
        <4>6. Settled(v, p)'
          BY <4>5 DEF Settled
        <4>7. Settled(store.rows[p], p)'
          BY <1>5, <4>1, <4>6 DEF Settled
        <4>8. QED
          BY <2>14, <3>2, <4>7
      <3>3. QED
        BY <2>13, <3>1, <3>2
    <2>17. QED
      BY <2>5, <2>6, <2>8, <2>11, <2>12, <2>15, <2>16 DEF ResumeInv
  <1>6. \/ /\ store'.proof = NoProof
           /\ \E n \in Workers : /\ w' = n /\ n.pc = "restart" /\ n.before = w.before
                                 /\ n.pending = {} /\ n.events = w.events
        \/ /\ UNCHANGED store /\ \A e \in drained : "wrapped" \notin e.flags
           /\ \E n \in Workers :
                /\ w' = n /\ n.pc \in {"watch", "plan"} /\ n.watch = w.watch
                /\ n.before = w.before /\ n.pass.initial = w.pass.initial
                /\ n.pc = "plan" => n.pass.event_id = store.cursor /\ events # {}
                /\ n.pc = "watch" => events = {}
                /\ n.events = events /\ n.pending = {}
    <2>1. \/ /\ store' \in Stores /\ store'.proof = NoProof
             /\ \E n \in Workers : /\ w' = n /\ n.pc = "restart" /\ n.roots = w.roots
                                   /\ n.before = w.before
                                   /\ n.pending = {} /\ n.events = w.events
          \/ /\ UNCHANGED store /\ \A e \in drained : "wrapped" \notin e.flags
             /\ events = {}
             /\ \E n \in Workers :
                  /\ w' = n /\ n.pc = "watch" /\ n.roots = w.roots /\ n.watch = w.watch
                  /\ n.before = w.before /\ n.pass = w.pass /\ n.metadata = w.metadata
                  /\ n.events = w.events /\ n.pending = {}
          \/ /\ UNCHANGED store /\ \A e \in drained : "wrapped" \notin e.flags
             /\ events # {}
             /\ \E n \in Workers :
                  /\ w' = n /\ n.pc = "plan" /\ n.roots = w.roots /\ n.watch = w.watch
                  /\ n.before = w.before /\ n.metadata = w.metadata
                  /\ n.pass.initial = w.pass.initial /\ n.pass.event_id = store.cursor
                  /\ n.events = events /\ n.pending = {}
      BY <1>0, DrainFields
    <2>2. QED
      BY <1>2, <2>1
  <1>7. QED
    BY <1>4, <1>5, <1>6
\* The plan leaves out no entry an event of the drain names.
LEMMA PlanIsComplete ==
    ASSUME OneSelection, ResumeInv, w.pc = "plan", NEW p \in Under(Selected), NEW e \in w.events,
           Marks(e, p)
    PROVE  p \in Under(RecursiveScopes(w.events)) \cup MetadataPaths(w.events)
  <1> DEFINE touched == {f.path : f \in w.events}
             recursive == RecursiveScopes(w.events)
  <1>1. w.roots = Selected /\ e \in Reported /\ Selected \subseteq Paths
    <2>1. w.roots \in RootSets
      BY DEF ResumeInv, StopInv, Threads
    <2>2. w.events \subseteq Reported
      BY DEF ResumeInv, StopInv, TypeOK, Workers
    <2>3. QED
      BY <2>1, <2>2, OneRoot, RootsArePaths
  <1>2. MetadataPaths(w.events) =
          ((touched \cap Dirs) \cup ({Parent[q] : q \in touched} \cap Under(Selected)))
            \ Under(recursive)
    BY <1>1 DEF MetadataPaths
  <1>3. CASE "rescan" \in Flags(w.events)
    BY <1>1, <1>3 DEF RecursiveScopes
  <1>4. CASE "rescan" \notin Flags(w.events)
    <2>1. recursive = {f.path : f \in {g \in w.events : \/ "subtree" \in g.flags
                                                         \/ g.path \notin Dirs
                                                         \/ store.rows[g.path] = None}}
      BY <1>4 DEF RecursiveScopes
    <2>2. "rescan" \notin e.flags
      BY <1>4 DEF Flags
    <2>3. e.path \in touched
      OBVIOUS
    <2>4. CASE e.path = p /\ p \in Dirs
      <3>1. p \in touched \cap Dirs
        BY <2>3, <2>4
      <3>2. QED
        BY <1>2, <3>1
    <2>5. CASE e.path = p /\ p \notin Dirs
      <3>1. p \in recursive
        BY <2>1, <2>5
      <3>2. QED
        BY <3>1 DEF Under
    <2>6. CASE Parent[e.path] = p
      <3>1. p \in {Parent[q] : q \in touched} \cap Under(Selected)
        BY <2>3, <2>6
      <3>2. QED
        BY <1>2, <3>1
    <2>7. QED
      BY <2>2, <2>4, <2>5, <2>6 DEF Marks
  <1>5. QED
    BY <1>3, <1>4

LEMMA ResumeByPlan ==
    ASSUME OneSelection, ResumeInv, StopInv', Plan
    PROVE  ResumeInv'
  <1>0. TypeOK /\ Threads /\ w.pc = "plan" /\ w.pc \in Active
        /\ UNCHANGED <<log, journal, stream, store>>
    BY DEF ResumeInv, StopInv, Plan, Quiet, WorkerOnly, Active
  <1>1. CASE stop
    <2>1. w' = [w EXCEPT !.pc = "over"] /\ "over" \in WorkerSteps
      BY <1>1 DEF Plan, WorkerSteps
    <2>2. PICK n : n = w'
      OBVIOUS
    <2>3. n.pc = "over" /\ n.before = w.before
      BY <1>0, <2>1, <2>2, PcFields
    <2>4. QED
      BY <1>0, <2>2, <2>3, WorkerEnds
  <1>2. CASE ~stop
    <2>1. PICK n \in Workers :
                /\ w' = n /\ n.pc = "clear" /\ n.watch = w.watch
                /\ n.before = w.before /\ n.events = w.events /\ n.pending = w.pending
                /\ n.pass.initial = FALSE /\ n.pass.event_id = w.pass.event_id
                /\ n.pass.todo = {} /\ n.pass.batch = << >> /\ n.pass.seen = {} /\ n.pass.broken = "no"
                /\ \/ /\ n.pass.recursive /\ n.pass.scopes = RecursiveScopes(w.events)
                      /\ n.metadata = MetadataPaths(w.events)
                   \/ /\ ~n.pass.recursive /\ n.pass.scopes = MetadataPaths(w.events)
                      /\ RecursiveScopes(w.events) = {}
      BY <1>0, <1>2, PlanFields
    <2>2. MetadataPaths(w.events) \subseteq Dirs
      BY <1>0, PlanTyped DEF TypeOK, Workers
    <2>3. /\ w.events # {} /\ w.pending = {} /\ w.watch /\ ~w.pass.initial
          /\ w.pass.event_id = store.cursor
          /\ Proven \/ w.before = journal.epoch => Tracked
      BY <1>0 DEF ResumeInv, Phases
    <2>4. /\ Proven' <=> Proven
          /\ Tracked' <=> Tracked
          /\ Anchored' <=> Anchored
      BY <1>0, <2>1, SameTrace
    <2>5. /\ \A v, p : Traced(v, p)' <=> Traced(v, p)
          /\ \A v, p : Settled(v, p)' <=> Settled(v, p)
          /\ \A e, p : Marks(e, p)' <=> Marks(e, p)
      BY <1>0, <2>1, SameTrace
    <2>6. n.pc \in Active /\ n.pc \in Passing
      BY <2>1 DEF Active, Passing, Beginning
    <2>7. Epochs'
      BY <1>0, <2>1 DEF Epochs, ResumeInv
    <2>8. Phases'
      BY <1>0, <2>1, <2>2, <2>3, <2>4 DEF Phases
    <2>9. Identifiers'
      <3>1. Identifiers
        BY DEF ResumeInv
      <3>2. QED
        BY <1>0, <2>1, <2>3, <2>4, <2>6, <3>1 DEF Identifiers, Position, current_event_id
    <2>10. PassIsExact'
      BY <2>1 DEF PassIsExact
    <2>11. CursorIsSound'
      BY <1>0, <2>1, <2>3, <2>4, CursorStays DEF ResumeInv
    <2>12. RowsAreTraced'
      <3> SUFFICES ASSUME Tracked, NEW p \in Under(Selected)
                   PROVE  Traced(store.rows[p], p)' \/ \E e \in w.events : Marks(e, p)
        BY <2>1, <2>4, <2>5 DEF RowsAreTraced, Under
      <3>1. PICK v : v = store.rows[p]
        OBVIOUS
      <3>2. Traced(v, p)' \/ \E e \in w.events : Marks(e, p)
        BY <1>0, <2>3, <2>5, <3>1 DEF RowsAreTraced, ResumeInv
      <3>3. QED
        BY <1>0, <3>1, <3>2 DEF Traced
    <2>13. DrainIsComplete'
      <3> SUFFICES ASSUME Tracked, NEW p \in Under(Selected)
                   PROVE  \/ Outstanding(p)'
                          \/ Settled(store.rows[p], p)' /\ Traced(store.rows[p], p)'
        BY <2>4 DEF DrainIsComplete, Under
      <3>1. PICK v : v = store.rows[p]
        OBVIOUS
      <3>2. CASE \E e \in w.events : Marks(e, p)
        <4>1. p \in Under(RecursiveScopes(w.events)) \cup MetadataPaths(w.events)
          BY <1>0, <3>2, PlanIsComplete
        <4>2. p \in Scope' \cup n.metadata
          <5>1. CASE n.pass.recursive
            <6>1. Scope' = Under(n.pass.scopes)
              BY <2>1, <5>1 DEF Scope, Under
            <6>2. QED
              BY <2>1, <4>1, <5>1, <6>1
          <5>2. CASE ~n.pass.recursive
            <6>1. Scope' = n.pass.scopes
              BY <2>1, <5>2 DEF Scope
            <6>2. Under(RecursiveScopes(w.events)) = {}
              <7>1. \A q \in Paths : Parent[q] \notin {}
                OBVIOUS
              <7>2. RecursiveScopes(w.events) = {}
                BY <2>1, <5>2
              <7>3. QED
                BY <7>2 DEF Under
            <6>3. QED
              BY <2>1, <4>1, <5>2, <6>1, <6>2
          <5>3. QED
            BY <5>1, <5>2
        <4>3. Outstanding(p)'
          BY <2>1, <4>2 DEF Outstanding
        <4>4. QED
          BY <4>3
      <3>3. CASE ~\E e \in w.events : Marks(e, p)
        <4>1. ~Outstanding(p)
          BY <1>0, <3>3 DEF Outstanding
        <4>2. Settled(v, p) /\ Traced(v, p)
          BY <1>0, <2>3, <3>1, <4>1 DEF DrainIsComplete, ResumeInv
        <4>3. Settled(v, p)' /\ Traced(v, p)'
          BY <2>5, <4>2
        <4>4. QED
          BY <1>0, <3>1, <4>3 DEF Settled, Traced
      <3>4. QED
        BY <3>2, <3>3
    <2>14. QED
      BY <2>7, <2>8, <2>9, <2>10, <2>11, <2>12, <2>13 DEF ResumeInv
  <1>3. QED
    BY <1>1, <1>2

\* The cursor moves only after every entry of the drain has been read again.
LEMMA ResumeByAcknowledge ==
    ASSUME ResumeInv, StopInv', Acknowledge
    PROVE  ResumeInv'
  <1>0. TypeOK /\ Numbering
    BY DEF ResumeInv, StopInv
  <1>1. /\ w.pc = "acknowledge" /\ UNCHANGED <<log, journal, stream>>
        /\ store'.rows = store.rows /\ store'.proof = store.proof
        /\ store'.cursor \in Ids \/ store' = store
    BY <1>0, AcknowledgeFields
  <1>2. PICK n \in Workers :
                /\ w' = n /\ n.pc = "watch" /\ n.watch = w.watch
                /\ n.before = w.before /\ n.events = {} /\ n.pending = w.pending
                /\ n.pass = NoPass
    BY <1>0, AcknowledgeFields
  <1>3. store' = store \/ store'.cursor > w.pass.event_id
    <2>1. store \in Stores
      BY <1>0 DEF TypeOK
    <2>2. PICK m : m = Max({w.pass.event_id} \cup {e.id : e \in w.events})
      OBVIOUS
    <2>3. store' = IF m > w.pass.event_id THEN [store EXCEPT !.cursor = m] ELSE store
      BY <2>2 DEF Acknowledge
    <2>4. QED
      BY <2>1, <2>3 DEF Stores
  <1>4. w.pc \in Active
    BY <1>1 DEF Active
  <1>5. /\ w.events # {} /\ w.pending = {} /\ w.watch /\ ~w.pass.initial
        /\ w.pass.event_id = store.cursor
        /\ Proven \/ w.before = journal.epoch => Tracked
    BY <1>1, <1>4 DEF ResumeInv, Phases
  <1>6. (Proven' <=> Proven) /\ (Tracked' <=> Tracked)
    BY <1>1 DEF Proven, Tracked
  <1>7. (Anchored <=> Tracked) /\ (Anchored' <=> Tracked)
    BY <1>2, <1>5, <1>6 DEF Anchored
  <1>8. n.pc \in Active /\ n.pc \notin Passing /\ n.pc \notin Beginning /\ ~n.pass.initial
    BY <1>2 DEF Active, Passing, Beginning, NoPass
  <1>9. Epochs'
    BY <1>1, <1>2 DEF Epochs, ResumeInv
  <1>10. Phases'
    BY <1>1, <1>2, <1>5, <1>6, <1>8 DEF Phases
  <1>11. Tracked =>
           /\ w.pass.event_id \in 1 .. current_event_id
           /\ journal.base <= stream.at
           /\ \A e \in stream.queue \cup w.pending \cup w.events : Position(e.id) <= stream.at
    BY <1>1, <1>4, <1>5, <1>7 DEF ResumeInv, Identifiers
  <1>12. Identifiers'
    BY <1>1, <1>2, <1>7, <1>8, <1>11 DEF Identifiers, Position
  <1>13. PassIsExact' /\ DrainIsComplete'
    BY <1>2 DEF PassIsExact, DrainIsComplete
  <1>14. ASSUME Tracked, NEW p \in Under(Selected)
         PROVE  Settled(store.rows[p], p) /\ Traced(store.rows[p], p)
    <2>1. ~Outstanding(p)
      BY <1>1 DEF Outstanding
    <2>2. QED
      BY <1>4, <1>5, <1>14, <2>1 DEF ResumeInv, DrainIsComplete
  <1>15. CursorIsSound'
    <2> SUFFICES ASSUME Tracked
                 PROVE  /\ store'.cursor \in 1 .. current_event_id'
                        /\ \A p \in Under(Selected) : Fresh(store.rows[p], p, Position(store.cursor))'
      BY <1>2, <1>5, <1>6, <1>7 DEF CursorIsSound, Under
    <2>1. store'.cursor \in Ids
      BY <1>1, <1>5 DEF Ids
    <2>2. store'.cursor \in 1 .. current_event_id
      <3>1. /\ journal.base \in Nat /\ Len(log) \in Nat /\ stream.at \in Nat /\ stream.at <= Len(log)
            /\ w.pass.event_id \in Nat /\ w.events \subseteq Reported
        BY <1>0 DEF TypeOK, StreamStates, Numbering, Workers, Passes
      <3>2. CASE store' = store
        BY <1>5, <1>11, <3>2
      <3>3. CASE store' # store
        <4>1. PICK e \in w.events : store'.cursor = e.id
          <5>1. store'.cursor # w.pass.event_id
            BY <1>3, <3>1, <3>3
          <5>2. QED
            BY <2>1, <5>1 DEF Ids
        <4>2. e.id \in Nat /\ Position(e.id) <= stream.at
          BY <1>11, <3>1 DEF Reported
        <4>3. e.id <= current_event_id
          BY <3>1, <4>2 DEF Position, current_event_id
        <4>4. e.id > w.pass.event_id /\ w.pass.event_id >= 1
          BY <1>3, <1>11, <3>3, <4>1
        <4>5. current_event_id \in Int
          BY <3>1 DEF current_event_id
        <4>6. QED
          BY <3>1, <4>1, <4>2, <4>3, <4>4, <4>5
      <3>4. QED
        BY <3>2, <3>3
    <2>3. store'.cursor \in 1 .. current_event_id'
      BY <1>1, <2>2 DEF current_event_id
    <2>4. ASSUME NEW p \in Under(Selected) PROVE Fresh(store.rows[p], p, Position(store.cursor))'
      <3>1. PICK v, c : v = store.rows[p] /\ c = Position(store'.cursor)
        OBVIOUS
      <3>2. Fresh(v, p, c)
        BY <1>14, <2>1, <3>1 DEF Settled
      <3>3. Fresh(v, p, c)'
        BY <1>1, <3>2, FreshSame
      <3>4. Position(store.cursor)' = c /\ store'.rows[p] = v
        BY <1>1, <3>1 DEF Position
      <3>5. QED
        BY <3>3, <3>4 DEF Fresh
    <2>5. QED
      BY <2>3, <2>4
  <1>16. RowsAreTraced'
    <2> SUFFICES ASSUME Tracked, NEW p \in Under(Selected)
                 PROVE  Traced(store.rows[p], p)'
      BY <1>6 DEF RowsAreTraced, Under
    <2>1. PICK v : v = store.rows[p]
      OBVIOUS
    <2>2. Traced(v, p)
      BY <1>14, <2>1
    <2>3. Traced(v, p)'
      BY <1>1, <1>2, <2>2, TracedStays
    <2>4. QED
      BY <1>1, <2>1, <2>3 DEF Traced
  <1>17. QED
    BY <1>9, <1>10, <1>12, <1>13, <1>15, <1>16 DEF ResumeInv
-----------------------------------------------------------------------------
\* The file system and the journal

\* Positions of identifiers of this epoch exist.
LEMMA PositionExists ==
    ASSUME TypeOK, NEW id \in 1 .. current_event_id
    PROVE  Position(id) \in Int /\ Position(id) <= Len(log)
  <1>1. journal.base \in Nat /\ Len(log) \in Nat
    BY DEF TypeOK
  <1>2. QED
    BY <1>1 DEF Position, current_event_id

\* A change only makes values older that the journal still accounts for.
LEMMA ResumeByChange ==
    ASSUME ResumeInv, StopInv', Change
    PROVE  ResumeInv'
  <1>0. TypeOK /\ Numbering
    BY DEF ResumeInv, StopInv
  <1>1. /\ Len(log') = Len(log) + 1 /\ Len(log) \in Nat
        /\ UNCHANGED <<journal, store, engine>>
    BY <1>0, ChangeAppends
  <1>2. UNCHANGED <<journal, store, stream, w>>
    BY <1>1 DEF engine
  <1>3. /\ Proven' <=> Proven
        /\ Tracked' <=> Tracked
        /\ Anchored' <=> Anchored
    BY <1>2 DEF Proven, Tracked, Anchored
  <1>4. \A v, p, k : k \in Int /\ k <= Len(log) /\ Fresh(v, p, k) => Fresh(v, p, k)'
    BY <1>0, FreshAfterChange
  <1>5. /\ journal.base \in Nat /\ stream.at \in Nat /\ stream.at <= Len(log)
        /\ w.events \subseteq Reported /\ store.cursor \in Nat
    BY <1>0 DEF TypeOK, StreamStates, Numbering, Workers, Stores
  <1>6. /\ current_event_id \in Int /\ current_event_id' \in Int
        /\ current_event_id <= current_event_id'
        /\ \A id : Position(id)' = Position(id)
    BY <1>1, <1>2, <1>5 DEF current_event_id, Position
  <1>7. Epochs' /\ Phases'
    BY <1>2, <1>3 DEF Epochs, Phases, ResumeInv
  <1>8. Identifiers'
    <2>1. Identifiers
      BY DEF ResumeInv
    <2>2. \A id \in 1 .. current_event_id : id \in 1 .. current_event_id'
      BY <1>6
    <2>3. QED
      BY <1>2, <1>3, <1>6, <2>1, <2>2 DEF Identifiers
  <1>9. CursorIsSound'
    <2> SUFFICES ASSUME Proven \/ (w.pc \in Active /\ ~w.pass.initial /\ Anchored)
                 PROVE  /\ store.cursor \in 1 .. current_event_id'
                        /\ \A p \in Under(Selected) : Fresh(store.rows[p], p, Position(store.cursor))'
      BY <1>2, <1>3 DEF CursorIsSound, Under
    <2>1. /\ store.cursor \in 1 .. current_event_id
          /\ \A p \in Under(Selected) : Fresh(store.rows[p], p, Position(store.cursor))
      BY DEF ResumeInv, CursorIsSound
    <2>2. ASSUME NEW p \in Under(Selected) PROVE Fresh(store.rows[p], p, Position(store.cursor))'
      <3>1. PICK v, c : v = store.rows[p] /\ c = Position(store.cursor)
        OBVIOUS
      <3>2. c \in Int /\ c <= Len(log)
        BY <1>0, <2>1, <3>1, PositionExists
      <3>3. Fresh(v, p, c)'
        BY <1>4, <2>1, <3>1, <3>2
      <3>4. store'.rows[p] = v /\ Position(store.cursor)' = c
        BY <1>2, <3>1 DEF Position
      <3>5. QED
        BY <3>3, <3>4 DEF Fresh
    <2>3. store.cursor \in 1 .. current_event_id'
      BY <1>6, <2>1
    <2>4. QED
      BY <2>2, <2>3
  <1>10. \A v, p : Traced(v, p) => Traced(v, p)'
    <2> SUFFICES ASSUME NEW v, NEW p, Traced(v, p) PROVE Traced(v, p)'
      OBVIOUS
    <2>1. CASE Fresh(v, p, stream.at)
      <3>1. PICK k : k = stream.at
        OBVIOUS
      <3>2. Fresh(v, p, k)'
        BY <1>4, <1>5, <2>1, <3>1
      <3>3. Fresh(v, p, stream.at)'
        BY <1>2, <3>1, <3>2 DEF Fresh
      <3>4. QED
        BY <3>3 DEF Traced
    <2>2. CASE \E e \in stream.queue \cup w.pending : Marks(e, p)
      BY <1>2, <2>2 DEF Traced, Marks
    <2>3. QED
      BY <2>1, <2>2 DEF Traced
  <1>11. ASSUME w.pc \in Passing \cup {"plan", "acknowledge"}, Anchored, NEW v, NEW p, Settled(v, p)
         PROVE  Settled(v, p)'
    <2>1. w.pc \in Active
      BY <1>11 DEF Active
    <2>2. /\ w.pass.event_id \in 1 .. current_event_id
          /\ w.events # {} => w.watch
          /\ w.watch => \A e \in w.events : Position(e.id) <= stream.at
      BY <1>11, <2>1 DEF ResumeInv, Identifiers, Phases
    <2>3. ASSUME NEW id \in Ids PROVE Position(id) \in Int /\ Position(id) <= Len(log)
      <3>1. CASE id = w.pass.event_id
        BY <1>0, <2>2, <3>1, PositionExists
      <3>2. CASE id # w.pass.event_id
        <4>1. PICK e \in w.events : id = e.id
          BY <2>3, <3>2 DEF Ids
        <4>2. e.id \in Nat /\ Position(e.id) <= stream.at
          BY <1>5, <2>2, <4>1 DEF Reported
        <4>3. QED
          BY <1>1, <1>5, <4>1, <4>2 DEF Position
      <3>3. QED
        BY <3>1, <3>2
    <2>4. Ids' = Ids
      BY <1>2 DEF Ids
    <2>5. ASSUME NEW id \in Ids PROVE Fresh(v, p, Position(id))'
      <3>1. PICK c : c = Position(id)
        OBVIOUS
      <3>2. Fresh(v, p, c)
        BY <1>11, <2>5, <3>1 DEF Settled
      <3>3. Fresh(v, p, c)'
        BY <1>4, <2>3, <2>5, <3>1, <3>2
      <3>4. Position(id)' = c
        BY <1>6, <3>1
      <3>5. QED
        BY <3>3, <3>4 DEF Fresh
    <2>6. QED
      BY <2>4, <2>5 DEF Settled
  <1>12. PassIsExact'
    <2>1. Scope' = Scope /\ Under(Selected)' = Under(Selected)
      BY <1>2 DEF Scope, Under
    <2>2. \A p : Read(p)' = Read(p)
      BY <1>2 DEF Read, None
    <2>3. PassIsExact
      BY DEF ResumeInv
    <2>4. w.pc \in {"scan", "finish"} => w.pc \in Passing
      BY DEF Passing
    <2>5. ASSUME w.pc \in {"scan", "finish"}, w.pass.broken = "no", Anchored,
                 NEW p \in (Scope \cap Under(Selected)) \ w.pass.todo
          PROVE  Settled(Read(p), p)' /\ (w.watch => Traced(Read(p), p)')
      <3>1. PICK v : v = Read(p)
        OBVIOUS
      <3>2. Settled(v, p) /\ (w.watch => Traced(v, p))
        BY <2>3, <2>5, <3>1 DEF PassIsExact
      <3>3. Settled(v, p)' /\ (w.watch => Traced(v, p)')
        BY <1>10, <1>11, <2>4, <2>5, <3>2
      <3>4. Read(p)' = v
        BY <2>2, <3>1
      <3>5. QED
        BY <3>3, <3>4 DEF Settled, Traced
    <2>6. QED
      BY <1>2, <1>3, <2>1, <2>3, <2>5 DEF PassIsExact
  <1>13. RowsAreTraced'
    <2> SUFFICES ASSUME w.pc \in Active, ~w.pass.initial, w.watch, Tracked, NEW p \in Under(Selected)
                 PROVE  Traced(store.rows[p], p)' \/ \E e \in w.events : Marks(e, p)'
      BY <1>2, <1>3 DEF RowsAreTraced, Under
    <2>1. PICK v : v = store.rows[p]
      OBVIOUS
    <2>2. Traced(v, p) \/ \E e \in w.events : Marks(e, p)
      BY <2>1 DEF ResumeInv, RowsAreTraced
    <2>3. Traced(v, p)' \/ \E e \in w.events : Marks(e, p)'
      BY <1>10, <2>2 DEF Marks
    <2>4. QED
      BY <1>2, <2>1, <2>3 DEF Traced
  <1>14. DrainIsComplete'
    <2> SUFFICES ASSUME w.pc \in Active, w.events # {}, Tracked, NEW p \in Under(Selected)
                 PROVE  \/ Outstanding(p)'
                        \/ Settled(store.rows[p], p)' /\ Traced(store.rows[p], p)'
      BY <1>2, <1>3 DEF DrainIsComplete, Under
    <2>1. PICK v : v = store.rows[p]
      OBVIOUS
    <2>2. w.watch /\ w.pc \in Passing \cup {"plan", "acknowledge"}
      BY DEF ResumeInv, Phases, Active
    <2>3. Anchored
      BY <2>2 DEF Anchored
    <2>4. Outstanding(p) => Outstanding(p)'
      BY <1>2 DEF Outstanding, Scope, Under, Marks
    <2>5. Outstanding(p) \/ (Settled(v, p) /\ Traced(v, p))
      BY <2>1 DEF ResumeInv, DrainIsComplete
    <2>6. Outstanding(p)' \/ (Settled(v, p)' /\ Traced(v, p)')
      BY <1>10, <1>11, <2>2, <2>3, <2>4, <2>5
    <2>7. QED
      BY <1>2, <2>1, <2>6 DEF Settled, Traced
  <1>15. QED
    BY <1>7, <1>8, <1>9, <1>12, <1>13, <1>14 DEF ResumeInv

\* A new epoch leaves nothing anchored: no proof and no stream is of it.
LEMMA ResumeByWrap ==
    ASSUME ResumeInv, StopInv', Wrap
    PROVE  ResumeInv'
  <1>1. /\ journal' = [epoch |-> journal.epoch + 1, base |-> Len(log)]
        /\ UNCHANGED <<log, store, stream, w>>
    BY DEF Wrap, engine
  <1>2. /\ journal.epoch \in Nat /\ stream.epoch \in Nat /\ w.before \in Int
        /\ store.proof # NoProof => store.proof.epoch \in Nat
        /\ store.proof # NoProof => store.proof.epoch <= journal.epoch
        /\ w.before <= journal.epoch /\ stream.epoch <= journal.epoch
    BY DEF ResumeInv, StopInv, TypeOK, StreamStates, Workers, Stores, Epochs
  <1>3. journal'.epoch = journal.epoch + 1
    BY <1>1
  <1>4. ~Proven' /\ ~Tracked' /\ w'.before # journal'.epoch
    BY <1>1, <1>2, <1>3 DEF Proven, Tracked
  <1>5. ~Anchored'
    BY <1>4 DEF Anchored
  <1>6. Epochs'
    BY <1>1, <1>2, <1>3 DEF Epochs
  <1>7. Phases'
    <2>1. Phases
      BY DEF ResumeInv
    <2>2. QED
      BY <1>1, <1>4, <2>1 DEF Phases
  <1>8. Identifiers' /\ CursorIsSound' /\ RowsAreTraced' /\ DrainIsComplete'
    BY <1>4, <1>5 DEF Identifiers, CursorIsSound, RowsAreTraced, DrainIsComplete
  <1>9. PassIsExact'
    <2>1. PassIsExact /\ Scope' = Scope
      BY <1>1 DEF ResumeInv, Scope, Under
    <2>2. QED
      BY <1>1, <1>5, <2>1 DEF PassIsExact
  <1>10. QED
    BY <1>6, <1>7, <1>8, <1>9 DEF ResumeInv
\* A step of the stream alone, which keeps the trace of every entry.
LEMMA StreamMoves ==
    ASSUME ResumeInv, StopInv', UNCHANGED <<log, journal, store, w>>,
           stream'.epoch <= journal.epoch,
           w.pc \in Active /\ w.watch /\ Tracked' => Tracked,
           w.pc \in Active /\ w.watch /\ (Proven \/ w.before = journal.epoch) => Tracked',
           w.pc \in Active /\ w.watch /\ Tracked' =>
             /\ journal.base <= stream'.at
             /\ \A e \in stream'.queue \cup w.pending \cup w.events : Position(e.id) <= stream'.at
             /\ \A v : \A p \in Under(Selected) : Traced(v, p) => Traced(v, p)'
    PROVE  ResumeInv'
  <1>1. Proven' <=> Proven
    BY DEF Proven
  <1>2. w.pc \in Active /\ Anchored' => Anchored
    BY <1>1 DEF Anchored
  <1>3. Epochs' /\ Phases'
    BY <1>1 DEF Epochs, Phases, ResumeInv
  <1>4. current_event_id' = current_event_id /\ \A id : Position(id)' = Position(id)
    BY DEF current_event_id, Position
  <1>5. Identifiers'
    <2>1. w.watch /\ Anchored' => Tracked'
      BY DEF Anchored
    <2>2. Identifiers
      BY DEF ResumeInv
    <2>3. QED
      BY <1>1, <1>2, <1>4, <2>1, <2>2 DEF Identifiers
  <1>6. CursorIsSound'
    BY <1>1, <1>2, CursorStays DEF ResumeInv
  <1>7. \A v, p : Settled(v, p)' <=> Settled(v, p)
    <2>1. Ids' = Ids
      BY DEF Ids
    <2>2. \A v, p, id : Fresh(v, p, Position(id))' <=> Fresh(v, p, Position(id))
      BY DEF Fresh, Metadata, Present, Version, Position
    <2>3. QED
      BY <2>1, <2>2 DEF Settled
  <1>8. PassIsExact'
    <2>1. Scope' = Scope /\ Under(Selected)' = Under(Selected)
      BY DEF Scope, Under
    <2>2. \A p : Read(p)' = Read(p)
      BY DEF Read, None
    <2>3. PassIsExact
      BY DEF ResumeInv
    <2>4. ASSUME w.pc \in {"scan", "finish"}, w.pass.broken = "no", Anchored',
                 NEW p \in (Scope \cap Under(Selected)) \ w.pass.todo
          PROVE  Settled(Read(p), p)' /\ (w.watch => Traced(Read(p), p)')
      <3>0. w.pc \in Active
        BY <2>4 DEF Active, Passing
      <3>1. PICK v : v = Read(p)
        OBVIOUS
      <3>2. Settled(v, p) /\ (w.watch => Traced(v, p) /\ Tracked')
        BY <1>2, <2>3, <2>4, <3>0, <3>1 DEF PassIsExact, Anchored
      <3>3. Settled(v, p)' /\ (w.watch => Traced(v, p)')
        BY <1>7, <2>4, <3>0, <3>2
      <3>4. Read(p)' = v
        BY <2>2, <3>1
      <3>5. QED
        BY <3>3, <3>4 DEF Settled, Traced
    <2>5. QED
      BY <2>1, <2>3, <2>4 DEF PassIsExact
  <1>9. RowsAreTraced'
    <2> SUFFICES ASSUME w.pc \in Active, ~w.pass.initial, w.watch, Tracked', NEW p \in Under(Selected)
                 PROVE  Traced(store.rows[p], p)' \/ \E e \in w.events : Marks(e, p)'
      BY DEF RowsAreTraced, Under
    <2>1. PICK v : v = store.rows[p]
      OBVIOUS
    <2>2. Traced(v, p) \/ \E e \in w.events : Marks(e, p)
      BY <2>1 DEF ResumeInv, RowsAreTraced
    <2>3. Traced(v, p)' \/ \E e \in w.events : Marks(e, p)'
      BY <2>2 DEF Marks
    <2>4. QED
      BY <2>1, <2>3 DEF Traced
  <1>10. DrainIsComplete'
    <2> SUFFICES ASSUME w.pc \in Active, w.events # {}, Tracked', NEW p \in Under(Selected)
                 PROVE  \/ Outstanding(p)'
                        \/ Settled(store.rows[p], p)' /\ Traced(store.rows[p], p)'
      BY DEF DrainIsComplete, Under
    <2>1. PICK v : v = store.rows[p]
      OBVIOUS
    <2>2. w.watch
      BY DEF ResumeInv, Phases
    <2>3. Outstanding(p) => Outstanding(p)'
      BY DEF Outstanding, Scope, Under, Marks
    <2>4. Outstanding(p) \/ (Settled(v, p) /\ Traced(v, p))
      BY <2>1, <2>2 DEF ResumeInv, DrainIsComplete
    <2>5. Outstanding(p)' \/ (Settled(v, p)' /\ Traced(v, p)')
      BY <1>7, <2>2, <2>3, <2>4
    <2>6. QED
      BY <2>1, <2>5 DEF Settled, Traced
  <1>11. QED
    BY <1>3, <1>5, <1>6, <1>8, <1>9, <1>10 DEF ResumeInv

\* A full queue that held a wrap notice still announces it.
LEMMA CollectKeepsWrapped ==
    ASSUME NEW q, NEW roots, roots # {}, NEW e, \E x \in q : "wrapped" \in x.flags
    PROVE  \E x \in Collect(q, roots, e) : "wrapped" \in x.flags
  <1> DEFINE controls == {"wrapped"} \cap UNION {x.flags : x \in q}
  <1>1. "wrapped" \in controls
    OBVIOUS
  <1>2. CASE Cardinality(q) >= QueueLimit
    <2>1. Collect(q, roots, e) =
            {[path |-> r, id |-> e.id, flags |-> {"rescan"} \cup controls] : r \in roots}
      BY <1>2 DEF Collect
    <2>2. PICK r \in roots : TRUE
      OBVIOUS
    <2>3. PICK x : x = [path |-> r, id |-> e.id, flags |-> {"rescan"} \cup controls]
      OBVIOUS
    <2>4. x.flags = {"rescan"} \cup controls
      BY <2>3
    <2>5. "wrapped" \in x.flags
      BY <1>1, <2>4
    <2>6. x \in Collect(q, roots, e)
      BY <2>1, <2>2, <2>3
    <2>7. QED
      BY <2>5, <2>6
  <1>3. CASE ~(Cardinality(q) >= QueueLimit)
    <2>1. Collect(q, roots, e) = q \cup {e}
      BY <1>3 DEF Collect
    <2>2. QED
      BY <2>1
  <1>4. QED
    BY <1>2, <1>3

\* An event below the roots names every entry below the roots it affects.
LEMMA EventMarks ==
    ASSUME OneSelection, NEW c \in Changes, NEW p \in Under(Selected), Affects(c, p)
    PROVE  c.path \in Under(Selected) /\ Marks(Event(c), p)
  <1>1. Selected \subseteq Paths /\ c.path \in Paths /\ p \in Paths /\ NoPath \notin Paths
    BY OneRoot, RootsArePaths, UnderPaths, NamespaceAssumption DEF Changes
  <1>2. PICK e : e = Event(c)
    OBVIOUS
  <1>3. e.path = c.path
    BY <1>2 DEF Event
  <1>4. CASE c.path = p
    BY <1>1, <1>2, <1>3, <1>4 DEF Marks
  <1>5. CASE Parent[c.path] = p
    <2>1. Parent[p] = NoPath
      BY <1>1, <1>5, NamespaceAssumption
    <2>2. p \in Selected
      BY <1>1, <2>1 DEF Under
    <2>3. QED
      BY <1>1, <1>2, <1>3, <1>5, <2>2 DEF Marks, Under
  <1>6. QED
    BY <1>4, <1>5 DEF Affects

LEMMA ResumeByDelivery ==
    ASSUME OneSelection, ResumeInv, StopInv', Deliver
    PROVE  ResumeInv'
  <1>0. StopInv /\ TypeOK
    BY DEF ResumeInv, StopInv
  <1>1. UNCHANGED <<log, journal, store, w>> /\ stream' \in StreamStates
    BY <1>0, DeliveryFields
  <1>2. /\ stream.epoch <= journal.epoch /\ stream.epoch \in Nat /\ journal.epoch \in Nat
        /\ stream.at \in Nat /\ journal.base \in Nat /\ Len(log) \in Nat
        /\ stream.queue \subseteq Delivered /\ w.pending \subseteq Delivered
        /\ w.events \subseteq Reported
    BY <1>0 DEF ResumeInv, Epochs, TypeOK, StreamStates, Workers
  <1>3. w.pc \in Active /\ w.watch /\ (Proven \/ w.before = journal.epoch) => Tracked
    BY DEF ResumeInv, Phases
  <1>4. w.pc \in Active /\ w.watch /\ Tracked =>
          /\ journal.base <= stream.at
          /\ \A e \in stream.queue \cup w.pending \cup w.events : Position(e.id) <= stream.at
    BY DEF ResumeInv, Identifiers, Anchored
  <1>5. CASE /\ stream'.at = stream.at /\ stream'.epoch = stream.epoch
             /\ stream'.queue = stream.queue \cup {Control("done")}
    <2>1. Control("done").flags = {"done"} /\ Control("done").id = 0
      BY DEF Control
    <2>2. Tracked' <=> Tracked
      BY <1>1, <1>5, <2>1 DEF Tracked
    <2>3. \A v, p : Traced(v, p) => Traced(v, p)'
      BY <1>1, <1>5, TracedStays
    <2>4. journal.base <= stream.at => Position(Control("done").id) <= stream.at
      BY <1>2, <2>1 DEF Position
    <2>5. QED
      BY <1>1, <1>2, <1>3, <1>4, <1>5, <2>2, <2>3, <2>4, StreamMoves
  <1>6. CASE /\ stream'.at = stream.at /\ stream'.epoch = journal.epoch
             /\ stream.epoch # journal.epoch
             /\ stream'.queue = stream.queue \cup {Control("wrapped")}
    <2>1. "wrapped" \in Control("wrapped").flags
      BY DEF Control
    <2>2. ~Tracked /\ ~Tracked'
      BY <1>1, <1>6, <2>1 DEF Tracked
    <2>3. stream'.epoch <= journal.epoch
      BY <1>2, <1>6
    <2>4. QED
      BY <1>1, <1>3, <2>2, <2>3, StreamMoves
  <1>7. CASE /\ stream'.at = stream.at + 1 /\ stream.at + 1 \in DOMAIN log
             /\ stream'.epoch = stream.epoch
             /\ Event(log[stream.at + 1]) \in Reported
             /\ stream'.queue = IF log[stream.at + 1].path \in Under(w.roots)
                                  THEN Collect(stream.queue, w.roots, Event(log[stream.at + 1]))
                                  ELSE stream.queue
    <2>1. PICK i \in Nat : i = stream.at + 1 /\ i \in DOMAIN log
      BY <1>2, <1>7
    <2>2. PICK c \in Changes : c = log[i]
      <3>1. log \in Seq(Changes)
        BY <1>0 DEF TypeOK
      <3>2. log[i] \in Changes
        BY <2>1, <3>1
      <3>3. QED
        BY <3>2, Zenon
    <2>3. PICK e \in Reported : e = Event(c)
      BY <1>7, <2>1, <2>2
    <2>4. PICK q : q = stream'.queue
      OBVIOUS
    <2>5. q = IF c.path \in Under(w.roots) THEN Collect(stream.queue, w.roots, e) ELSE stream.queue
      BY <1>7, <2>1, <2>2, <2>3, <2>4
    <2>6. e.id = c.id /\ "wrapped" \notin e.flags
      BY <2>3 DEF Event
    <2>7. ASSUME w.pc \in Active
          PROVE  /\ w.roots = Selected /\ Selected # {} /\ Selected \subseteq Paths
      <3>1. w.pc # "none"
        BY <2>7 DEF Active, Passing, Beginning
      <3>2. w.roots \in RootSets
        BY <1>0, <3>1 DEF StopInv, Threads
      <3>3. QED
        BY <3>2, OneRoot, RootsArePaths
    <2>8. ASSUME w.pc \in Active
          PROVE  /\ \A x \in q : x \in stream.queue \/ x.id = e.id
                 /\ (\A x \in stream.queue \cup {e} : "wrapped" \notin x.flags) =>
                      \A x \in q : "wrapped" \notin x.flags
                 /\ (\E x \in stream.queue : "wrapped" \in x.flags) =>
                      \E x \in q : "wrapped" \in x.flags
                 /\ \A p : (\E x \in stream.queue : Marks(x, p)) => \E x \in q : Marks(x, p)
                 /\ \A p : c.path \in Under(Selected) /\ Marks(e, p) => \E x \in q : Marks(x, p)
      <3>1. CASE c.path \in Under(w.roots)
        <4>1. q = Collect(stream.queue, w.roots, e)
          BY <2>5, <3>1
        <4>2. w.roots \subseteq Paths /\ w.roots # {}
          BY <2>7, <2>8
        <4>3. /\ \A x \in q : x \in stream.queue \/ x.id = e.id
              /\ (\A x \in stream.queue \cup {e} : "wrapped" \notin x.flags) =>
                   \A x \in q : "wrapped" \notin x.flags
              /\ \A p : (\E x \in stream.queue \cup {e} : Marks(x, p)) => \E x \in q : Marks(x, p)
          <5>1. PICK old, roots : old = stream.queue /\ roots = w.roots
            OBVIOUS
          <5>2. old \subseteq Delivered /\ roots \subseteq Paths /\ roots # {}
                /\ q = Collect(old, roots, e)
            BY <1>2, <4>1, <4>2, <5>1
          <5>3. /\ \A x \in q : x \in old \/ x.id = e.id
                /\ (\A x \in old \cup {e} : "wrapped" \notin x.flags) =>
                     \A x \in q : "wrapped" \notin x.flags
                /\ \A p : (\E x \in old \cup {e} : Marks(x, p)) => \E x \in q : Marks(x, p)
            BY <5>2, CollectKeeps
          <5>4. QED
            BY <5>1, <5>3
        <4>4. (\E x \in stream.queue : "wrapped" \in x.flags) => \E x \in q : "wrapped" \in x.flags
          BY <4>1, <4>2, CollectKeepsWrapped
        <4>5. QED
          BY <4>3, <4>4
      <3>2. CASE c.path \notin Under(w.roots)
        BY <2>5, <2>7, <2>8, <3>2
      <3>3. QED
        BY <3>1, <3>2
    <2>9. w.pc \in Active => (Tracked' <=> Tracked)
      BY <1>1, <1>7, <2>4, <2>6, <2>8 DEF Tracked
    <2>10. ASSUME w.pc \in Active, w.watch, Tracked'
           PROVE  /\ journal.base <= stream'.at
                  /\ \A x \in stream'.queue \cup w.pending \cup w.events : Position(x.id) <= stream'.at
                  /\ \A v : \A p \in Under(Selected) : Traced(v, p) => Traced(v, p)'
      <3>1. /\ journal.base <= stream.at
            /\ \A x \in stream.queue \cup w.pending \cup w.events : Position(x.id) <= stream.at
        BY <1>4, <2>9, <2>10
      <3>2. i > journal.base /\ stream'.at = i
        BY <1>2, <1>7, <2>1, <3>1
      <3>3. c.id = i - journal.base + 1
        BY <1>0, <2>1, <2>2, <3>2 DEF StopInv, Numbering
      <3>4. Position(e.id) = i
        BY <1>2, <2>6, <3>3 DEF Position
      <3>5. \A x \in Delivered : x.id \in Nat
        BY ControlTyped DEF Delivered, Reported
      <3>6. \A x \in stream.queue \cup w.pending \cup w.events : Position(x.id) <= i
        <4> SUFFICES ASSUME NEW x \in stream.queue \cup w.pending \cup w.events
                     PROVE  Position(x.id) <= i
          OBVIOUS
        <4>1. x.id \in Nat
          BY <1>2, <3>5 DEF Delivered
        <4>2. QED
          BY <1>2, <2>1, <3>1, <4>1 DEF Position
      <3>7. \A x \in stream'.queue \cup w.pending \cup w.events : Position(x.id) <= stream'.at
        <4> SUFFICES ASSUME NEW x \in stream'.queue \cup w.pending \cup w.events
                     PROVE  Position(x.id) <= i
          BY <3>2
        <4>1. CASE x \in stream.queue \cup w.pending \cup w.events
          BY <3>6, <4>1
        <4>2. CASE x \in q /\ x.id = e.id
          BY <3>4, <4>2
        <4>3. QED
          BY <2>4, <2>8, <2>10, <4>1, <4>2
      <3>8. ASSUME NEW v, NEW p \in Under(Selected), Traced(v, p) PROVE Traced(v, p)'
        <4>1. CASE \E x \in stream.queue \cup w.pending : Marks(x, p)
          <5>1. \E x \in q \cup w.pending : Marks(x, p)
            BY <2>8, <2>10, <4>1
          <5>2. QED
            BY <1>1, <2>4, <5>1 DEF Traced, Marks
        <4>2. CASE Fresh(v, p, stream.at)
          <5>1. CASE Affects(c, p)
            <6>1. c.path \in Under(Selected) /\ Marks(e, p)
              BY <2>3, <5>1, EventMarks
            <6>2. \E x \in q : Marks(x, p)
              BY <2>8, <2>10, <6>1
            <6>3. QED
              BY <1>1, <2>4, <6>2 DEF Traced, Marks
          <5>2. CASE ~Affects(c, p)
            <6>1. \A j \in DOMAIN log : j \in Nat
              BY <1>0 DEF TypeOK
            <6>2. \A j \in DOMAIN log : j > stream.at /\ Affects(log[j], p) => j > i
              BY <1>2, <2>1, <2>2, <5>2, <6>1
            <6>3. Fresh(v, p, i)
              BY <4>2, <6>2 DEF Fresh
            <6>4. Fresh(v, p, i)'
              BY <1>1, <6>3, FreshSame
            <6>5. Fresh(v, p, stream.at)'
              BY <3>2, <6>4 DEF Fresh
            <6>6. QED
              BY <6>5 DEF Traced
          <5>3. QED
            BY <5>1, <5>2
        <4>3. QED
          BY <3>8, <4>1, <4>2 DEF Traced
      <3>9. journal.base <= stream'.at
        BY <1>2, <2>1, <3>2
      <3>10. QED
        BY <3>7, <3>8, <3>9
    <2>11. stream'.epoch <= journal.epoch
      BY <1>2, <1>7
    <2>12. QED
      BY <1>1, <1>3, <2>9, <2>10, <2>11, StreamMoves
  <1>8. QED
    BY <1>0, <1>5, <1>6, <1>7, DeliveryFields
-----------------------------------------------------------------------------
\* The resume point

LEMMA ResumeInitially == Init => ResumeInv
  <1> SUFFICES ASSUME Init PROVE ResumeInv
    OBVIOUS
  <1>1. StopInv
    BY StopInitially
  <1>2. /\ w.pc = "none" /\ w.before = NoEpoch /\ w.events = {}
        /\ store.proof = NoProof /\ stream.epoch = 0 /\ journal.epoch = 1
    BY NoWorkerTyped DEF Init, Closed
  <1>3. w.pc \notin Active /\ w.pc \notin {"prune", "decide", "scan", "finish"}
        /\ w.pc \notin Passing /\ w.pc \notin Beginning
    BY <1>2 DEF Active, Passing, Beginning
  <1>4. Epochs /\ CursorIsSound
    BY <1>2, <1>3 DEF Epochs, CursorIsSound, Proven, NoEpoch
  <1>5. Phases
    BY <1>2, <1>3 DEF Phases
  <1>6. Identifiers /\ PassIsExact /\ RowsAreTraced /\ DrainIsComplete
    BY <1>3 DEF Identifiers, PassIsExact, RowsAreTraced, DrainIsComplete
  <1>7. QED
    BY <1>1, <1>4, <1>5, <1>6 DEF ResumeInv

LEMMA ResumeStep ==
    ASSUME OneSelection
    PROVE  ResumeInv /\ [Next]_vars => ResumeInv'
  <1> SUFFICES ASSUME ResumeInv, [Next]_vars PROVE ResumeInv'
    OBVIOUS
  <1>0. StopInv'
    BY StopStep DEF ResumeInv
  <1>1. CASE UNCHANGED vars
    <2>1. UNCHANGED <<log, journal, stream, w>> /\ UNCHANGED store
      BY <1>1 DEF vars
    <2>2. QED
      BY <1>0, <2>1, TraceStays
  <1>2. CASE Change \/ Wrap \/ Deliver
    BY <1>0, <1>2, ResumeByChange, ResumeByWrap, ResumeByDelivery
  <1>3. CASE Client
    BY <1>0, <1>3, ResumeByRequest, ResumeByRetain, ResumeByProcess DEF Client
  <1>4. CASE Stop \/ StopCancels \/ CancelScan \/ Crash \/ Reopen
    BY <1>0, <1>4, ResumeByRequest, ResumeByProcess
  <1>5. CASE Prune \/ StopWatching \/ Restart \/ Exit \/ StepFails
    BY <1>0, <1>5, ResumeByEnd
  <1>6. CASE EnterPass \/ ScanEntry \/ CommitBatch \/ EndScan \/ FinishPass
    BY <1>0, <1>6, ResumeByEnter, ResumeByEntry, ResumeByBatch, ResumeByEndScan, ResumeByFinish
  <1>7. CASE RetryBaseline \/ ClearRetry \/ ClearCancel \/ Checkpoint \/ Decide
    BY <1>0, <1>7, ResumeByClear, ResumeByCheckpoint, ResumeByDecide
  <1>8. CASE Drain \/ Plan \/ Acknowledge
    BY <1>0, <1>8, ResumeByDrain, ResumeByPlan, ResumeByAcknowledge
  <1>9. QED
    BY <1>1, <1>2, <1>3, <1>4, <1>5, <1>6, <1>7, <1>8 DEF Next, WorkerStep

\* An identifier beyond the cursor is a position beyond the cursor's.
LEMMA SoundResume ==
    ASSUME OneSelection
    PROVE  ResumeInv => ResumePointIsSound
  <1> SUFFICES ASSUME ResumeInv, store.roots # {}, Resumable(journal.epoch, store.roots),
                      NEW p \in Under(store.roots)
               PROVE  store.rows[p] = Metadata(p) \/ Replayed(p)
    BY DEF ResumePointIsSound
  <1>1. store.roots = Selected
    BY OneRoot DEF ResumeInv, StopInv, TypeOK, Stores
  <1>2. Proven
    BY DEF Resumable, Proven
  <1>3. /\ store.cursor \in 1 .. current_event_id
        /\ Fresh(store.rows[p], p, Position(store.cursor))
    BY <1>1, <1>2 DEF ResumeInv, CursorIsSound
  <1>4. CASE store.rows[p] = Metadata(p)
    BY <1>4
  <1>5. CASE \E i \in DOMAIN log : i > Position(store.cursor) /\ Affects(log[i], p)
    <2>1. PICK i \in DOMAIN log : i > Position(store.cursor) /\ Affects(log[i], p)
      BY <1>5
    <2>2. journal.base \in Nat /\ Len(log) \in Nat /\ i \in Nat
      BY DEF ResumeInv, StopInv, TypeOK
    <2>3. store.cursor \in Nat /\ store.cursor >= 1
      BY <1>3, <2>2 DEF current_event_id
    <2>4. i > journal.base
      BY <2>1, <2>2, <2>3 DEF Position
    <2>5. log[i].id = i - journal.base + 1
      BY <2>4 DEF ResumeInv, StopInv, Numbering
    <2>6. log[i].id > store.cursor
      BY <2>1, <2>2, <2>3, <2>5 DEF Position
    <2>7. QED
      BY <2>1, <2>4, <2>6 DEF Replayed
  <1>6. QED
    BY <1>3, <1>4, <1>5 DEF Fresh

LEMMA SoundWatch ==
    ASSUME OneSelection
    PROVE  ResumeInv => StaleRowsHaveEvents
  <1> SUFFICES ASSUME ResumeInv, w.pc = "watch", stream.epoch = journal.epoch,
                      NEW p \in Under(w.roots)
               PROVE  \/ store.rows[p] = Metadata(p)
                      \/ \E e \in stream.queue \cup w.pending : Covers(e, p)
                      \/ \E i \in stream.at + 1 .. Len(log) : Affects(log[i], p)
    BY DEF StaleRowsHaveEvents
  <1>1. w.roots = Selected
    <2>1. w.roots \in RootSets
      BY DEF ResumeInv, StopInv, Threads
    <2>2. QED
      BY <2>1, OneRoot
  <1>2. w.pc \in Active /\ w.events = {} /\ w.watch /\ ~w.pass.initial
    BY DEF ResumeInv, Phases, Active
  <1>3. CASE ~Tracked
    <2>1. PICK e \in stream.queue : "wrapped" \in e.flags
      BY <1>3 DEF Tracked
    <2>2. QED
      BY <2>1 DEF Covers
  <1>4. CASE Tracked
    <2>1. Traced(store.rows[p], p)
      BY <1>1, <1>2, <1>4 DEF ResumeInv, RowsAreTraced
    <2>2. CASE Fresh(store.rows[p], p, stream.at)
      <3>1. DOMAIN log = 1 .. Len(log) /\ Len(log) \in Nat /\ stream.at \in Nat
        BY DEF ResumeInv, StopInv, TypeOK, StreamStates
      <3>2. \A i \in DOMAIN log : i > stream.at => i \in stream.at + 1 .. Len(log)
        BY <3>1
      <3>3. QED
        BY <2>2, <3>2 DEF Fresh
    <2>3. CASE \E e \in stream.queue \cup w.pending : Marks(e, p)
      <3>1. PICK e \in stream.queue \cup w.pending : Marks(e, p)
        BY <2>3
      <3>2. p \in Paths
        BY <1>1, OneRoot, RootsArePaths, UnderPaths
      <3>3. Covers(e, p)
        BY <3>1, <3>2 DEF Marks, Covers, Under
      <3>4. QED
        BY <3>1, <3>3
    <2>4. QED
      BY <2>1, <2>2, <2>3 DEF Traced
  <1>5. QED
    BY <1>3, <1>4

\* The inductive invariant of the worker: while every client asks for the same
\* roots, each row, batch, pending event and identifier accounts for the changes
\* of the file system up to a position of the journal's current epoch.
THEOREM WorkerInvariant ==
    ASSUME OneSelection
    PROVE  Spec => []ResumeInv
  <1>1. ResumeInv /\ [Next]_vars => ResumeInv'
    BY ResumeStep
  <1>2. QED
    BY ResumeInitially, <1>1, PTL DEF Spec

\* A persisted cursor and proof that scan_worker would resume from miss no
\* change: after any crash, cancellation, conflict, error or wrap, each row below
\* the roots is exact or has a journal event newer than the cursor.
THEOREM ResumeMissesNothing ==
    ASSUME OneSelection
    PROVE  Spec => []ResumePointIsSound
  <1>1. ResumeInv => ResumePointIsSound
    BY SoundResume
  <1>2. Spec => []ResumeInv
    BY WorkerInvariant
  <1>3. QED
    BY <1>1, <1>2, PTL

\* In the watch loop no stale row is forgotten: an event for it is ahead of the
\* stream, in collect_event's queue or among the pending events of a pass.
THEOREM StaleRowsAreRemembered ==
    ASSUME OneSelection
    PROVE  Spec => []StaleRowsHaveEvents
  <1>1. ResumeInv => StaleRowsHaveEvents
    BY SoundWatch
  <1>2. Spec => []ResumeInv
    BY WorkerInvariant
  <1>3. QED
    BY <1>1, <1>2, PTL
=============================================================================
