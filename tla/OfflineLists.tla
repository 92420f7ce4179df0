----------------------------- MODULE OfflineLists -----------------------------
(***************************************************************************)
(* Imported lists in the search service (macos/SearchService.swift).  A     *)
(* list's engine is opened by the first request that needs it, outside the  *)
(* registry's lock, while later ones wait; it is shared by counted leases   *)
(* that requests, snapshot references and exports hold, and one idle engine *)
(* is kept.  A snapshot token keeps its engine through a reference with a   *)
(* deadline, which a timer removes when no request uses it.                 *)
(*                                                                         *)
(* Objects (Entry, OfflineEngineLease, OfflineSnapshotReference) are        *)
(* numbers, reused once nothing refers to them.  A lease whose last holder  *)
(* let it go is released by a step of its own: deinit takes the lock later. *)
(***************************************************************************)
EXTENDS Integers, FiniteSets, Functions

CONSTANTS
    Lists, Callers,
    EntryIds, LeaseIds, ReferenceIds, Tokens,
    OfflineLifetime,    \* offlineSnapshotLifetime
    MaxTime,            \* bound on the clock
    MaxAsked,           \* bound on the requests
    Nothing

ASSUME OfflineAssumption ==
    /\ EntryIds \cup LeaseIds \cup ReferenceIds \subseteq Nat
    /\ IsFiniteSet(LeaseIds) /\ IsFiniteSet(Callers)
    /\ Nothing \notin EntryIds \cup LeaseIds \cup ReferenceIds \cup Lists \cup Tokens
    /\ OfflineLifetime \in Nat

VARIABLES
    table,      \* OfflineEngineRegistry.entries, by list
    entry,      \* the Entry objects
    older,      \* lastUsed: pairs of engines, the first used before the second
    handed,     \* the live leases: the entry each was made for
    call,       \* the request of each caller
    kept,       \* offlineSnapshotLeases: the reference of each token
    reference,  \* the OfflineSnapshotReference objects
    core,       \* the snapshot leases inside the engines: entry by token
    time,
    asked       \* requests so far

offlineVars == << table, entry, older, handed, call, kept, reference, core, time, asked >>

Resting == [pc |-> "idle", list |-> Nothing, op |-> Nothing, entry |-> Nothing,
            lease |-> Nothing, ref |-> Nothing, token |-> Nothing]

OfflineInit ==
    /\ table = [i \in Lists |-> Nothing]
    /\ entry = << >> /\ older = {} /\ handed = << >>
    /\ call = [c \in Callers |-> Resting]
    /\ kept = << >> /\ reference = << >> /\ core = << >>
    /\ time = 0 /\ asked = 0

FreeIds(ids, f) == ids \ DOMAIN f
NextFree(ids, f) == CHOOSE i \in FreeIds(ids, f) : \A j \in FreeIds(ids, f) : i <= j
Omit(f, gone) == Restrict(f, DOMAIN f \ gone)
Put(f, k, v) == [x \in DOMAIN f \cup {k} |-> IF x = k THEN v ELSE f[x]]
MoveLast(es, e) ==
    {u \in older : e \notin {u[1], u[2]}}
        \cup {<< x, e >> : x \in {y \in DOMAIN es \ {e} : es[y].state = "loaded"}}

-----------------------------------------------------------------------------
(* OfflineEngineRegistry. *)

\* makeLease: a lease of the caller's request.
MakeLease(c, e, next) ==
    LET l == NextFree(LeaseIds, handed)
    IN  /\ FreeIds(LeaseIds, handed) # {}
        /\ handed' = Put(handed, l, e)
        /\ call' = [call EXCEPT ![c] = [@ EXCEPT !.pc = next, !.lease = l]]

\* evictIdleLocked: all idle engines but the one used last.
Evicted(es, order, excluded) ==
    LET idle == {e \in DOMAIN es : /\ es[e].references = 0 /\ es[e].state = "loaded"
                                   /\ es[e].list # excluded}
    IN  {e \in idle : \E f \in idle : << e, f >> \in order}

Evict(es, order, excluded) ==
    LET gone == Evicted(es, order, excluded)
    IN  /\ entry' = Omit(es, gone)
        /\ older' = {u \in order : u[1] \notin gone /\ u[2] \notin gone}
        /\ table' = [i \in Lists |-> IF table[i] \in gone THEN Nothing ELSE table[i]]

\* acquire, up to the unlock: share the engine, wait for its loader, or become it.
AcquireEngine(c) ==
    LET i == call[c].list
        e == table[i]
    IN  /\ call[c].pc = "acquire"
        /\ \/ /\ e # Nothing /\ entry[e].state = "loaded"
              /\ entry' = [entry EXCEPT ![e].references = @ + 1]
              /\ older' = MoveLast(entry, e)
              /\ MakeLease(c, e, "call")
              /\ UNCHANGED table
           \/ /\ e # Nothing /\ entry[e].state = "loading"
              /\ entry' = [entry EXCEPT ![e].waiters = @ + 1]
              /\ call' = [call EXCEPT ![c] = [@ EXCEPT !.pc = "wait", !.entry = e]]
              /\ UNCHANGED << table, older, handed >>
           \/ /\ e = Nothing /\ FreeIds(EntryIds, entry) # {}
              /\ LET n == NextFree(EntryIds, entry)
                 IN  /\ entry' = Put(entry, n, [list |-> i, state |-> "loading", references |-> 0,
                                             waiters |-> 0, signals |-> 0])
                     /\ table' = [table EXCEPT ![i] = n]
                     /\ call' = [call EXCEPT ![c] = [@ EXCEPT !.pc = "load", !.entry = n]]
              /\ UNCHANGED << older, handed >>
        /\ UNCHANGED << kept, reference, core, time, asked >>

\* Mutant: a waiter counts its reference when it wakes, and not the loader for it.
LoadedForOne(e) == [entry[e] EXCEPT !.state = "loaded", !.waiters = 0, !.signals = entry[e].waiters,
                                    !.references = 1]

\* The loader reserves a reference for every waiter before it signals them.
Loaded(e) == [entry[e] EXCEPT !.state = "loaded", !.waiters = 0, !.signals = entry[e].waiters,
                              !.references = 1 + entry[e].waiters]

LoadEngine(c) ==
    LET e == call[c].entry
        es == [entry EXCEPT ![e] = Loaded(e)]
    IN  /\ call[c].pc = "load"
        /\ MakeLease(c, e, "call")
        /\ Evict(es, MoveLast(es, e), entry[e].list)
        /\ UNCHANGED << kept, reference, core, time, asked >>

\* The open failed: the entry leaves the table, and the waiters are told.
LoadFails(c) ==
    LET e == call[c].entry
        failed == [entry[e] EXCEPT !.state = "failed", !.waiters = 0, !.signals = entry[e].waiters]
    IN  /\ call[c].pc = "load"
        /\ table' = [table EXCEPT ![entry[e].list] = Nothing]
        /\ entry' = IF failed.signals = 0 THEN Omit(entry, {e}) ELSE [entry EXCEPT ![e] = failed]
        /\ call' = [call EXCEPT ![c] = Resting]
        /\ UNCHANGED << older, handed, kept, reference, core, time, asked >>

WakeWaiter(c) ==
    LET e == call[c].entry
        woken == [entry EXCEPT ![e].signals = @ - 1]
    IN  /\ call[c].pc = "wait" /\ entry[e].signals > 0
        /\ \/ /\ entry[e].state = "loaded"
              /\ entry' = woken
              /\ MakeLease(c, e, "call")
           \/ /\ entry[e].state = "failed"
              /\ entry' = IF entry[e].signals = 1 THEN Omit(entry, {e}) ELSE woken
              /\ call' = [call EXCEPT ![c] = Resting]
              /\ UNCHANGED handed
        /\ UNCHANGED << table, older, kept, reference, core, time, asked >>

HeldBy(l) == {c \in Callers : call[c].lease = l}
             \cup {r \in DOMAIN reference : reference[r].lease = l}

\* OfflineEngineLease.deinit and release.
ReleaseLease(l) ==
    /\ HeldBy(l) = {}
    /\ handed' = Omit(handed, {l})
    /\ LET e == handed[l]
           es == [entry EXCEPT ![e].references = @ - 1]
       IN  IF e \notin DOMAIN entry \/ table[entry[e].list] # e
           THEN UNCHANGED << entry, older, table >>
           ELSE IF es[e].references = 0 THEN Evict(es, MoveLast(es, e), Nothing)
           ELSE entry' = es /\ older' = MoveLast(es, e) /\ UNCHANGED table
    /\ UNCHANGED << call, kept, reference, core, time, asked >>

-----------------------------------------------------------------------------
(* Requests of a list. *)

\* A first query, retain_snapshot or export; a later page or release_snapshot of a token.
Ask(c, i, op) ==
    /\ call[c] = Resting
    /\ call' = [call EXCEPT ![c] = [@ EXCEPT !.pc = "acquire", !.list = i, !.op = op]]
    /\ asked < MaxAsked /\ asked' = asked + 1
    /\ UNCHANGED << table, entry, older, handed, kept, reference, core, time >>

\* borrowOfflineSnapshotLease: the reference lends its lease, or the list is opened anew.
AskToken(c, i, op, t) ==
    /\ call[c] = Resting
    /\ LET found == t \in DOMAIN kept /\ reference[kept[t]].list = i
       IN  /\ IF found THEN reference' = [reference EXCEPT ![kept[t]].users = @ + 1]
                       ELSE UNCHANGED reference
           /\ call' = [call EXCEPT ![c] =
                 [@ EXCEPT !.pc = IF found THEN "call" ELSE "acquire",
                           !.list = i, !.op = op, !.token = t,
                           !.ref = IF found THEN kept[t] ELSE Nothing,
                           !.lease = IF found THEN reference[kept[t]].lease ELSE Nothing]]
    /\ asked < MaxAsked /\ asked' = asked + 1
    /\ UNCHANGED << table, entry, older, handed, kept, core, time >>

EngineOf(c) == handed[call[c].lease]

\* The engine answers: a new token, a page through one, its release, or an error.
CallEngine(c) ==
    LET r == call[c]
        e == EngineOf(c)
    IN  /\ r.pc = "call"
        /\ \/ /\ r.op = "query"
              /\ \E t \in Tokens \ (DOMAIN core \cup DOMAIN kept \cup {call[d].token : d \in Callers}) :
                    /\ core' = Put(core, t, e)
                    /\ call' = [call EXCEPT ![c] = [@ EXCEPT !.pc = "retain", !.token = t]]
           \/ /\ r.op = "page" /\ r.token \in DOMAIN core /\ core[r.token] = e
              /\ call' = [call EXCEPT ![c].pc = "touch"] /\ UNCHANGED core
           \/ /\ r.op = "release"
              /\ core' = IF r.token \in DOMAIN core /\ core[r.token] = e
                         THEN Omit(core, {r.token}) ELSE core
              /\ call' = [call EXCEPT ![c].pc = "finish"]
           \/ /\ r.op # "release"
              /\ call' = [call EXCEPT ![c].pc = "finish"] /\ UNCHANGED core
        /\ UNCHANGED << table, entry, older, handed, kept, reference, time, asked >>

\* touchOfflineSnapshotLease
TouchReference(c) ==
    LET t == call[c].token
    IN  /\ call[c].pc = "touch"
        /\ reference' = IF t \in DOMAIN kept
                        THEN [reference EXCEPT ![kept[t]].deadline = time + OfflineLifetime]
                        ELSE reference
        /\ call' = [call EXCEPT ![c].pc = "finish"]
        /\ UNCHANGED << table, entry, older, handed, kept, core, time, asked >>

\* retainOfflineSnapshotLease, for a token the table does not have yet.
RetainReference(c) ==
    LET r == NextFree(ReferenceIds, reference)
    IN  /\ call[c].pc = "retain" /\ FreeIds(ReferenceIds, reference) # {}
        /\ reference' = Put(reference, r, [list |-> call[c].list, lease |-> call[c].lease, users |-> 0,
                                           deadline |-> time + OfflineLifetime])
        /\ kept' = Put(kept, call[c].token, r)
        /\ call' = [call EXCEPT ![c] = Resting]
        /\ UNCHANGED << table, entry, older, handed, core, time, asked >>

\* finishOfflineSnapshotLease: a release removes the reference; the last page of an
\* expired one removes it and its snapshot, and the object goes with its last user.
FinishReference(c) ==
    LET r == call[c].ref
        t == call[c].token
        left == reference[r].users - 1
        expired == reference[r].deadline <= time
        mine == t \in DOMAIN kept /\ kept[t] = r
        remove == mine /\ (call[c].op = "release" \/ (expired /\ left = 0))
    IN  /\ call[c].pc = "finish" /\ r # Nothing
        /\ kept' = IF remove THEN Omit(kept, {t}) ELSE kept
        /\ reference' = IF left = 0 /\ (remove \/ ~mine) THEN Omit(reference, {r})
                        ELSE [reference EXCEPT ![r].users = left]
        /\ core' = IF remove /\ expired /\ t \in DOMAIN core THEN Omit(core, {t}) ELSE core
        /\ call' = [call EXCEPT ![c] = Resting]
        /\ UNCHANGED << table, entry, older, handed, time, asked >>

FinishCall(c) ==
    /\ call[c].pc = "finish" /\ call[c].ref = Nothing
    /\ call' = [call EXCEPT ![c] = Resting]
    /\ UNCHANGED << table, entry, older, handed, kept, reference, core, time, asked >>

ExpiredTokens == {t \in DOMAIN kept : /\ reference[kept[t]].deadline <= time
                                      /\ reference[kept[t]].users = 0}

\* cleanupExpiredOfflineSnapshotLeases, by its timer and before every request.  The
\* snapshots are released outside the lock, by a list nobody else can reach any more.
CleanUpReferences ==
    /\ ExpiredTokens # {}
    /\ kept' = Omit(kept, ExpiredTokens)
    /\ reference' = Omit(reference, {kept[t] : t \in ExpiredTokens})
    /\ core' = Omit(core, ExpiredTokens)
    /\ UNCHANGED << table, entry, older, handed, call, time, asked >>

\* The engine discards a snapshot by its own deadline, set before the service's.
CoreExpires(t) ==
    /\ t \in DOMAIN core /\ time > 0
    /\ core' = Omit(core, {t})
    /\ UNCHANGED << table, entry, older, handed, call, kept, reference, time, asked >>

ClockAdvances ==
    /\ time < MaxTime
    /\ time' = time + 1
    /\ UNCHANGED << table, entry, older, handed, call, kept, reference, core, asked >>

OfflineNext ==
    \/ \E c \in Callers :
        \/ \E i \in Lists : \/ Ask(c, i, "query")
                            \/ \E op \in {"page", "release"}, t \in Tokens : AskToken(c, i, op, t)
        \/ AcquireEngine(c) \/ LoadEngine(c) \/ LoadFails(c) \/ WakeWaiter(c) \/ CallEngine(c)
        \/ TouchReference(c) \/ RetainReference(c) \/ FinishReference(c) \/ FinishCall(c)
    \/ \E l \in DOMAIN handed : ReleaseLease(l)
    \/ CleanUpReferences \/ (\E t \in Tokens : CoreExpires(t)) \/ ClockAdvances

OfflineSpec == OfflineInit /\ [][OfflineNext]_offlineVars

-----------------------------------------------------------------------------
IdleEngines == {e \in DOMAIN entry : entry[e].state = "loaded" /\ entry[e].references = 0}

(* EnginesAccounted: however loads, waits, pages, releases and expiries     *)
(* interleave, an engine's references are its leases and the waiters        *)
(* already signalled; so the engine of every lease is the one its list has  *)
(* (an index is never open twice), at most one idle engine is kept, and     *)
(* every snapshot held inside an engine has a reference that will release   *)
(* it, or a request about to make one.                                      *)
EnginesAccounted ==
    /\ \A e \in DOMAIN entry : entry[e].state = "loaded" =>
        entry[e].references =
            Cardinality({l \in DOMAIN handed : handed[l] = e}) + entry[e].signals
    /\ \A l \in DOMAIN handed :
        handed[l] \in DOMAIN entry /\ table[entry[handed[l]].list] = handed[l]
    /\ Cardinality(IdleEngines) <= 1
    /\ \A t \in DOMAIN core :
        t \in DOMAIN kept \/ \E c \in Callers : call[c].pc = "retain" /\ call[c].token = t

-----------------------------------------------------------------------------
(* The inductive invariant behind it. *)

Engines == [list : Lists, state : {"loading", "loaded", "failed"}, references : Nat,
            waiters : Nat, signals : Nat]
Served == {"call", "retain", "touch", "finish"}
Calls == [pc : {"idle", "acquire", "load", "wait"} \cup Served, list : Lists \cup {Nothing},
          op : {"query", "page", "release", Nothing}, entry : EntryIds \cup {Nothing},
          lease : LeaseIds \cup {Nothing}, ref : ReferenceIds \cup {Nothing},
          token : Tokens \cup {Nothing}]
SnapshotReferences == [list : Lists, lease : LeaseIds, users : Nat, deadline : Nat]

OfflineTypeOK ==
    /\ table \in [Lists -> EntryIds \cup {Nothing}]
    /\ DOMAIN entry \subseteq EntryIds /\ entry \in [DOMAIN entry -> Engines]
    /\ DOMAIN handed \subseteq LeaseIds /\ handed \in [DOMAIN handed -> EntryIds]
    /\ call \in [Callers -> Calls]
    /\ DOMAIN kept \subseteq Tokens /\ kept \in [DOMAIN kept -> ReferenceIds]
    /\ DOMAIN reference \subseteq ReferenceIds
    /\ reference \in [DOMAIN reference -> SnapshotReferences]
    /\ DOMAIN core \subseteq Tokens /\ core \in [DOMAIN core -> EntryIds]
    /\ time \in Nat

\* A list has the one entry that is loading or loaded for it.
TableFits ==
    /\ \A i \in Lists : table[i] # Nothing =>
        table[i] \in DOMAIN entry /\ entry[table[i]].list = i /\ entry[table[i]].state # "failed"
    /\ \A e \in DOMAIN entry : entry[e].state # "failed" => table[entry[e].list] = e

LeasesOf(e) == {l \in DOMAIN handed : handed[l] = e}
WaitersOf(e) == {c \in Callers : call[c].pc = "wait" /\ call[c].entry = e}
UsersOf(r) == {c \in Callers : call[c].ref = r}

\* Leases are of loaded engines, and whoever holds one holds a live one.
LeasesAreLive ==
    /\ \A l \in DOMAIN handed : handed[l] \in DOMAIN entry /\ entry[handed[l]].state = "loaded"
    /\ \A c \in Callers : IF call[c].pc \in Served THEN call[c].lease \in DOMAIN handed
                          ELSE call[c].lease = Nothing
    /\ \A r \in DOMAIN reference : reference[r].lease \in DOMAIN handed

\* An entry that loads has one loader, and an entry has the waiters it counts.
LoadsAreAwaited ==
    /\ \A c \in Callers : call[c].pc = "load" =>
        /\ call[c].entry \in DOMAIN entry /\ entry[call[c].entry].state = "loading"
        /\ \A d \in Callers : call[d].pc = "load" /\ call[d].entry = call[c].entry => d = c
    /\ \A c \in Callers : call[c].pc = "wait" => call[c].entry \in DOMAIN entry
    /\ \A e \in DOMAIN entry :
        /\ Cardinality(WaitersOf(e)) = entry[e].waiters + entry[e].signals
        /\ IF entry[e].state = "loading" THEN entry[e].signals = 0 ELSE entry[e].waiters = 0

EnginesCounted ==
    \A e \in DOMAIN entry : entry[e].state = "loaded" =>
        entry[e].references = Cardinality(LeasesOf(e)) + entry[e].signals

\* Two engines were used one after the other, so one of two idle ones goes.
UsesAreOrdered ==
    /\ \A e, f \in DOMAIN entry : entry[e].state = "loaded" /\ entry[f].state = "loaded" /\ e # f =>
        << e, f >> \in older \/ << f, e >> \in older
    /\ \A e, f \in IdleEngines : e = f

EnginesInv ==
    /\ OfflineTypeOK /\ TableFits /\ LeasesAreLive /\ LoadsAreAwaited /\ EnginesCounted
    /\ UsesAreOrdered

\* A request under way names the list it is about.
RequestsNameLists == \A c \in Callers : call[c].pc # "idle" => call[c].list # Nothing

\* A token has a reference of its own, which stays while a request uses it.
ReferencesFit ==
    /\ \A t \in DOMAIN kept :
        kept[t] \in DOMAIN reference /\ \A u \in DOMAIN kept : kept[u] = kept[t] => u = t
    /\ \A r \in DOMAIN reference : reference[r].users = Cardinality(UsersOf(r))
    /\ \A c \in Callers : call[c].ref # Nothing =>
        /\ call[c].pc \in Served \ {"retain"} /\ call[c].op # "query"
        /\ call[c].token # Nothing /\ call[c].ref \in DOMAIN reference
        /\ call[c].lease = reference[call[c].ref].lease
        /\ \A t \in DOMAIN kept : kept[t] = call[c].ref <=> t = call[c].token

\* A snapshot is in the engine of the lease that its token or its request keeps, and
\* a token about to be retained is known to no request with a reference; a release
\* that the engine answered has left none behind.
TokensFit ==
    /\ \A c \in Callers : call[c].pc = "retain" =>
        /\ call[c].token # Nothing /\ call[c].token \notin DOMAIN kept
        /\ \A d \in Callers : d # c /\ (call[d].pc = "retain" \/ call[d].ref # Nothing) =>
            call[d].token # call[c].token
    /\ \A t \in DOMAIN core :
        \/ t \in DOMAIN kept /\ core[t] = handed[reference[kept[t]].lease]
        \/ \E c \in Callers : /\ call[c].pc = "retain" /\ call[c].token = t
                              /\ core[t] = handed[call[c].lease]
    /\ \A c \in Callers : call[c].pc # "call" /\ call[c].op = "release" /\ call[c].ref # Nothing =>
        call[c].token \notin DOMAIN kept \cap DOMAIN core

OfflineInv == EnginesInv /\ RequestsNameLists /\ ReferencesFit /\ TokensFit
=============================================================================
