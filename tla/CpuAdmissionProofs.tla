-------------------------- MODULE CpuAdmissionProofs --------------------------
(***************************************************************************)
(* Admission with any number of threads, any capacity and any queue.       *)
(***************************************************************************)
EXTENDS CpuAdmission, FiniteSetTheorems, SequenceTheorems, TLAPS

LEMMA ThreadsAreFinite ==
    /\ IsFiniteSet(Threads) /\ NoThread \notin Threads /\ Queries \cap Background = {}
    /\ Threads = Queries \cup Background /\ Reclaimer \in Background /\ Rebuilds \subseteq Background
    /\ Reclaimer \notin Rebuilds
  <1>1. IsFiniteSet({Reclaimer})
    BY FS_Singleton
  <1>2. IsFiniteSet(Queries \cup Rebuilds)
    BY ThreadsAssumption, FS_Union
  <1>3. IsFiniteSet(Threads)
    BY <1>1, <1>2, FS_Union DEF Threads
  <1>4. QED
    BY <1>3, ThreadsAssumption DEF Threads, Background

-----------------------------------------------------------------------------
(* The permits that are out.                                               *)

\* n permits of one thread are n elements.
LEMMA PermitsOfOne ==
    ASSUME NEW t, NEW n \in Nat
    PROVE  IsFiniteSet({t} \X (1 .. n)) /\ Cardinality({t} \X (1 .. n)) = n
  <1>1. IsFiniteSet({t}) /\ Cardinality({t}) = 1
    BY FS_Singleton
  <1>2. IsFiniteSet(1 .. n) /\ Cardinality(1 .. n) = n
    <2>1. IsFiniteSet(1 .. n) /\ Cardinality(1 .. n) = IF 1 > n THEN 0 ELSE n - 1 + 1
      BY FS_Interval
    <2>2. QED
      BY <2>1
  <1>3. /\ IsFiniteSet({t} \X (1 .. n))
        /\ Cardinality({t} \X (1 .. n)) = Cardinality({t}) * Cardinality(1 .. n)
    BY <1>1, <1>2, FS_Product, Zenon
  <1>4. Cardinality({t} \X (1 .. n)) = 1 * n
    BY <1>1, <1>2, <1>3, Zenon
  <1>5. QED
    BY <1>3, <1>4

\* The permits of the threads of S when h tells how many each has.
Handed(h, S) == UNION {{u} \X (1 .. h[u]) : u \in S}

LEMMA HandedIsFinite ==
    ASSUME NEW h \in [Threads -> Nat], NEW S \in SUBSET Threads
    PROVE  IsFiniteSet(Handed(h, S))
  <1> DEFINE P == {{u} \X (1 .. h[u]) : u \in S}
             f == [u \in S |-> {u} \X (1 .. h[u])]
  <1>1. IsFiniteSet(S)
    BY ThreadsAreFinite, FS_Subset
  <1>2. f \in [S -> P] /\ \A p \in P : \E u \in S : f[u] = p
    OBVIOUS
  <1>3. \A p \in P : IsFiniteSet(p)
    <2>1. SUFFICES ASSUME NEW u \in S PROVE IsFiniteSet({u} \X (1 .. h[u]))
      OBVIOUS
    <2>2. h[u] \in Nat
      OBVIOUS
    <2>3. QED
      BY <2>2, PermitsOfOne
  <1> HIDE DEF P, f
  <1>4. f \in Surjection(S, P)
    BY <1>2 DEF Surjection
  <1>5. IsFiniteSet(P)
    BY <1>1, <1>4, FS_Surjection
  <1>6. IsFiniteSet(UNION P)
    BY <1>3, <1>5, FS_UNION
  <1>7. QED
    BY <1>6 DEF Handed, P

LEMMA HandedSplits ==
    ASSUME NEW h \in [Threads -> Nat], NEW t \in Threads
    PROVE  /\ Cardinality(Handed(h, Threads \ {t})) \in Nat
           /\ Cardinality(Handed(h, Threads)) = Cardinality(Handed(h, Threads \ {t})) + h[t]
  <1> DEFINE rest == Handed(h, Threads \ {t})
             own == {t} \X (1 .. h[t])
  <1>1. Handed(h, Threads) = rest \cup own
    BY DEF Handed
  <1>2. rest \cap own = {}
    BY DEF Handed
  <1>3. IsFiniteSet(rest)
    BY HandedIsFinite
  <1>4. IsFiniteSet(own) /\ Cardinality(own) = h[t]
    BY PermitsOfOne
  <1>5. Cardinality(rest) \in Nat
    BY <1>3, FS_CardinalityType
  <1> HIDE DEF rest, own
  <1>6. Cardinality(rest \cup own) = Cardinality(rest) + Cardinality(own) - Cardinality(rest \cap own)
    BY <1>3, <1>4, FS_Union
  <1>7. Cardinality(rest \cap own) = 0
    BY <1>2, FS_EmptySet
  <1>8. Cardinality(Handed(h, Threads)) = Cardinality(rest) + h[t]
    BY <1>1, <1>4, <1>5, <1>6, <1>7
  <1>9. QED
    BY <1>5, <1>8 DEF rest

\* Taking or returning permits changes their number by as many.
LEMMA OutStep ==
    ASSUME held \in [Threads -> Nat], NEW t \in Threads, NEW n \in Nat,
           held' = [held EXCEPT ![t] = n]
    PROVE  Cardinality(Out') + held[t] = Cardinality(Out) + n /\ Cardinality(Out') \in Nat
  <1>1. Handed(held', Threads \ {t}) = Handed(held, Threads \ {t})
    BY DEF Handed
  <1>2. held' \in [Threads -> Nat] /\ held'[t] = n
    OBVIOUS
  <1>3. /\ Cardinality(Handed(held, Threads \ {t})) \in Nat
        /\ Cardinality(Handed(held, Threads)) = Cardinality(Handed(held, Threads \ {t})) + held[t]
    BY HandedSplits
  <1>4. /\ Cardinality(Handed(held', Threads))
             = Cardinality(Handed(held', Threads \ {t})) + held'[t]
    BY <1>2, HandedSplits
  <1>5. Out' = Handed(held', Threads) /\ Out = Handed(held, Threads)
    BY DEF Out, Handed
  <1>6. QED
    BY <1>1, <1>2, <1>3, <1>4, <1>5

LEMMA OutIsCounted == held \in [Threads -> Nat] => Cardinality(Out) \in Nat
  <1> SUFFICES ASSUME held \in [Threads -> Nat] PROVE Cardinality(Out) \in Nat
    OBVIOUS
  <1>1. IsFiniteSet(Handed(held, Threads))
    BY HandedIsFinite
  <1>2. QED
    BY <1>1, FS_CardinalityType DEF Handed, Out

\* With a permit out, some thread holds one.
LEMMA OutHasHolder ==
    ASSUME held \in [Threads -> Nat], \A t \in Threads : ~(held[t] > 0)
    PROVE  Cardinality(Out) = 0
  <1>1. \A t \in Threads : 1 .. held[t] = {}
    OBVIOUS
  <1>2. Out = {}
    BY <1>1 DEF Out
  <1>3. QED
    BY <1>2, FS_EmptySet
-----------------------------------------------------------------------------
(* Parts of the invariant, and what a step of one thread does to each.     *)

\* Thread t goes to a place; of the others only sleepers may move, awakened.
Moves(t, place) ==
  /\ pc' \in [Threads -> Labels] /\ pc'[t] = place
  /\ \A u \in Threads \ {t} : pc'[u] = pc[u] \/ (pc[u] = "asleep" /\ pc'[u] = "relock")

MutexPlaces == {"register", "look", "park"}
WaitPlaces == {"look", "park", "asleep", "relock"}
BackgroundHolders == {t \in Background : held[t] > 0 /\ pc[t] # "digest"}

\* The counters of the budget other than the permits.
WaitersCounted ==
  waiters = Cardinality(Registered) /\ foreground_waiters = Cardinality(Registered \cap Queries)
BackgroundCounted == background_active = Cardinality(BackgroundHolders)
SleepersKnown == asleep = {t \in Threads : pc[t] = "asleep"}

LEMMA ConservedParts ==
    PermitsConserved <=>
      /\ available + Cardinality(Out) = Capacity
      /\ WaitersCounted /\ BackgroundCounted /\ SleepersKnown
  BY DEF PermitsConserved, WaitersCounted, BackgroundCounted, SleepersKnown, BackgroundHolders

LEMMA RegisteredIsFinite ==
    /\ IsFiniteSet(Registered) /\ IsFiniteSet(Registered \cap Queries)
    /\ IsFiniteSet(BackgroundHolders)
    /\ Cardinality(Registered) \in Nat /\ Cardinality(Registered \cap Queries) \in Nat
    /\ Cardinality(BackgroundHolders) \in Nat
  <1>1. /\ Registered \in SUBSET Threads /\ Registered \cap Queries \in SUBSET Threads
        /\ BackgroundHolders \in SUBSET Threads
    BY ThreadsAreFinite DEF Registered, BackgroundHolders
  <1>2. /\ IsFiniteSet(Registered) /\ IsFiniteSet(Registered \cap Queries)
        /\ IsFiniteSet(BackgroundHolders)
    BY <1>1, ThreadsAreFinite, FS_Subset
  <1>3. QED
    BY <1>2, FS_CardinalityType

LEMMA AwakenedMoves ==
    ASSUME AdmissionTypeOK, SleepersKnown, NEW t \in Threads, NEW place \in Labels,
           pc' = Awakened(t, place)
    PROVE  Moves(t, place) /\ \A u \in Threads : pc'[u] = "asleep" => u = t
  BY DEF Moves, Awakened, AdmissionTypeOK, SleepersKnown, Labels

LEMMA GotoMoves ==
    ASSUME AdmissionTypeOK, NEW t \in Threads, NEW place \in Labels, Goto(t, place)
    PROVE  Moves(t, place) /\ \A u \in Threads \ {t} : pc'[u] = pc[u]
  BY DEF Moves, Goto, AdmissionTypeOK

\* The mutex is kept or left alone, taken or given up.
LEMMA MutexStep ==
    ASSUME MutexIsHeld, NEW t \in Threads, NEW place, Moves(t, place),
           \/ wake_lock' = wake_lock /\ (pc[t] \in MutexPlaces <=> place \in MutexPlaces)
           \/ wake_lock = NoThread /\ wake_lock' = t /\ place \in MutexPlaces
           \/ wake_lock' = NoThread /\ pc[t] \in MutexPlaces /\ place \notin MutexPlaces
    PROVE  MutexIsHeld'
  BY ThreadsAreFinite DEF MutexIsHeld, Moves, MutexPlaces

\* Only the thread that moves changes its permits.
LEMMA PlacesStep ==
    ASSUME PlacesFit, NEW t \in Threads, NEW place, Moves(t, place),
           \A u \in Threads \ {t} : held'[u] = held[u] /\ then'[u] = then[u],
           HoldsAt(t)',
           place \in {"enter", "asked", "parallel", "ran"} => t \in Queries,
           place \in {"release", "notify"} /\ then'[t] = "ran" => t \in Queries,
           place \in {"digest", "retire", "barrier", "draining"} => t \in Rebuilds
    PROVE  PlacesFit'
  <1>1. ASSUME NEW u \in Threads \ {t}
        PROVE  HoldsAt(u)'
    <2>1. CASE pc'[u] = pc[u]
      BY <2>1 DEF PlacesFit, HoldsAt
    <2>2. CASE pc[u] = "asleep" /\ pc'[u] = "relock"
      BY <2>2 DEF PlacesFit, HoldsAt
    <2>3. QED
      BY <2>1, <2>2 DEF Moves
  <1>2. QED
    BY <1>1 DEF PlacesFit, Moves

\* The counts of waiters follow the thread that moves.
LEMMA WaitersStay ==
    ASSUME WaitersCounted, NEW t \in Threads, NEW place, Moves(t, place),
           pc[t] \in WaitPlaces <=> place \in WaitPlaces,
           UNCHANGED <<waiters, foreground_waiters>>
    PROVE  WaitersCounted'
  <1>1. Registered' = Registered
    BY DEF Registered, Moves, WaitPlaces
  <1>2. QED
    BY <1>1 DEF WaitersCounted

LEMMA WaiterEnters ==
    ASSUME WaitersCounted, NEW t \in Threads, NEW place, Moves(t, place),
           pc[t] \notin WaitPlaces, place \in WaitPlaces,
           waiters' = waiters + 1,
           foreground_waiters' = foreground_waiters + (IF t \in Queries THEN 1 ELSE 0)
    PROVE  WaitersCounted' /\ {waiters', foreground_waiters'} \subseteq Nat
  <1>1. Registered' = Registered \cup {t} /\ t \notin Registered
    BY DEF Registered, Moves, WaitPlaces
  <1>2. Cardinality(Registered') = Cardinality(Registered) + 1
    BY <1>1, RegisteredIsFinite, FS_AddElement
  <1>3. CASE t \in Queries
    <2>1. /\ (Registered \cap Queries)' = (Registered \cap Queries) \cup {t}
          /\ t \notin Registered \cap Queries
      BY <1>1, <1>3
    <2>2. Cardinality((Registered \cap Queries)') = Cardinality(Registered \cap Queries) + 1
      BY <2>1, RegisteredIsFinite, FS_AddElement
    <2>3. QED
      BY <1>2, <1>3, <2>2, RegisteredIsFinite DEF WaitersCounted
  <1>4. CASE t \notin Queries
    <2>1. (Registered \cap Queries)' = Registered \cap Queries
      BY <1>1, <1>4
    <2>2. QED
      BY <1>2, <1>4, <2>1, RegisteredIsFinite DEF WaitersCounted
  <1>5. QED
    BY <1>3, <1>4

LEMMA WaiterLeaves ==
    ASSUME WaitersCounted, NEW t \in Threads, NEW place, Moves(t, place),
           pc[t] \in WaitPlaces, place \notin WaitPlaces,
           waiters' = waiters - 1,
           foreground_waiters' = foreground_waiters - (IF t \in Queries THEN 1 ELSE 0)
    PROVE  WaitersCounted' /\ {waiters', foreground_waiters'} \subseteq Nat
  <1>1. Registered' = Registered \ {t} /\ t \in Registered
    BY DEF Registered, Moves, WaitPlaces
  <1>2. Cardinality(Registered') = Cardinality(Registered) - 1 /\ Cardinality(Registered) # 0
    BY <1>1, RegisteredIsFinite, FS_RemoveElement, FS_EmptySet
  <1>3. CASE t \in Queries
    <2>1. /\ (Registered \cap Queries)' = (Registered \cap Queries) \ {t}
          /\ t \in Registered \cap Queries
      BY <1>1, <1>3
    <2>2. /\ Cardinality((Registered \cap Queries)') = Cardinality(Registered \cap Queries) - 1
          /\ Cardinality(Registered \cap Queries) # 0
      <3> DEFINE R == Registered \cap Queries
      <3>1. t \in R /\ IsFiniteSet(R) /\ (Registered \cap Queries)' = R \ {t}
        BY <2>1, RegisteredIsFinite
      <3> HIDE DEF R
      <3>2. Cardinality(R \ {t}) = Cardinality(R) - 1 /\ Cardinality(R) # 0
        BY <3>1, FS_RemoveElement, FS_EmptySet
      <3>3. QED
        BY <3>1, <3>2 DEF R
    <2>3. QED
      BY <1>2, <1>3, <2>2, RegisteredIsFinite DEF WaitersCounted
  <1>4. CASE t \notin Queries
    <2>1. (Registered \cap Queries)' = Registered \cap Queries
      BY <1>1, <1>4
    <2>2. QED
      BY <1>2, <1>4, <2>1, RegisteredIsFinite DEF WaitersCounted
  <1>5. QED
    BY <1>3, <1>4
\* So does the count of background work.
LEMMA BackgroundStays ==
    ASSUME BackgroundCounted, NEW t \in Threads, NEW place, Moves(t, place),
           \A u \in Threads \ {t} : held'[u] = held[u],
           t \in Background =>
             ((held[t] > 0 /\ pc[t] # "digest") <=> (held'[t] > 0 /\ place # "digest")),
           background_active' = background_active
    PROVE  BackgroundCounted'
  <1>1. BackgroundHolders' = BackgroundHolders
    BY ThreadsAreFinite DEF BackgroundHolders, Moves
  <1>2. QED
    BY <1>1 DEF BackgroundCounted

LEMMA BackgroundEnters ==
    ASSUME BackgroundCounted, NEW t \in Background, NEW place, Moves(t, place),
           \A u \in Threads \ {t} : held'[u] = held[u],
           ~(held[t] > 0), held'[t] > 0, place # "digest",
           background_active' = background_active + 1
    PROVE  BackgroundCounted' /\ background_active' \in Nat
  <1>1. BackgroundHolders' = BackgroundHolders \cup {t} /\ t \notin BackgroundHolders
    BY ThreadsAreFinite DEF BackgroundHolders, Moves
  <1>2. Cardinality(BackgroundHolders') = Cardinality(BackgroundHolders) + 1
    BY <1>1, RegisteredIsFinite, FS_AddElement
  <1>3. QED
    BY <1>2, RegisteredIsFinite DEF BackgroundCounted

LEMMA BackgroundLeaves ==
    ASSUME BackgroundCounted, NEW t \in Background, NEW place, Moves(t, place),
           \A u \in Threads \ {t} : held'[u] = held[u],
           held[t] > 0, pc[t] # "digest", ~(held'[t] > 0),
           background_active' = background_active - 1
    PROVE  BackgroundCounted' /\ background_active' \in Nat
  <1>1. BackgroundHolders' = BackgroundHolders \ {t} /\ t \in BackgroundHolders
    BY ThreadsAreFinite DEF BackgroundHolders, Moves
  <1>2. /\ Cardinality(BackgroundHolders') = Cardinality(BackgroundHolders) - 1
        /\ Cardinality(BackgroundHolders) # 0
    BY <1>1, RegisteredIsFinite, FS_RemoveElement, FS_EmptySet
  <1>3. QED
    BY <1>2, RegisteredIsFinite DEF BackgroundCounted

\* Nobody who waits for a barrier moves, and the queue is left alone.
LEMMA BarriersStay ==
    ASSUME BarriersWait, AdmissionTypeOK, NEW t \in Threads, NEW place, Moves(t, place),
           pc[t] # "draining", queue' = queue
    PROVE  BarriersWait'
  BY ThreadsAreFinite DEF BarriersWait, Moves

\* Permits are not returned unseen.
LEMMA AnnouncedStep ==
    ASSUME PermitsAreAnnounced, AdmissionTypeOK, available' \in Nat,
           NEW t \in Threads, NEW place, Moves(t, place),
           \/ place \in {"release", "notify"}
           \/ \A u \in Threads : pc'[u] \notin {"park", "asleep"}
           \/ /\ available' <= available /\ pc[t] \notin {"release", "notify"}
              /\ \/ place \notin {"park", "asleep"} \/ t \notin Queries
                 \/ pc[t] \in {"park", "asleep"} \/ available' = 0
    PROVE  PermitsAreAnnounced'
  <1>1. CASE place \in {"release", "notify"}
    BY <1>1 DEF PermitsAreAnnounced, Moves
  <1>2. CASE \A u \in Threads : pc'[u] \notin {"park", "asleep"}
    BY <1>2, ThreadsAreFinite DEF PermitsAreAnnounced
  <1>3. CASE /\ available' <= available /\ pc[t] \notin {"release", "notify"}
             /\ \/ place \notin {"park", "asleep"} \/ t \notin Queries
                \/ pc[t] \in {"park", "asleep"} \/ available' = 0
    <2>1. SUFFICES ASSUME available' > 0, NEW q \in Queries, pc'[q] \in {"park", "asleep"}
                   PROVE  \E u \in Threads : pc'[u] \in {"release", "notify"}
      BY DEF PermitsAreAnnounced
    <2>2. available > 0 /\ pc[q] \in {"park", "asleep"}
      BY <1>3, <2>1, ThreadsAreFinite, SMTT(40) DEF Moves, AdmissionTypeOK
    <2>3. PICK u \in Threads : pc[u] \in {"release", "notify"}
      BY <2>2 DEF PermitsAreAnnounced
    <2>4. QED
      BY <1>3, <2>3 DEF Moves
  <1>4. QED
    BY <1>1, <1>2, <1>3

Wakers == {"release", "notify", "lock", "register", "look", "relock"}

\* The last thread that would wake a sleeper does not go without doing so.
LEMMA WokenStep ==
    ASSUME WaitersAreWoken, NEW t \in Threads, NEW place, Moves(t, place),
           \A u \in Threads \ {t} : held'[u] = held[u],
           \/ place \in Wakers \/ held'[t] > 0
           \/ \A u \in Threads : pc'[u] \notin {"park", "asleep"}
           \/ /\ ~(held[t] > 0) /\ pc[t] \notin Wakers
              /\ place \in {"park", "asleep"} => pc[t] \in {"park", "asleep"}
    PROVE  WaitersAreWoken'
  <1>1. CASE place \in Wakers \/ held'[t] > 0
    BY <1>1 DEF WaitersAreWoken, Moves, Wakers
  <1>2. CASE \A u \in Threads : pc'[u] \notin {"park", "asleep"}
    BY <1>2 DEF WaitersAreWoken
  <1>3. CASE /\ ~(held[t] > 0) /\ pc[t] \notin Wakers
             /\ place \in {"park", "asleep"} => pc[t] \in {"park", "asleep"}
    <2>1. SUFFICES ASSUME NEW s \in Threads, pc'[s] \in {"park", "asleep"}
                   PROVE  \E u \in Threads : held'[u] > 0 \/ pc'[u] \in Wakers
      BY DEF WaitersAreWoken, Wakers
    <2>2. pc[s] \in {"park", "asleep"}
      BY <1>3, <2>1 DEF Moves
    <2>3. PICK u \in Threads : held[u] > 0 \/ pc[u] \in Wakers
      BY <2>2 DEF WaitersAreWoken, Wakers
    <2>4. QED
      BY <1>3, <2>3 DEF Moves, Wakers
  <1>4. QED
    BY <1>1, <1>2, <1>3
-----------------------------------------------------------------------------
(* The steps.                                                              *)

\* What remains to be shown of a step of thread t that goes to a place.
Fits(t, place) ==
  /\ \A u \in Threads \ {t} : held'[u] = held[u] /\ then'[u] = then[u]
  /\ HoldsAt(t)'
  /\ place \in {"enter", "asked", "parallel", "ran"} => t \in Queries
  /\ place \in {"release", "notify"} /\ then'[t] = "ran" => t \in Queries
  /\ place \in {"digest", "retire", "barrier", "draining"} => t \in Rebuilds
Locks(t, place) ==
  \/ wake_lock' = wake_lock /\ (pc[t] \in MutexPlaces <=> place \in MutexPlaces)
  \/ wake_lock = NoThread /\ wake_lock' = t /\ place \in MutexPlaces
  \/ wake_lock' = NoThread /\ pc[t] \in MutexPlaces /\ place \notin MutexPlaces
Announces(t, place) ==
  \/ place \in {"release", "notify"}
  \/ \A u \in Threads : pc'[u] \notin {"park", "asleep"}
  \/ /\ available' <= available /\ pc[t] \notin {"release", "notify"}
     /\ \/ place \notin {"park", "asleep"} \/ t \notin Queries
        \/ pc[t] \in {"park", "asleep"} \/ available' = 0
Wakes(t, place) ==
  \/ place \in Wakers \/ held'[t] > 0
  \/ \A u \in Threads : pc'[u] \notin {"park", "asleep"}
  \/ /\ ~(held[t] > 0) /\ pc[t] \notin Wakers
     /\ place \in {"park", "asleep"} => pc[t] \in {"park", "asleep"}

LEMMA WholeStep ==
    ASSUME AdmissionInv, AdmissionTypeOK', NEW t \in Threads, NEW place, Moves(t, place),
           Fits(t, place), Locks(t, place), PermitsConserved', BarriersWait',
           Announces(t, place), WaitersAreWoken'
    PROVE  AdmissionInv'
  <1>1. MutexIsHeld'
    BY MutexStep DEF AdmissionInv, Locks
  <1>2. PlacesFit'
    BY PlacesStep DEF AdmissionInv, Fits
  <1>3. PermitsAreAnnounced'
    <2>1. available' \in Nat
      BY DEF AdmissionTypeOK
    <2>2. QED
      BY <2>1, AnnouncedStep DEF AdmissionInv, Announces
  <1>4. QED
    BY <1>1, <1>2, <1>3 DEF AdmissionInv

\* A step that moves no permit and no counter.
LEMMA PlainStep ==
    ASSUME AdmissionInv, NEW t \in Threads, NEW place \in Labels, Goto(t, place),
           AdmissionTypeOK', UNCHANGED <<budget, asleep, held, then>>, BarriersWait',
           pc[t] \in WaitPlaces <=> place \in WaitPlaces,
           pc[t] # "asleep", place # "asleep", pc[t] # "digest", place # "digest",
           HoldsAt(t)',
           place \in {"enter", "asked", "parallel", "ran"} => t \in Queries,
           place \in {"release", "notify"} /\ then[t] = "ran" => t \in Queries,
           place \in {"retire", "barrier", "draining"} => t \in Rebuilds,
           Locks(t, place), Announces(t, place), Wakes(t, place) \/ WaitersAreWoken'
    PROVE  AdmissionInv'
  <1>1. /\ AdmissionTypeOK /\ PermitsConserved
        /\ UNCHANGED <<available, foreground_waiters, waiters, background_active>>
    BY DEF AdmissionInv, budget
  <1>2. Moves(t, place) /\ \A u \in Threads \ {t} : pc'[u] = pc[u]
    BY <1>1, GotoMoves
  <1>3. WaitersCounted /\ BackgroundCounted /\ SleepersKnown /\ available + Cardinality(Out) = Capacity
    BY <1>1, ConservedParts
  <1>4. WaitersCounted'
    BY <1>1, <1>2, <1>3, WaitersStay
  <1>5. BackgroundCounted'
    BY <1>1, <1>2, <1>3, BackgroundStays
  <1>6. SleepersKnown'
    BY <1>2, <1>3 DEF SleepersKnown, Moves
  <1>7. Out' = Out
    BY DEF Out
  <1>8. PermitsConserved'
    BY <1>1, <1>3, <1>4, <1>5, <1>6, <1>7
       DEF PermitsConserved, WaitersCounted, BackgroundCounted, SleepersKnown, BackgroundHolders
  <1>9. Fits(t, place)
    BY DEF Fits
  <1>10. WaitersAreWoken'
    BY <1>2, WokenStep DEF AdmissionInv, Wakes
  <1>11. QED
    BY <1>2, <1>8, <1>9, <1>10, WholeStep

LEMMA RequestStep ==
    ASSUME AdmissionInv, NEW q \in Queries, Request(q)
    PROVE  AdmissionInv'
  <1>1. /\ q \in Threads /\ pc[q] = "idle" /\ Goto(q, "enter") /\ "enter" \in Labels
        /\ jobs' = [jobs EXCEPT ![q] = @ + 1] /\ cancelled' = [cancelled EXCEPT ![q] = FALSE]
        /\ UNCHANGED <<budget, wake_lock, asleep, waking, held, then, chunks, queue>>
    BY ThreadsAreFinite DEF Request, sleepers, Labels
  <1>2. AdmissionTypeOK /\ BarriersWait /\ HoldsAt(q)
    BY <1>1 DEF AdmissionInv, PlacesFit
  <1>3. Moves(q, "enter")
    BY <1>1, <1>2, GotoMoves
  <1>4. AdmissionTypeOK'
    BY <1>1, <1>2, <1>3, SMTT(40) DEF AdmissionTypeOK, Moves, budget
  <1>5. BarriersWait'
    BY <1>1, <1>2, <1>3, BarriersStay
  <1>6. HoldsAt(q)' /\ held[q] = 0
    BY <1>1, <1>2, <1>3 DEF HoldsAt, Moves
  <1>7. Locks(q, "enter") /\ Announces(q, "enter") /\ Wakes(q, "enter")
    BY <1>1, <1>2, <1>6 DEF Locks, Announces, Wakes, MutexPlaces, Wakers, budget, AdmissionTypeOK
  <1>8. QED
    BY <1>1, <1>4, <1>5, <1>6, <1>7, PlainStep DEF WaitPlaces
\* Steps that concern neither permits nor places.
LEMMA OutsideStep ==
    ASSUME AdmissionInv, AdmissionTypeOK', UNCHANGED <<budget, wake_lock, asleep, held, then, queue, pc>>
    PROVE  AdmissionInv'
  <1>1. UNCHANGED <<available, foreground_waiters, waiters, background_active>>
    BY DEF budget
  <1>2. MutexIsHeld' /\ PlacesFit' /\ BarriersWait'
    BY DEF AdmissionInv, MutexIsHeld, PlacesFit, HoldsAt, BarriersWait
  <1>3. PermitsConserved'
    BY <1>1 DEF AdmissionInv, PermitsConserved, Out, Registered
  <1>4. PermitsAreAnnounced' /\ WaitersAreWoken'
    BY <1>1 DEF AdmissionInv, PermitsAreAnnounced, WaitersAreWoken
  <1>5. QED
    BY <1>2, <1>3, <1>4 DEF AdmissionInv

LEMMA CancelStep ==
    ASSUME AdmissionInv, NEW q \in Queries, Cancel(q)
    PROVE  AdmissionInv'
  <1>1. /\ cancelled' = [cancelled EXCEPT ![q] = TRUE] /\ waking' = TRUE
        /\ UNCHANGED <<budget, wake_lock, asleep, held, then, chunks, queue, jobs, pc>>
    BY DEF Cancel, sleepers, work
  <1>2. AdmissionTypeOK'
    BY <1>1 DEF AdmissionInv, AdmissionTypeOK, budget
  <1>3. QED
    BY <1>1, <1>2, OutsideStep

\* An item joins the queue: a retired snapshot, or the barrier of a rebuild that
\* waits for it from now on.
LEMMA BarriersSend ==
    ASSUME BarriersWait, AdmissionTypeOK, NEW t \in Threads, NEW place, Moves(t, place),
           pc[t] # "draining", NEW item \in Background, queue' = Append(queue, item),
           item = Reclaimer \/ (item = t /\ place = "draining")
    PROVE  BarriersWait' /\ queue' \in Seq(Background)
  <1>1. /\ queue \in Seq(Background) /\ Len(queue) \in Nat
        /\ \A i \in 1 .. Len(queue) : queue[i] \in Background
    BY ElementOfSeq DEF AdmissionTypeOK
  <1>2. /\ queue' \in Seq(Background) /\ Len(queue') = Len(queue) + 1
        /\ \A i \in 1 .. Len(queue) : queue'[i] = queue[i]
        /\ queue'[Len(queue) + 1] = item
    BY <1>1, AppendProperties
  <1>3. \A i \in 1 .. Len(queue') : i \in 1 .. Len(queue) \/ i = Len(queue) + 1
    BY <1>1, <1>2
  <1>4. \A i \in 1 .. Len(queue) : queue[i] \in Rebuilds => queue[i] # t /\ pc'[queue[i]] = "draining"
    BY ThreadsAreFinite DEF BarriersWait, Moves
  <1>5. \A i \in 1 .. Len(queue) : queue[i] \in Rebuilds => queue[i] # item
    BY <1>4, ThreadsAreFinite
  <1>6. item \in Rebuilds => pc'[item] = "draining"
    BY ThreadsAreFinite DEF Moves
  <1>7. ASSUME NEW i \in 1 .. Len(queue'), queue'[i] \in Rebuilds
        PROVE  /\ pc'[queue'[i]] = "draining"
               /\ \A j \in 1 .. Len(queue') : queue'[j] = queue'[i] => j = i
    <2>1. CASE i \in 1 .. Len(queue)
      BY <1>2, <1>3, <1>4, <1>5, <1>7, <2>1 DEF BarriersWait
    <2>2. CASE i = Len(queue) + 1
      BY <1>2, <1>3, <1>5, <1>6, <1>7, <2>2
    <2>3. QED
      BY <1>3, <2>1, <2>2
  <1>8. QED
    BY <1>2, <1>7 DEF BarriersWait

LEMMA DropStep ==
    ASSUME AdmissionInv, NEW t \in Threads, Drop(t)
    PROVE  AdmissionInv'
  <1>1. /\ pc[t] = "drop" /\ Goto(t, "idle") /\ "idle" \in Labels
        /\ queue' = queue \/ queue' = Append(queue, Reclaimer)
        /\ UNCHANGED <<budget, wake_lock, asleep, cancelled, waking, held, then, chunks, jobs>>
    BY DEF Drop, Send, sleepers, requests, Labels
  <1>2. AdmissionTypeOK /\ BarriersWait /\ HoldsAt(t)
    BY DEF AdmissionInv, PlacesFit
  <1>3. Moves(t, "idle")
    BY <1>1, <1>2, GotoMoves
  <1>4. BarriersWait' /\ queue' \in Seq(Background)
    <2>1. CASE queue' = queue
      BY <1>1, <1>2, <1>3, <2>1, BarriersStay DEF AdmissionTypeOK
    <2>2. CASE queue' = Append(queue, Reclaimer)
      BY <1>1, <1>2, <1>3, <2>2, BarriersSend, ThreadsAreFinite
    <2>3. QED
      BY <1>1, <2>1, <2>2
  <1>5. AdmissionTypeOK'
    BY <1>1, <1>2, <1>3, <1>4 DEF AdmissionTypeOK, Moves, budget
  <1>6. HoldsAt(t)' /\ held[t] = 0
    BY <1>1, <1>2, <1>3 DEF HoldsAt, Moves
  <1>7. Locks(t, "idle") /\ Announces(t, "idle") /\ Wakes(t, "idle")
    BY <1>1, <1>2, <1>6 DEF Locks, Announces, Wakes, MutexPlaces, Wakers, budget, AdmissionTypeOK
  <1>8. QED
    BY <1>1, <1>4, <1>5, <1>6, <1>7, PlainStep DEF WaitPlaces

LEMMA ReleasePreviousStep ==
    ASSUME AdmissionInv, NEW r \in Rebuilds, ReleasePrevious(r)
    PROVE  AdmissionInv'
  <1>1. /\ r \in Threads /\ pc[r] = "retire" /\ Goto(r, "barrier") /\ "barrier" \in Labels
        /\ queue' = queue \/ queue' = Append(queue, Reclaimer)
        /\ UNCHANGED <<budget, wake_lock, asleep, cancelled, waking, held, then, chunks, jobs>>
    BY ThreadsAreFinite DEF ReleasePrevious, Send, sleepers, requests, Labels
  <1>2. AdmissionTypeOK /\ BarriersWait /\ HoldsAt(r)
    BY <1>1 DEF AdmissionInv, PlacesFit
  <1>3. Moves(r, "barrier")
    BY <1>1, <1>2, GotoMoves
  <1>4. BarriersWait' /\ queue' \in Seq(Background)
    <2>1. CASE queue' = queue
      BY <1>1, <1>2, <1>3, <2>1, BarriersStay DEF AdmissionTypeOK
    <2>2. CASE queue' = Append(queue, Reclaimer)
      BY <1>1, <1>2, <1>3, <2>2, BarriersSend, ThreadsAreFinite
    <2>3. QED
      BY <1>1, <2>1, <2>2
  <1>5. AdmissionTypeOK'
    BY <1>1, <1>2, <1>3, <1>4 DEF AdmissionTypeOK, Moves, budget
  <1>6. HoldsAt(r)' /\ held[r] = 0
    BY <1>1, <1>2, <1>3 DEF HoldsAt, Moves
  <1>7. Locks(r, "barrier") /\ Announces(r, "barrier") /\ Wakes(r, "barrier")
    BY <1>1, <1>2, <1>6 DEF Locks, Announces, Wakes, MutexPlaces, Wakers, budget, AdmissionTypeOK
  <1>8. QED
    BY <1>1, <1>4, <1>5, <1>6, <1>7, PlainStep DEF WaitPlaces

LEMMA SendBarrierStep ==
    ASSUME AdmissionInv, NEW r \in Rebuilds, SendBarrier(r)
    PROVE  AdmissionInv'
  <1>1. /\ r \in Threads /\ r \in Background /\ pc[r] = "barrier" /\ Goto(r, "draining")
        /\ "draining" \in Labels /\ queue' = Append(queue, r)
        /\ UNCHANGED <<budget, wake_lock, asleep, cancelled, waking, held, then, chunks, jobs>>
    BY ThreadsAreFinite DEF SendBarrier, Send, sleepers, requests, Labels
  <1>2. AdmissionTypeOK /\ BarriersWait /\ HoldsAt(r)
    BY <1>1 DEF AdmissionInv, PlacesFit
  <1>3. Moves(r, "draining")
    BY <1>1, <1>2, GotoMoves
  <1>4. BarriersWait' /\ queue' \in Seq(Background)
    BY <1>1, <1>2, <1>3, BarriersSend
  <1>5. AdmissionTypeOK'
    BY <1>1, <1>2, <1>3, <1>4 DEF AdmissionTypeOK, Moves, budget
  <1>6. HoldsAt(r)' /\ held[r] = 0
    BY <1>1, <1>2, <1>3 DEF HoldsAt, Moves
  <1>7. Locks(r, "draining") /\ Announces(r, "draining") /\ Wakes(r, "draining")
    BY <1>1, <1>2, <1>6 DEF Locks, Announces, Wakes, MutexPlaces, Wakers, budget, AdmissionTypeOK
  <1>8. QED
    BY <1>1, <1>4, <1>5, <1>6, <1>7, PlainStep DEF WaitPlaces

LEMMA RebuildStep ==
    ASSUME AdmissionInv, NEW r \in Rebuilds, Rebuild(r)
    PROVE  AdmissionInv'
  <1>1. PICK place \in {"lock", "retire"} : Goto(r, place)
    BY DEF Rebuild
  <1>2. /\ r \in Threads /\ pc[r] = "idle" /\ place \in Labels
        /\ jobs' = [jobs EXCEPT ![r] = @ + 1] /\ chunks' = [chunks EXCEPT ![r] = Chunks]
        /\ UNCHANGED <<budget, wake_lock, asleep, cancelled, waking, held, then, queue>>
    BY ThreadsAreFinite DEF Rebuild, sleepers, requests, Labels
  <1>3. AdmissionTypeOK /\ BarriersWait /\ HoldsAt(r)
    BY <1>2 DEF AdmissionInv, PlacesFit
  <1>4. Moves(r, place)
    BY <1>1, <1>2, <1>3, GotoMoves
  <1>5. AdmissionTypeOK'
    <2>1. Chunks \in Nat
      BY SizesAssumption
    <2>2. jobs' \in [Threads -> Nat] /\ chunks' \in [Threads -> Nat]
      BY <1>2, <1>3, <2>1, SMTT(40) DEF AdmissionTypeOK
    <2>3. QED
      BY <1>2, <1>3, <1>4, <2>2 DEF AdmissionTypeOK, Moves, budget
  <1>6. BarriersWait'
    BY <1>2, <1>3, <1>4, BarriersStay
  <1>7. HoldsAt(r)' /\ held[r] = 0
    BY <1>2, <1>3, <1>4 DEF HoldsAt, Moves
  <1>8. Locks(r, place) /\ Announces(r, place) /\ Wakes(r, place)
    BY <1>2, <1>3, <1>7 DEF Locks, Announces, Wakes, MutexPlaces, Wakers, budget, AdmissionTypeOK
  <1>9. QED
    BY <1>1, <1>2, <1>5, <1>6, <1>7, <1>8, PlainStep DEF WaitPlaces
\* The head of the queue leaves it: the reclaimer goes to destroy a snapshot, or
\* the rebuild whose barrier it was goes on.
LEMMA ReceiveStep ==
    ASSUME AdmissionInv, Receive
    PROVE  AdmissionInv'
  <1>0. PICK t : t = Head(queue)
    OBVIOUS
  <1>1. /\ pc[Reclaimer] = "idle" /\ queue # << >> /\ queue' = Tail(queue) /\ Goto(t, "lock")
        /\ chunks' = chunks \/ chunks' = [chunks EXCEPT ![Reclaimer] = Chunks]
        /\ UNCHANGED <<budget, wake_lock, asleep, cancelled, waking, held, then, jobs>>
    BY <1>0 DEF Receive, sleepers, requests
  <1>2. AdmissionTypeOK /\ BarriersWait /\ PlacesFit
    BY DEF AdmissionInv
  <1>3. /\ queue' \in Seq(Background) /\ t \in Background /\ t = queue[1]
        /\ Len(queue') = Len(queue) - 1 /\ Len(queue) \in Nat \ {0}
        /\ \A i \in 1 .. Len(queue') : queue'[i] = queue[i + 1]
    BY <1>0, <1>1, <1>2, HeadTailProperties, EmptySeq DEF AdmissionTypeOK
  <1>4. /\ \A i \in 1 .. Len(queue') : i + 1 \in 1 .. Len(queue) /\ i + 1 # 1
        /\ 1 \in 1 .. Len(queue)
    BY <1>3
  <1>5. t \in Threads /\ "lock" \in Labels /\ pc[t] \in {"idle", "draining"}
    BY <1>1, <1>2, <1>3, <1>4, ThreadsAreFinite DEF BarriersWait, Labels, Background
  <1>6. Moves(t, "lock") /\ \A u \in Threads \ {t} : pc'[u] = pc[u]
    BY <1>1, <1>2, <1>5, GotoMoves
  <1>7. BarriersWait'
    <2>1. ASSUME NEW i \in 1 .. Len(queue'), queue'[i] \in Rebuilds
          PROVE  /\ pc'[queue'[i]] = "draining"
                 /\ \A j \in 1 .. Len(queue') : queue'[j] = queue'[i] => j = i
      <3>1. queue[i + 1] \in Rebuilds /\ queue'[i] = queue[i + 1] /\ i + 1 \in 1 .. Len(queue)
        BY <1>3, <1>4, <2>1
      <3>2. /\ pc[queue[i + 1]] = "draining"
            /\ \A j \in 1 .. Len(queue) : queue[j] = queue[i + 1] => j = i + 1
        BY <1>2, <3>1 DEF BarriersWait
      <3>3. queue[i + 1] # t
        BY <1>3, <1>4, <3>2
      <3>4. pc'[queue[i + 1]] = "draining"
        BY <1>6, <3>1, <3>2, <3>3, ThreadsAreFinite
      <3>5. \A j \in 1 .. Len(queue') : queue[j + 1] = queue[i + 1] => j + 1 = i + 1
        BY <1>4, <3>2
      <3>6. \A j \in 1 .. Len(queue') : j + 1 = i + 1 => j = i
        BY <1>3
      <3>7. QED
        BY <1>3, <3>1, <3>4, <3>5, <3>6
    <2>2. QED
      BY <2>1 DEF BarriersWait
  <1>8. AdmissionTypeOK'
    <2>1. Chunks \in Nat /\ Reclaimer \in Threads
      BY SizesAssumption, ThreadsAreFinite
    <2>2. chunks' \in [Threads -> Nat]
      BY <1>1, <1>2, <2>1 DEF AdmissionTypeOK
    <2>3. QED
      BY <1>1, <1>2, <1>3, <1>6, <2>2 DEF AdmissionTypeOK, Moves, budget
  <1>9. HoldsAt(t)' /\ held[t] = 0
    BY <1>1, <1>2, <1>5, <1>6 DEF HoldsAt, Moves, PlacesFit
  <1>10. Locks(t, "lock") /\ Announces(t, "lock") /\ Wakes(t, "lock")
    BY <1>1, <1>2, <1>5, <1>9, SMTT(40)
       DEF Locks, Announces, Wakes, MutexPlaces, Wakers, budget, AdmissionTypeOK
  <1>11. QED
    BY <1>1, <1>5, <1>7, <1>8, <1>9, <1>10, PlainStep DEF WaitPlaces

LEMMA LockStep ==
    ASSUME AdmissionInv, NEW t \in Threads, LockToWait(t) \/ Relock(t)
    PROVE  AdmissionInv'
  <1>1. PICK place \in {"register", "look"} :
          /\ Goto(t, place)
          /\ pc[t] = (IF place = "register" THEN "lock" ELSE "relock")
    BY DEF LockToWait, Relock
  <1>2. /\ place \in Labels /\ wake_lock = NoThread /\ wake_lock' = t
        /\ UNCHANGED <<budget, asleep, cancelled, waking, held, then, chunks, queue, jobs>>
    BY DEF LockToWait, Relock, Lock, requests, work, Labels
  <1>3. AdmissionTypeOK /\ BarriersWait /\ HoldsAt(t)
    BY DEF AdmissionInv, PlacesFit
  <1>4. Moves(t, place)
    BY <1>1, <1>2, <1>3, GotoMoves
  <1>5. AdmissionTypeOK'
    BY <1>2, <1>3, <1>4 DEF AdmissionTypeOK, Moves, budget
  <1>6. BarriersWait'
    BY <1>1, <1>2, <1>3, <1>4, BarriersStay
  <1>7. HoldsAt(t)' /\ held[t] = 0
    BY <1>1, <1>2, <1>3, <1>4 DEF HoldsAt, Moves
  <1>8. Locks(t, place) /\ Announces(t, place) /\ Wakes(t, place)
    BY <1>1, <1>2, <1>3, <1>7
       DEF Locks, Announces, Wakes, MutexPlaces, Wakers, budget, AdmissionTypeOK
  <1>9. QED
    BY <1>1, <1>2, <1>5, <1>6, <1>7, <1>8, PlainStep DEF WaitPlaces

\* A thread that finds nothing for it: a permit is out, or a query that the
\* permits are kept for has been or will be notified.
LEMMA DeclineStep ==
    ASSUME AdmissionInv, NEW t \in Threads, Decline(t)
    PROVE  AdmissionInv'
  <1>1. /\ pc[t] = "look" /\ ~Admissible(t) /\ Goto(t, "park") /\ "park" \in Labels
        /\ UNCHANGED <<budget, wake_lock, asleep, cancelled, waking, held, then, chunks, queue, jobs>>
    BY DEF Decline, sleepers, requests, work, Labels
  <1>2. /\ AdmissionTypeOK /\ BarriersWait /\ HoldsAt(t) /\ MutexIsHeld /\ PermitsConserved
        /\ PermitsAreAnnounced
    BY DEF AdmissionInv, PlacesFit
  <1>3. Moves(t, "park") /\ \A u \in Threads \ {t} : pc'[u] = pc[u]
    BY <1>1, <1>2, GotoMoves
  <1>4. AdmissionTypeOK'
    BY <1>1, <1>2, <1>3 DEF AdmissionTypeOK, Moves, budget
  <1>5. BarriersWait'
    BY <1>1, <1>2, <1>3, BarriersStay
  <1>6. HoldsAt(t)' /\ held[t] = 0
    BY <1>1, <1>2, <1>3 DEF HoldsAt, Moves
  <1>7. available \in Nat /\ available' = available
    BY <1>1, <1>2 DEF AdmissionTypeOK, budget
  <1>8. Locks(t, "park") /\ Announces(t, "park")
    BY <1>1, <1>6, <1>7, ThreadsAreFinite
       DEF Locks, Announces, MutexPlaces, Admissible
  <1>9. WaitersAreWoken'
    <2>1. SUFFICES \E u \in Threads : held'[u] > 0 \/ pc'[u] \in {"release", "notify", "relock"}
      BY DEF WaitersAreWoken
    <2>2. CASE available = 0
      <3>1. Cardinality(Out) = Capacity /\ Capacity \in Nat \ {0}
        BY <1>2, <2>2, SizesAssumption, OutIsCounted DEF PermitsConserved, AdmissionTypeOK
      <3>2. QED
        BY <1>1, <1>2, <3>1, OutHasHolder DEF AdmissionTypeOK
    <2>3. CASE available # 0
      <3>1. t \in Background /\ foreground_waiters > 0
        BY <1>1, <1>7, <2>3 DEF Admissible
      <3>2. PICK q \in Queries : q \in Registered
        <4>1. Registered \cap Queries # {}
          BY <1>2, <3>1, FS_EmptySet DEF PermitsConserved
        <4>2. QED
          BY <4>1
      <3>3. q \in Threads /\ q # t /\ pc[q] \in {"look", "park", "asleep", "relock"}
        BY <3>1, <3>2, ThreadsAreFinite DEF Registered
      <3>4. pc[q] \in {"asleep", "relock"}
        BY <1>1, <1>2, <3>3 DEF MutexIsHeld
      <3>5. CASE pc[q] = "relock"
        BY <1>3, <3>3, <3>5
      <3>6. CASE pc[q] = "asleep"
        <4>1. PICK u \in Threads : pc[u] \in {"release", "notify"}
          BY <1>2, <1>7, <2>3, <3>6 DEF PermitsAreAnnounced
        <4>2. QED
          BY <1>1, <1>3, <4>1
      <3>7. QED
        BY <3>4, <3>5, <3>6
    <2>4. QED
      BY <2>2, <2>3
  <1>10. QED
    BY <1>1, <1>4, <1>5, <1>6, <1>8, <1>9, PlainStep DEF WaitPlaces

\* A release that sees no waiters leaves nobody asleep.
LEMMA CheckWaitersStep ==
    ASSUME AdmissionInv, NEW t \in Threads, CheckWaiters(t)
    PROVE  AdmissionInv'
  <1> DEFINE place == IF waiters # 0 THEN "notify" ELSE then[t]
  <1>1. /\ pc[t] = "release" /\ Goto(t, place)
        /\ UNCHANGED <<budget, wake_lock, asleep, cancelled, waking, held, then, chunks, queue, jobs>>
    BY DEF CheckWaiters, sleepers, requests, work
  <1>2. /\ AdmissionTypeOK /\ BarriersWait /\ HoldsAt(t) /\ PermitsConserved
        /\ then[t] \in {"idle", "drop", "lock", "ran"} /\ (then[t] = "ran" => t \in Queries)
    BY <1>1 DEF AdmissionInv, PlacesFit, AdmissionTypeOK
  <1>3. place \in {"notify", "idle", "drop", "lock", "ran"} /\ (place = "ran" => then[t] = "ran")
        /\ (waiters # 0 => place = "notify") /\ (waiters = 0 => place = then[t])
    BY <1>2
  <1> HIDE DEF place
  <1>4. place \in Labels
    BY <1>3 DEF Labels
  <1>5. Moves(t, place) /\ \A u \in Threads \ {t} : pc'[u] = pc[u]
    BY <1>1, <1>2, <1>4, GotoMoves
  <1>6. AdmissionTypeOK'
    BY <1>1, <1>2, <1>5 DEF AdmissionTypeOK, Moves, budget
  <1>7. BarriersWait'
    BY <1>1, <1>2, <1>5, BarriersStay
  <1>8. HoldsAt(t)'
    BY <1>1, <1>2, <1>3, <1>5 DEF HoldsAt, Moves
  <1>9. place = "notify" \/ \A u \in Threads : pc'[u] \notin {"park", "asleep"}
    <2>1. SUFFICES ASSUME waiters = 0
                   PROVE  \A u \in Threads : pc'[u] \notin {"park", "asleep"}
      BY <1>3
    <2>2. Registered = {}
      BY <1>2, <2>1, RegisteredIsFinite, FS_EmptySet DEF PermitsConserved
    <2>3. \A u \in Threads : pc[u] \notin {"park", "asleep"}
      BY <2>2 DEF Registered
    <2>4. QED
      BY <1>2, <1>3, <1>5, <2>3 DEF Moves
  <1>10. Locks(t, place) /\ Announces(t, place) /\ Wakes(t, place)
    BY <1>1, <1>3, <1>9 DEF Locks, Announces, Wakes, MutexPlaces, Wakers
  <1>11. QED
    BY <1>1, <1>2, <1>3, <1>4, <1>6, <1>7, <1>8, <1>10, PlainStep DEF WaitPlaces

LEMMA AskParallelStep ==
    ASSUME AdmissionInv, NEW q \in Queries, AskParallel(q)
    PROVE  AdmissionInv'
  <1>1. /\ q \in Threads /\ pc[q] = "run" /\ Goto(q, "asked") /\ "asked" \in Labels
        /\ UNCHANGED <<budget, wake_lock, asleep, cancelled, waking, held, then, chunks, queue, jobs>>
    BY ThreadsAreFinite DEF AskParallel, sleepers, requests, work, Labels
  <1>2. AdmissionTypeOK /\ BarriersWait /\ HoldsAt(q)
    BY <1>1 DEF AdmissionInv, PlacesFit
  <1>3. Moves(q, "asked")
    BY <1>1, <1>2, GotoMoves
  <1>4. AdmissionTypeOK'
    BY <1>1, <1>2, <1>3 DEF AdmissionTypeOK, Moves, budget
  <1>5. BarriersWait'
    BY <1>1, <1>2, <1>3, BarriersStay
  <1>6. HoldsAt(q)' /\ held'[q] = 1
    BY <1>1, <1>2, <1>3 DEF HoldsAt, Moves
  <1>7. Locks(q, "asked") /\ Announces(q, "asked") /\ Wakes(q, "asked")
    BY <1>1, <1>2, <1>6 DEF Locks, Announces, Wakes, MutexPlaces, Wakers, budget, AdmissionTypeOK
  <1>8. QED
    BY <1>1, <1>4, <1>5, <1>6, <1>7, PlainStep DEF WaitPlaces
\* A step that awakens every sleeper, with the mutex in its hands or free.
LEMMA AwakeningStep ==
    ASSUME AdmissionInv, AdmissionTypeOK', NEW t \in Threads, NEW place \in Labels,
           pc' = Awakened(t, place), asleep' = {},
           place \notin {"park", "asleep", "digest"}, pc[t] \notin {"digest", "draining"},
           wake_lock \in {t, NoThread},
           UNCHANGED <<available, background_active, held, then, queue>>,
           WaitersCounted', Fits(t, place), Locks(t, place)
    PROVE  AdmissionInv'
  <1>1. /\ AdmissionTypeOK /\ MutexIsHeld /\ BarriersWait /\ WaitersCounted /\ BackgroundCounted
        /\ SleepersKnown /\ available + Cardinality(Out) = Capacity /\ WaitersAreWoken
    BY ConservedParts DEF AdmissionInv
  <1>2. Moves(t, place) /\ \A u \in Threads : pc'[u] = "asleep" => u = t
    BY <1>1, AwakenedMoves
  <1>3. \A u \in Threads : pc'[u] \notin {"park", "asleep"}
    <2>1. \A u \in Threads \ {t} : pc[u] # "park"
      BY <1>1, ThreadsAreFinite DEF MutexIsHeld
    <2>2. QED
      BY <1>2, <2>1 DEF Moves
  <1>5. BackgroundCounted'
    BY <1>1, <1>2, BackgroundStays
  <1>6. SleepersKnown' /\ Out' = Out
    BY <1>3 DEF SleepersKnown, Out
  <1>7. PermitsConserved'
    BY <1>1, <1>5, <1>6
       DEF PermitsConserved, WaitersCounted, BackgroundCounted, SleepersKnown, BackgroundHolders
  <1>8. BarriersWait'
    BY <1>1, <1>2, BarriersStay
  <1>9. WaitersAreWoken' /\ Announces(t, place)
    BY <1>3 DEF WaitersAreWoken, Announces
  <1>10. QED
    BY <1>2, <1>7, <1>8, <1>9, WholeStep

LEMMA NotifyStep ==
    ASSUME AdmissionInv, NEW t \in Threads, Notify(t)
    PROVE  AdmissionInv'
  <1>0. PICK place : place = then[t]
    OBVIOUS
  <1>1. /\ pc[t] = "notify" /\ wake_lock = NoThread /\ asleep' = {} /\ pc' = Awakened(t, place)
        /\ UNCHANGED <<budget, wake_lock, cancelled, waking, held, then, chunks, queue, jobs>>
    BY <1>0 DEF Notify, requests, work
  <1>2. /\ AdmissionTypeOK /\ HoldsAt(t) /\ SleepersKnown
        /\ place \in {"idle", "drop", "lock", "ran"} /\ (place = "ran" => t \in Queries)
    BY <1>0, <1>1, ConservedParts DEF AdmissionInv, PlacesFit, AdmissionTypeOK
  <1>3. Moves(t, place)
    BY <1>1, <1>2, AwakenedMoves DEF Labels
  <1>4. AdmissionTypeOK'
    BY <1>1, <1>2, <1>3 DEF AdmissionTypeOK, Moves, budget
  <1>5. Fits(t, place)
    <2>1. HoldsAt(t)'
      BY <1>0, <1>1, <1>2, <1>3 DEF HoldsAt, Moves
    <2>2. QED
      BY <1>1, <1>2, <2>1 DEF Fits
  <1>6. Locks(t, place)
    BY <1>1, <1>2 DEF Locks, MutexPlaces
  <1>7. WaitersCounted'
    <2>1. WaitersCounted /\ UNCHANGED <<waiters, foreground_waiters>>
      BY <1>1, ConservedParts DEF AdmissionInv, budget
    <2>2. QED
      BY <1>1, <1>2, <1>3, <2>1, WaitersStay DEF WaitPlaces
  <1>8. QED
    BY <1>1, <1>2, <1>4, <1>5, <1>6, <1>7, AwakeningStep DEF Labels, budget

LEMMA GiveUpStep ==
    ASSUME AdmissionInv, NEW q \in Queries, GiveUp(q)
    PROVE  AdmissionInv'
  <1>1. /\ q \in Threads /\ pc[q] = "look" /\ asleep' = {} /\ pc' = Awakened(q, "drop")
        /\ waiters' = waiters - 1
        /\ foreground_waiters' = foreground_waiters - (IF q \in Queries THEN 1 ELSE 0)
        /\ wake_lock' = NoThread /\ "drop" \in Labels
        /\ UNCHANGED <<available, background_active, cancelled, waking, held, then, chunks, queue, jobs>>
    BY ThreadsAreFinite DEF GiveUp, Leave, requests, work, Labels
  <1>2. AdmissionTypeOK /\ HoldsAt(q) /\ SleepersKnown /\ WaitersCounted /\ wake_lock = q
    BY <1>1, ConservedParts DEF AdmissionInv, PlacesFit, MutexIsHeld
  <1>3. Moves(q, "drop")
    BY <1>1, <1>2, AwakenedMoves
  <1>4. WaitersCounted' /\ {waiters', foreground_waiters'} \subseteq Nat
    BY <1>1, <1>2, <1>3, WaiterLeaves DEF WaitPlaces
  <1>5. AdmissionTypeOK'
    BY <1>1, <1>2, <1>3, <1>4 DEF AdmissionTypeOK, Moves
  <1>6. Fits(q, "drop")
    <2>1. HoldsAt(q)'
      BY <1>1, <1>2, <1>3 DEF HoldsAt, Moves
    <2>2. QED
      BY <1>1, <2>1 DEF Fits
  <1>7. Locks(q, "drop")
    BY <1>1 DEF Locks, MutexPlaces
  <1>8. QED
    BY <1>1, <1>2, <1>4, <1>5, <1>6, <1>7, AwakeningStep

\* The wake of a cancellation is nobody's step; the reclaimer moves as all do.
LEMMA WakeCancelledStep ==
    ASSUME AdmissionInv, WakeCancelled
    PROVE  AdmissionInv'
  <1>1. /\ wake_lock = NoThread /\ asleep' = {} /\ waking' = FALSE
        /\ pc' = Awakened(NoThread, "idle")
        /\ UNCHANGED <<budget, wake_lock, cancelled, held, then, chunks, queue, jobs>>
    BY DEF WakeCancelled, work
  <1>2. /\ AdmissionTypeOK /\ PlacesFit /\ SleepersKnown
    BY ConservedParts DEF AdmissionInv
  <1>3. PICK t \in Threads : t = Reclaimer
    BY ThreadsAreFinite
  <1>4. PICK place \in Labels : place = (IF pc[t] = "asleep" THEN "relock" ELSE pc[t])
    BY <1>2 DEF AdmissionTypeOK, Labels
  <1>5. pc' = [u \in Threads |-> IF pc[u] = "asleep" THEN "relock" ELSE pc[u]]
    BY <1>1, <1>2, ThreadsAreFinite DEF Awakened, SleepersKnown
  <1>6. Moves(t, place) /\ \A u \in Threads : pc'[u] # "asleep"
    BY <1>2, <1>4, <1>5 DEF Moves, AdmissionTypeOK, Labels
  <1>7. AdmissionTypeOK'
    BY <1>1, <1>2, <1>6 DEF AdmissionTypeOK, Moves, budget
  <1>8. /\ MutexIsHeld /\ BarriersWait /\ WaitersCounted /\ BackgroundCounted
        /\ available + Cardinality(Out) = Capacity
        /\ UNCHANGED <<available, foreground_waiters, waiters, background_active>>
    BY <1>1, ConservedParts DEF AdmissionInv, budget
  <1>9. \A u \in Threads : pc'[u] \notin {"park", "asleep"}
    BY <1>1, <1>5, <1>8, ThreadsAreFinite DEF MutexIsHeld
  <1>10. Registered' = Registered /\ BackgroundHolders' = BackgroundHolders /\ Out' = Out
    BY <1>1, <1>5, ThreadsAreFinite DEF Registered, BackgroundHolders, Out
  <1>11. PermitsConserved'
    BY <1>1, <1>8, <1>9, <1>10
       DEF PermitsConserved, WaitersCounted, BackgroundCounted, BackgroundHolders
  <1>12. BarriersWait'
    BY <1>1, <1>2, <1>5, <1>8, ThreadsAreFinite DEF BarriersWait, AdmissionTypeOK
  <1>13. Fits(t, place)
    BY <1>1, <1>2, <1>4, <1>6 DEF Fits, PlacesFit, HoldsAt, Moves
  <1>14. Locks(t, place) /\ Announces(t, place) /\ WaitersAreWoken'
    BY <1>1, <1>4, <1>9 DEF Locks, Announces, WaitersAreWoken, MutexPlaces
  <1>15. QED
    BY <1>6, <1>7, <1>11, <1>12, <1>13, <1>14, WholeStep

LEMMA SleepStep ==
    ASSUME AdmissionInv, NEW t \in Threads, Sleep(t)
    PROVE  AdmissionInv'
  <1>1. /\ pc[t] = "park" /\ Goto(t, "asleep") /\ "asleep" \in Labels
        /\ asleep' = asleep \cup {t} /\ wake_lock' = NoThread
        /\ UNCHANGED <<budget, cancelled, waking, held, then, chunks, queue, jobs>>
    BY DEF Sleep, requests, work, Labels
  <1>2. /\ AdmissionTypeOK /\ BarriersWait /\ HoldsAt(t) /\ WaitersCounted /\ BackgroundCounted
        /\ SleepersKnown /\ available + Cardinality(Out) = Capacity /\ WaitersAreWoken
        /\ UNCHANGED <<available, foreground_waiters, waiters, background_active>>
    BY <1>1, ConservedParts DEF AdmissionInv, PlacesFit, budget
  <1>3. Moves(t, "asleep") /\ \A u \in Threads \ {t} : pc'[u] = pc[u]
    BY <1>1, <1>2, GotoMoves
  <1>4. AdmissionTypeOK'
    BY <1>1, <1>2, <1>3 DEF AdmissionTypeOK, Moves
  <1>5. HoldsAt(t)' /\ held[t] = 0
    BY <1>1, <1>2, <1>3 DEF HoldsAt, Moves
  <1>6. WaitersCounted'
    BY <1>1, <1>2, <1>3, WaitersStay DEF WaitPlaces
  <1>7. BackgroundCounted'
    BY <1>1, <1>2, <1>3, <1>5, BackgroundStays
  <1>8. SleepersKnown' /\ Out' = Out
    BY <1>1, <1>2, <1>3 DEF SleepersKnown, Out, Moves
  <1>9. PermitsConserved'
    BY <1>2, <1>6, <1>7, <1>8
       DEF PermitsConserved, WaitersCounted, BackgroundCounted, SleepersKnown, BackgroundHolders
  <1>10. BarriersWait'
    BY <1>1, <1>2, <1>3, BarriersStay
  <1>11. Fits(t, "asleep") /\ Locks(t, "asleep") /\ Announces(t, "asleep")
    BY <1>1, <1>2, <1>5 DEF Fits, Locks, Announces, MutexPlaces, AdmissionTypeOK
  <1>12. WaitersAreWoken'
    BY <1>1, <1>2, <1>3, <1>5, WokenStep DEF Wakers
  <1>13. QED
    BY <1>3, <1>4, <1>9, <1>10, <1>11, <1>12, WholeStep

LEMMA RegisterStep ==
    ASSUME AdmissionInv, NEW t \in Threads, Register(t)
    PROVE  AdmissionInv'
  <1>1. /\ pc[t] = "register" /\ Goto(t, "look") /\ "look" \in Labels
        /\ waiters' = waiters + 1
        /\ foreground_waiters' = foreground_waiters + (IF t \in Queries THEN 1 ELSE 0)
        /\ UNCHANGED <<available, background_active, wake_lock, asleep, cancelled, waking, held, then,
                       chunks, queue, jobs>>
    BY DEF Register, sleepers, requests, work, Labels
  <1>2. /\ AdmissionTypeOK /\ BarriersWait /\ HoldsAt(t) /\ WaitersCounted /\ BackgroundCounted
        /\ SleepersKnown /\ available + Cardinality(Out) = Capacity /\ WaitersAreWoken
    BY ConservedParts DEF AdmissionInv, PlacesFit
  <1>3. Moves(t, "look") /\ \A u \in Threads \ {t} : pc'[u] = pc[u]
    BY <1>1, <1>2, GotoMoves
  <1>4. WaitersCounted' /\ {waiters', foreground_waiters'} \subseteq Nat
    BY <1>1, <1>2, <1>3, WaiterEnters DEF WaitPlaces
  <1>5. AdmissionTypeOK'
    BY <1>1, <1>2, <1>3, <1>4 DEF AdmissionTypeOK, Moves
  <1>6. HoldsAt(t)' /\ held[t] = 0
    BY <1>1, <1>2, <1>3 DEF HoldsAt, Moves
  <1>7. BackgroundCounted'
    BY <1>1, <1>2, <1>3, <1>6, BackgroundStays
  <1>8. SleepersKnown' /\ Out' = Out
    BY <1>1, <1>2, <1>3 DEF SleepersKnown, Out, Moves
  <1>9. PermitsConserved'
    BY <1>1, <1>2, <1>4, <1>7, <1>8
       DEF PermitsConserved, WaitersCounted, BackgroundCounted, SleepersKnown, BackgroundHolders
  <1>10. BarriersWait'
    BY <1>1, <1>2, <1>3, BarriersStay
  <1>11. Fits(t, "look") /\ Locks(t, "look") /\ Announces(t, "look")
    BY <1>1, <1>2, <1>6 DEF Fits, Locks, Announces, MutexPlaces, AdmissionTypeOK
  <1>12. WaitersAreWoken'
    BY <1>1, <1>2, <1>3, <1>6, WokenStep DEF Wakers
  <1>13. QED
    BY <1>3, <1>5, <1>9, <1>10, <1>11, <1>12, WholeStep

-----------------------------------------------------------------------------
(* The steps that take or return permits.                                  *)

LEMMA PermitStep ==
    ASSUME AdmissionInv, AdmissionTypeOK', NEW t \in Threads, NEW place \in Labels, NEW n \in Nat,
           Goto(t, place), held' = [held EXCEPT ![t] = n], available' + n = available + held[t],
           \A u \in Threads \ {t} : then'[u] = then[u],
           asleep' = asleep, queue' = queue,
           pc[t] \notin {"asleep", "draining"}, place # "asleep",
           WaitersCounted', BackgroundCounted', HoldsAt(t)',
           place \in {"enter", "asked", "parallel", "ran"} => t \in Queries,
           place \in {"release", "notify"} /\ then'[t] = "ran" => t \in Queries,
           place \in {"digest", "retire", "barrier", "draining"} => t \in Rebuilds,
           Locks(t, place), Announces(t, place), Wakes(t, place)
    PROVE  AdmissionInv'
  <1>1. /\ AdmissionTypeOK /\ BarriersWait /\ SleepersKnown /\ WaitersAreWoken
        /\ available + Cardinality(Out) = Capacity
    BY ConservedParts DEF AdmissionInv
  <1>2. Moves(t, place) /\ \A u \in Threads \ {t} : pc'[u] = pc[u]
    BY <1>1, GotoMoves
  <1>3. \A u \in Threads \ {t} : held'[u] = held[u]
    BY <1>1 DEF AdmissionTypeOK
  <1>4. SleepersKnown'
    BY <1>1, <1>2 DEF SleepersKnown, Moves
  <1>5. available' + Cardinality(Out') = Capacity
    <2>1. /\ Cardinality(Out') + held[t] = Cardinality(Out) + n /\ Cardinality(Out') \in Nat
          /\ Cardinality(Out) \in Nat
      BY <1>1, OutStep, OutIsCounted DEF AdmissionTypeOK
    <2>2. available \in Nat /\ available' \in Nat /\ held[t] \in Nat /\ Capacity \in Nat
      BY <1>1, SizesAssumption DEF AdmissionTypeOK
    <2>3. QED
      BY <1>1, <2>1, <2>2
  <1>6. PermitsConserved'
    BY <1>4, <1>5 DEF PermitsConserved, WaitersCounted, BackgroundCounted, SleepersKnown, BackgroundHolders
  <1>7. BarriersWait'
    BY <1>1, <1>2, BarriersStay
  <1>8. Fits(t, place)
    BY <1>3 DEF Fits
  <1>9. WaitersAreWoken'
    BY <1>1, <1>2, <1>3, WokenStep DEF Wakes
  <1>10. QED
    BY <1>2, <1>6, <1>7, <1>8, <1>9, WholeStep

\* Permits come from the counter, without the mutex.
LEMMA TakeStep ==
    ASSUME AdmissionInv, NEW t \in Threads, NEW place \in {"run", "parallel", "digest"},
           NEW n \in Nat \ {0}, Take(t, n), Goto(t, place),
           pc[t] \in {"idle", "enter", "asked"}, jobs' \in [Threads -> Nat],
           t \in Background => place = "digest",
           place = "parallel" => t \in Queries /\ pc[t] = "asked",
           place = "run" => n = 1 /\ pc[t] = "enter",
           place = "digest" => n = Capacity /\ t \in Rebuilds /\ pc[t] = "idle",
           UNCHANGED <<foreground_waiters, waiters, background_active, wake_lock, asleep,
                       cancelled, waking, then, chunks, queue>>
    PROVE  AdmissionInv'
  <1>1. /\ AdmissionTypeOK /\ WaitersCounted /\ BackgroundCounted /\ HoldsAt(t) /\ place \in Labels
        /\ available \in Nat /\ held \in [Threads -> Nat]
    BY ConservedParts DEF AdmissionInv, PlacesFit, Labels, AdmissionTypeOK
  <1>2. /\ available' \in Nat /\ available' + n = available /\ available' <= available
        /\ held' = [held EXCEPT ![t] = held[t] + n] /\ held[t] + n \in Nat
        /\ available' + (held[t] + n) = available + held[t]
        /\ held' \in [Threads -> Nat] /\ held'[t] = held[t] + n /\ held[t] + n > 0
    BY <1>1 DEF Take
  <1>3. Moves(t, place)
    BY <1>1, GotoMoves
  <1>4. AdmissionTypeOK'
    BY <1>1, <1>2, <1>3 DEF AdmissionTypeOK, Moves
  <1>5. WaitersCounted'
    BY <1>1, <1>3, WaitersStay DEF WaitPlaces
  <1>6. HoldsAt(t)' /\ (pc[t] # "asked" => held[t] = 0)
    BY <1>1, <1>2, <1>3 DEF HoldsAt, Moves
  <1>7. BackgroundCounted'
    <2>1. \A u \in Threads \ {t} : held'[u] = held[u]
      BY <1>1, <1>2
    <2>2. t \in Background =>
            ((held[t] > 0 /\ pc[t] # "digest") <=> (held'[t] > 0 /\ place # "digest"))
      BY <1>6
    <2>3. QED
      BY <1>1, <1>3, <2>1, <2>2, BackgroundStays
  <1>8. Locks(t, place) /\ Announces(t, place) /\ Wakes(t, place)
    BY <1>2 DEF Locks, Announces, Wakes, MutexPlaces
  <1>9. place = "parallel" => t \in Queries
    OBVIOUS
  <1>10. QED
    BY <1>1, <1>2, <1>4, <1>5, <1>6, <1>7, <1>8, PermitStep

\* Permits go back and the thread is about to look for waiters.
LEMMA GiveStep ==
    ASSUME AdmissionInv, NEW t \in Threads, NEW n \in Nat, n <= held[t],
           NEW label \in {"idle", "drop", "lock", "ran"}, Give(t, n, label),
           held[t] - n = (IF label = "ran" THEN 1 ELSE 0), label = "ran" => t \in Queries,
           pc[t] \in {"run", "parallel", "ran", "digest"},
           chunks' \in [Threads -> Nat],
           background_active' =
             background_active - (IF t \in Background /\ pc[t] # "digest" THEN 1 ELSE 0),
           UNCHANGED <<foreground_waiters, waiters, wake_lock, asleep, cancelled, waking, queue, jobs>>
    PROVE  AdmissionInv'
  <1>1. /\ AdmissionTypeOK /\ WaitersCounted /\ BackgroundCounted /\ HoldsAt(t) /\ "release" \in Labels
        /\ available \in Nat /\ held \in [Threads -> Nat] /\ Goto(t, "release")
        /\ then \in [Threads -> {"idle", "drop", "lock", "ran"}]
        /\ background_active \in Nat
    BY ConservedParts DEF AdmissionInv, PlacesFit, Labels, AdmissionTypeOK, Give
  <1>2. PICK m \in Nat : m = held[t] - n
    BY <1>1
  <1>3. /\ available' \in Nat /\ available' + m = available + held[t]
        /\ held' = [held EXCEPT ![t] = m] /\ held' \in [Threads -> Nat] /\ held'[t] = m
        /\ \A u \in Threads \ {t} : held'[u] = held[u] /\ then'[u] = then[u]
        /\ then'[t] = label /\ then' \in [Threads -> {"idle", "drop", "lock", "ran"}]
    BY <1>1, <1>2 DEF Give
  <1>4. Moves(t, "release")
    BY <1>1, GotoMoves
  <1>5. WaitersCounted'
    BY <1>1, <1>4, WaitersStay DEF WaitPlaces
  <1>6. HoldsAt(t)'
    BY <1>2, <1>3, <1>4 DEF HoldsAt, Moves
  <1>7. BackgroundCounted' /\ background_active' \in Nat
    <2>1. held[t] > 0
      BY <1>1, SizesAssumption DEF HoldsAt
    <2>2. CASE t \in Background /\ pc[t] # "digest"
      <3>1. ~(held'[t] > 0)
        BY <1>2, <1>3, <2>2, ThreadsAreFinite
      <3>2. QED
        BY <1>1, <1>3, <1>4, <2>1, <2>2, <3>1, BackgroundLeaves
    <2>3. CASE ~(t \in Background /\ pc[t] # "digest")
      <3>1. t \in Background =>
              ((held[t] > 0 /\ pc[t] # "digest") <=> (held'[t] > 0 /\ "release" # "digest"))
        BY <1>2, <1>3, <2>3, ThreadsAreFinite
      <3>2. background_active' = background_active
        BY <1>1, <2>3
      <3>3. QED
        BY <1>1, <1>3, <1>4, <3>1, <3>2, BackgroundStays
    <2>4. QED
      BY <2>2, <2>3
  <1>8. AdmissionTypeOK'
    BY <1>1, <1>3, <1>4, <1>7, ZenonT(40) DEF AdmissionTypeOK, Moves
  <1>9. Locks(t, "release") /\ Announces(t, "release") /\ Wakes(t, "release")
    BY DEF Locks, Announces, Wakes, MutexPlaces, Wakers
  <1>10. QED
    BY <1>1, <1>3, <1>5, <1>6, <1>7, <1>8, <1>9, PermitStep

LEMMA EnterStep ==
    ASSUME AdmissionInv, NEW q \in Queries, Enter(q)
    PROVE  AdmissionInv'
  <1>1. /\ q \in Threads /\ q \notin Background /\ pc[q] = "enter" /\ AdmissionTypeOK
        /\ UNCHANGED <<foreground_waiters, waiters, background_active, wake_lock, asleep,
                       cancelled, waking, then, chunks, queue, jobs>>
    BY ThreadsAreFinite DEF Enter, sleepers, requests, work, AdmissionInv
  <1>2. CASE Take(q, 1) /\ Goto(q, "run")
    BY <1>1, <1>2, TakeStep DEF AdmissionTypeOK
  <1>3. ASSUME NEW place \in {"drop", "lock"}, Goto(q, place), UNCHANGED <<available, held>>
        PROVE  AdmissionInv'
    <2>1. BarriersWait /\ HoldsAt(q) /\ UNCHANGED budget /\ place \in Labels
      BY <1>1, <1>3 DEF AdmissionInv, PlacesFit, budget, Labels
    <2>2. Moves(q, place)
      BY <1>1, <1>3, <2>1, GotoMoves
    <2>3. AdmissionTypeOK'
      BY <1>1, <1>3, <2>2 DEF AdmissionTypeOK, Moves
    <2>4. BarriersWait'
      BY <1>1, <2>1, <2>2, BarriersStay
    <2>5. HoldsAt(q)' /\ held[q] = 0
      BY <1>1, <1>3, <2>1, <2>2 DEF HoldsAt, Moves
    <2>6. Locks(q, place) /\ Announces(q, place) /\ Wakes(q, place)
      BY <1>1, <1>3, <2>5 DEF Locks, Announces, Wakes, MutexPlaces, Wakers, AdmissionTypeOK
    <2>7. QED
      BY <1>1, <1>3, <2>1, <2>3, <2>4, <2>5, <2>6, PlainStep DEF WaitPlaces
  <1>4. QED
    BY <1>2, <1>3 DEF Enter

LEMMA AdmitStep ==
    ASSUME AdmissionInv, NEW t \in Threads, Admit(t)
    PROVE  AdmissionInv'
  <1>1. /\ AdmissionTypeOK /\ WaitersCounted /\ BackgroundCounted /\ HoldsAt(t)
        /\ available \in Nat /\ held \in [Threads -> Nat] /\ background_active \in Nat
    BY ConservedParts DEF AdmissionInv, PlacesFit, AdmissionTypeOK
  <1>2. /\ pc[t] = "look" /\ Goto(t, "run") /\ "run" \in Labels /\ available >= 1
        /\ available' = available - 1 /\ held' = [held EXCEPT ![t] = held[t] + 1]
        /\ waiters' = waiters - 1
        /\ foreground_waiters' = foreground_waiters - (IF t \in Queries THEN 1 ELSE 0)
        /\ wake_lock' = NoThread
        /\ background_active' = background_active + (IF t \in Background THEN 1 ELSE 0)
        /\ UNCHANGED <<asleep, cancelled, waking, then, chunks, queue, jobs>>
    BY DEF Admit, Take, Leave, requests, work, Labels
  <1>3. held[t] = 0 /\ held' = [held EXCEPT ![t] = 1]
    BY <1>1, <1>2 DEF HoldsAt
  <1>4. /\ available' \in Nat /\ available' + 1 = available + held[t] /\ available' <= available
        /\ held' \in [Threads -> Nat] /\ held'[t] = 1
        /\ \A u \in Threads \ {t} : held'[u] = held[u]
    BY <1>1, <1>2, <1>3
  <1>5. Moves(t, "run")
    BY <1>1, <1>2, GotoMoves
  <1>6. WaitersCounted' /\ {waiters', foreground_waiters'} \subseteq Nat
    BY <1>1, <1>2, <1>5, WaiterLeaves DEF WaitPlaces
  <1>7. BackgroundCounted' /\ background_active' \in Nat
    <2>1. CASE t \in Background
      BY <1>1, <1>2, <1>3, <1>4, <1>5, <2>1, BackgroundEnters
    <2>2. CASE t \notin Background
      BY <1>1, <1>2, <1>4, <1>5, <2>2, BackgroundStays
    <2>3. QED
      BY <2>1, <2>2
  <1>8. AdmissionTypeOK'
    BY <1>1, <1>2, <1>4, <1>5, <1>6, <1>7 DEF AdmissionTypeOK, Moves
  <1>9. HoldsAt(t)'
    BY <1>4, <1>5 DEF HoldsAt, Moves
  <1>10. Locks(t, "run") /\ Announces(t, "run") /\ Wakes(t, "run")
    BY <1>2, <1>4 DEF Locks, Announces, Wakes, MutexPlaces
  <1>11. QED
    BY <1>2, <1>3, <1>4, <1>6, <1>7, <1>8, <1>9, <1>10, PermitStep

LEMMA MinIsTaken ==
    ASSUME NEW m \in Nat \ {0}, NEW n \in Nat \ {0}
    PROVE  Min({m, n}) \in Nat \ {0}
  <1>1. \E x \in {m, n} : \A y \in {m, n} : x <= y
    OBVIOUS
  <1>2. Min({m, n}) \in {m, n}
    BY <1>1 DEF Min
  <1>3. QED
    BY <1>2

LEMMA AcquireParallelStep ==
    ASSUME AdmissionInv, NEW q \in Queries, AcquireParallel(q)
    PROVE  AdmissionInv'
  <1>1. /\ q \in Threads /\ q \notin Background /\ pc[q] = "asked" /\ AdmissionTypeOK
        /\ UNCHANGED <<foreground_waiters, waiters, background_active, wake_lock, asleep,
                       cancelled, waking, then, chunks, queue, jobs>>
    BY ThreadsAreFinite DEF AcquireParallel, sleepers, requests, work, AdmissionInv
  <1>2. CASE available > 0 /\ Take(q, Min({Parallel, available})) /\ Goto(q, "parallel")
    <2>1. available \in Nat \ {0} /\ Parallel \in Nat \ {0}
      BY <1>1, <1>2, SizesAssumption DEF AdmissionTypeOK
    <2>2. PICK n \in Nat \ {0} : n = Min({Parallel, available})
      BY <2>1, MinIsTaken
    <2>3. Take(q, n) /\ jobs' \in [Threads -> Nat]
      BY <1>1, <1>2, <2>2 DEF Take, AdmissionTypeOK
    <2>4. QED
      BY <1>1, <1>2, <2>3, TakeStep
  <1>3. CASE Goto(q, "ran") /\ UNCHANGED <<available, held>>
    <2>1. BarriersWait /\ HoldsAt(q) /\ UNCHANGED budget /\ "ran" \in Labels
      BY <1>1, <1>3 DEF AdmissionInv, PlacesFit, budget, Labels
    <2>2. Moves(q, "ran")
      BY <1>1, <1>3, <2>1, GotoMoves
    <2>3. AdmissionTypeOK'
      BY <1>1, <1>3, <2>2 DEF AdmissionTypeOK, Moves
    <2>4. BarriersWait'
      BY <1>1, <2>1, <2>2, BarriersStay
    <2>5. HoldsAt(q)' /\ held'[q] = 1
      BY <1>1, <1>3, <2>1, <2>2 DEF HoldsAt, Moves
    <2>6. Locks(q, "ran") /\ Announces(q, "ran") /\ Wakes(q, "ran")
      BY <1>1, <1>3, <2>5 DEF Locks, Announces, Wakes, MutexPlaces, Wakers, AdmissionTypeOK
    <2>7. QED
      BY <1>1, <1>3, <2>1, <2>3, <2>4, <2>5, <2>6, PlainStep DEF WaitPlaces
  <1>4. QED
    BY <1>2, <1>3 DEF AcquireParallel

LEMMA AcquireAllStep ==
    ASSUME AdmissionInv, NEW r \in Rebuilds, AcquireAll(r)
    PROVE  AdmissionInv'
  <1>1. /\ r \in Threads /\ pc[r] = "idle" /\ Take(r, Capacity) /\ Goto(r, "digest")
        /\ jobs' = [jobs EXCEPT ![r] = @ + 1] /\ Capacity \in Nat \ {0}
        /\ UNCHANGED <<foreground_waiters, waiters, background_active, wake_lock, asleep,
                       cancelled, waking, then, chunks, queue>>
    BY ThreadsAreFinite, SizesAssumption DEF AcquireAll, sleepers, requests
  <1>2. jobs' \in [Threads -> Nat]
    BY <1>1 DEF AdmissionInv, AdmissionTypeOK
  <1>3. QED
    BY <1>1, <1>2, TakeStep

LEMMA EndParallelStep ==
    ASSUME AdmissionInv, NEW q \in Queries, EndParallel(q)
    PROVE  AdmissionInv'
  <1>1. /\ q \in Threads /\ q \notin Background /\ pc[q] = "parallel" /\ Give(q, held[q] - 1, "ran")
        /\ UNCHANGED <<foreground_waiters, waiters, background_active, wake_lock, asleep,
                       cancelled, waking, chunks, queue, jobs>>
    BY ThreadsAreFinite DEF EndParallel, sleepers, requests
  <1>2. AdmissionTypeOK /\ HoldsAt(q)
    BY <1>1 DEF AdmissionInv, PlacesFit
  <1>3. held[q] \in Nat /\ held[q] > 1
    BY <1>1, <1>2 DEF AdmissionTypeOK, HoldsAt
  <1>4. PICK n \in Nat : n = held[q] - 1
    BY <1>3
  <1>5. Give(q, n, "ran")
    BY <1>1, <1>4, Zenon
  <1>6. /\ n <= held[q] /\ held[q] - n = 1 /\ chunks' \in [Threads -> Nat]
        /\ background_active' = background_active - 0
    BY <1>1, <1>2, <1>3, <1>4 DEF AdmissionTypeOK
  <1>7. QED
    BY <1>1, <1>5, <1>6, GiveStep

LEMMA EndDigestStep ==
    ASSUME AdmissionInv, NEW r \in Rebuilds, EndDigest(r)
    PROVE  AdmissionInv'
  <1>1. /\ r \in Threads /\ pc[r] = "digest" /\ Give(r, held[r], "idle")
        /\ UNCHANGED <<foreground_waiters, waiters, background_active, wake_lock, asleep,
                       cancelled, waking, chunks, queue, jobs>>
    BY ThreadsAreFinite DEF EndDigest, sleepers, requests
  <1>2. AdmissionTypeOK /\ HoldsAt(r)
    BY <1>1 DEF AdmissionInv, PlacesFit
  <1>3. PICK n \in Nat : n = held[r]
    BY <1>1, <1>2 DEF AdmissionTypeOK
  <1>4. /\ Give(r, n, "idle") /\ n <= held[r] /\ held[r] - n = 0 /\ chunks' \in [Threads -> Nat]
        /\ background_active' = background_active - 0
    BY <1>1, <1>2, <1>3, SMTT(40) DEF Give, AdmissionTypeOK
  <1>5. QED
    BY <1>1, <1>4, GiveStep

\* Work ends or stands back with its single permit.
LEMMA GiveOneStep ==
    ASSUME AdmissionInv, NEW t \in Threads, NEW label \in {"idle", "drop", "lock"},
           Give(t, held[t], label), pc[t] \in {"run", "ran"}, chunks' \in [Threads -> Nat],
           background_active' = background_active - (IF t \in Background THEN 1 ELSE 0),
           UNCHANGED <<foreground_waiters, waiters, wake_lock, asleep, cancelled, waking, queue, jobs>>
    PROVE  AdmissionInv'
  <1>1. AdmissionTypeOK /\ HoldsAt(t)
    BY DEF AdmissionInv, PlacesFit
  <1>2. PICK n \in Nat : n = held[t]
    BY <1>1 DEF AdmissionTypeOK
  <1>3. Give(t, n, label) /\ n <= held[t] /\ held[t] - n = 0
    BY <1>2 DEF Give
  <1>4. QED
    BY <1>3, GiveStep

LEMMA FinishStep ==
    ASSUME AdmissionInv, NEW t \in Threads, Finish(t)
    PROVE  AdmissionInv'
  <1>1. PICK label \in {"idle", "drop", "lock"} : label = (IF t = Reclaimer THEN "idle" ELSE "drop")
    OBVIOUS
  <1>2. chunks' \in [Threads -> Nat] /\ Give(t, held[t], label)
    BY <1>1 DEF Finish, Give, AdmissionInv, AdmissionTypeOK
  <1>3. QED
    BY <1>2, GiveOneStep DEF Finish, sleepers, requests

LEMMA CheckpointStep ==
    ASSUME AdmissionInv, NEW t \in Threads, CheckpointWork(t)
    PROVE  AdmissionInv'
  <1>1. /\ t \in Background /\ pc[t] = "run" /\ chunks' = [chunks EXCEPT ![t] = @ - 1]
        /\ chunks[t] > 0 /\ AdmissionTypeOK
        /\ UNCHANGED <<foreground_waiters, waiters, wake_lock, asleep, cancelled, waking, queue, jobs>>
    BY DEF CheckpointWork, sleepers, requests, AdmissionInv
  <1>2. chunks' \in [Threads -> Nat]
    BY <1>1 DEF AdmissionTypeOK
  <1>3. CASE UNCHANGED <<available, background_active, held, then, pc>>
    <2>1. AdmissionTypeOK' /\ UNCHANGED budget
      BY <1>1, <1>2, <1>3 DEF AdmissionTypeOK, budget
    <2>2. QED
      BY <1>1, <1>3, <2>1, OutsideStep
  <1>4. CASE Give(t, held[t], "lock") /\ background_active' = background_active - 1
    BY <1>1, <1>2, <1>4, GiveOneStep
  <1>5. QED
    BY <1>3, <1>4 DEF CheckpointWork

-----------------------------------------------------------------------------
(* The theorems.                                                           *)

LEMMA AdmissionInitially ==
    ASSUME Init
    PROVE  AdmissionInv
  <1>1. /\ available = Capacity /\ foreground_waiters = 0 /\ waiters = 0 /\ background_active = 0
        /\ wake_lock = NoThread /\ asleep = {} /\ queue = << >>
        /\ \A t \in Threads : held[t] = 0 /\ pc[t] = "idle"
    BY DEF Init
  <1>2. AdmissionTypeOK
    <2>1. Capacity \in Nat
      BY SizesAssumption
    <2>2. queue \in Seq(Background)
      BY <1>1
    <2>3. /\ then \in [Threads -> {"idle", "drop", "lock", "ran"}] /\ pc \in [Threads -> Labels]
          /\ held \in [Threads -> Nat] /\ chunks \in [Threads -> Nat] /\ jobs \in [Threads -> Nat]
          /\ cancelled \in [Queries -> BOOLEAN] /\ waking \in BOOLEAN
      BY DEF Init, Labels
    <2>4. QED
      BY <1>1, <2>1, <2>2, <2>3 DEF AdmissionTypeOK
  <1>3. MutexIsHeld /\ PlacesFit /\ BarriersWait
    BY <1>1, ThreadsAreFinite DEF MutexIsHeld, PlacesFit, HoldsAt, BarriersWait
  <1>4. PermitsConserved
    <2>1. \A t \in Threads : 1 .. held[t] = {}
      BY <1>1
    <2>2. Out = {} /\ Registered = {} /\ Registered \cap Queries = {}
      BY <1>1, <2>1 DEF Out, Registered
    <2>3. {t \in Background : held[t] > 0 /\ pc[t] # "digest"} = {}
      BY <1>1, ThreadsAreFinite
    <2>4. Cardinality({}) = 0 /\ Capacity \in Nat
      BY SizesAssumption, FS_EmptySet
    <2>5. asleep = {t \in Threads : pc[t] = "asleep"}
      BY <1>1
    <2>6. available + Cardinality(Out) = Capacity
      BY <1>1, <2>2, <2>4
    <2>7. QED
      BY <1>1, <2>2, <2>3, <2>4, <2>5, <2>6 DEF PermitsConserved
  <1>5. PermitsAreAnnounced /\ WaitersAreWoken
    BY <1>1, ThreadsAreFinite DEF PermitsAreAnnounced, WaitersAreWoken
  <1>6. QED
    BY <1>2, <1>3, <1>4, <1>5 DEF AdmissionInv

LEMMA AdmissionStutters ==
    ASSUME AdmissionInv, UNCHANGED vars
    PROVE  AdmissionInv'
  <1>1. AdmissionTypeOK' /\ UNCHANGED budget
    BY DEF AdmissionInv, AdmissionTypeOK, vars, budget
  <1>2. QED
    BY <1>1, OutsideStep DEF vars

\* The inductive invariant of admission: the type of the state, who holds the
\* mutex, what each thread holds at each place, the queue of the reclaimer, and
\* that a permit which was returned is announced to the queries that sleep.
THEOREM AdmissionInvariant == Spec => []AdmissionInv
  <1>1. Init => AdmissionInv
    BY AdmissionInitially
  <1>2. AdmissionInv /\ [Next]_vars => AdmissionInv'
    <2>1. SUFFICES ASSUME AdmissionInv, Next PROVE AdmissionInv'
      BY AdmissionStutters
    <2>2. ASSUME NEW t \in Threads, Step(t)
          PROVE  AdmissionInv'
      <3>1. CASE t \in Queries /\ QueryStep(t)
        BY <2>1, <3>1, EnterStep, GiveUpStep, AskParallelStep, AcquireParallelStep, EndParallelStep
           DEF QueryStep
      <3>2. CASE t \in Rebuilds /\ (ReleasePrevious(t) \/ SendBarrier(t) \/ EndDigest(t))
        BY <2>1, <3>2, ReleasePreviousStep, SendBarrierStep, EndDigestStep
      <3>3. QED
        BY <2>1, <2>2, <3>1, <3>2, LockStep, RegisterStep, AdmitStep, DeclineStep, SleepStep,
           FinishStep, CheckWaitersStep, NotifyStep, CheckpointStep, DropStep, ReceiveStep DEF Step
    <2>3. QED
      BY <2>1, <2>2, RequestStep, CancelStep, RebuildStep, AcquireAllStep, WakeCancelledStep DEF Next
  <1>3. QED
    BY <1>1, <1>2, PTL DEF Spec

\* For any capacity and any number of queries and rebuilds: the atomic counter
\* and the permits held add up to the capacity, and the counts of waiters and of
\* background work are those of the threads, along every path through
\* WorkerBudget::enter, acquire, acquire_all, checkpoint and WorkerPermit::drop.
THEOREM CountersNeverDrift == Spec => []PermitsConserved
  <1>1. AdmissionInv => PermitsConserved
    BY DEF AdmissionInv
  <1>2. QED
    BY <1>1, AdmissionInvariant, PTL

\* No wake-up is lost: while a thread sleeps in the Condvar of WorkerBudget::enter,
\* some thread holds a permit, returns one or is on its way through the loop.
THEOREM WakeupsAreNotLost == Spec => []SleepersAreWoken
  <1>1. AdmissionInv => SleepersAreWoken
    BY ConservedParts DEF AdmissionInv, WaitersAreWoken, SleepersAreWoken, SleepersKnown
  <1>2. QED
    BY <1>1, AdmissionInvariant, PTL
=============================================================================
