------------------------ MODULE RequestRegistryProofs ------------------------
(***************************************************************************)
(* Cancellation and status observation, for every number of requests, of   *)
(* ids and of observers.  What concerns the ids assumes that clients keep  *)
(* those of observers, of queries and of duplicates requests apart         *)
(* (Disciplined); the accounting of the observers assumes nothing.         *)
(***************************************************************************)
EXTENDS RequestRegistry, FiniteSetTheorems, TLAPS

\* A fresh engine satisfies the invariant.
LEMMA InitEstablishesIndInv ==
    ASSUME Init
    PROVE  IndInv
  <1>1. (CHOOSE c \in Call : TRUE) \in Call
    <2>1. PICK k \in Kinds, i \in Ids : TRUE
      BY KindsAssumption
    <2>2. [kind |-> k, id |-> i, after |-> 0] \in Call
      BY <2>1, BoundsAssumption DEF Call
    <2>3. QED
      BY <2>2
  <1>2. call \in [Requests -> Call]
    <2> DEFINE first == CHOOSE c \in Call : TRUE
    <2>1. first \in Call /\ call = [t \in Requests |-> first]
      BY <1>1 DEF Init
    <2> HIDE DEF first
    <2>2. QED
      BY <2>1
  <1>3. TypeOK
    <2>1. /\ registry \in [Ids -> Requests \cup {NoRequest}]
          /\ {registry_lock, status_lock} \subseteq Requests \cup {NoRequest}
          /\ cancelled \in [Requests -> BOOLEAN] /\ waking \in BOOLEAN
      BY DEF Init
    <2>2. /\ revision \in 0 .. MaxRevision
          /\ jobs \in [Requests -> 0 .. MaxRequests]
          /\ waiters \in Int
      BY BoundsAssumption DEF Init
    <2>3. /\ asleep \subseteq Requests /\ expired \subseteq Requests
          /\ pc \in [Requests -> {"idle"}]
      BY DEF Init
    <2>4. QED
      BY <1>2, <2>1, <2>2, <2>3 DEF TypeOK
  <1>4. EntriesAreLive /\ CancellationReaches
    BY DEF Init, EntriesAreLive, CancellationReaches, InFlight
  <1>5. LocksMatch /\ CallsMatch /\ ParkedAreWoken
    BY KindsAssumption DEF Init, LocksMatch, CallsMatch, ParkedAreWoken, Waiting
  <1>6. QED
    BY <1>3, <1>4, <1>5 DEF IndInv

\* Every step of a request, a client or the status preserves the invariant.
LEMMA StepPreservesIndInv ==
    ASSUME Disciplined, IndInv, [Next]_vars
    PROVE  IndInv'
  <1> USE KindsAssumption, BoundsAssumption
      DEF Disciplined, IndInv, TypeOK, Call, Waiting, EntriesAreLive, CancellationReaches,
          LocksMatch, CallsMatch, ParkedAreWoken, InFlight, Goto, names, status
  <1>1. ASSUME NEW t \in Requests, Begin(t)
        PROVE  IndInv'
    BY <1>1 DEF Begin
  <1>2. ASSUME NEW t \in Requests, Insert(t)
        PROVE  IndInv'
    \* The displaced request, if any, is cancelled; the displacing one is an
    \* observer if the displaced one is.
    <2>1. PICK old \in Requests \cup {NoRequest} : old = registry[call[t].id]
      BY <1>2
    <2>2. /\ old # NoRequest => pc[old] \notin {"idle", "insert"} /\ call[old].id = call[t].id
          /\ pc[t] = "insert"
      BY <1>2, <2>1 DEF Insert
    <2>3. old # NoRequest /\ call[old].kind = "wait_status" => call[t].kind = "wait_status"
      <3>1. ASSUME old # NoRequest
            PROVE  /\ call[old].kind \in Kinds /\ call[t].kind \in Kinds
                   /\ call[t].id \in IdsOf[call[old].kind] \cap IdsOf[call[t].kind]
        BY <2>2, <3>1
      <3>2. QED
        BY <3>1, ZenonT(40)
    <2>4. TypeOK'
      <3>1. cancelled' \in [Requests -> BOOLEAN]
        <4>1. cancelled' = cancelled \/ cancelled' = [cancelled EXCEPT ![old] = TRUE]
          BY <1>2, <2>1 DEF Insert
        <4>2. cancelled \in [Requests -> BOOLEAN]
          OBVIOUS
        <4>3. QED
          BY ONLY <4>1, <4>2
      <3>2. /\ registry' \in [Ids -> Requests \cup {NoRequest}]
            /\ registry_lock' \in Requests \cup {NoRequest}
        BY <1>2 DEF Insert
      <3>3. pc' \in [Requests -> Waiting \cup
                      {"idle", "insert", "replace", "run", "join", "refuse", "drop"}]
        BY <1>2 DEF Insert, Body
      <3>4. UNCHANGED <<waking, status, call, jobs>>
        BY <1>2 DEF Insert
      <3>5. QED
        BY <3>1, <3>2, <3>3, <3>4
    <2>5. LocksMatch'
      BY <1>2 DEF Insert, Body
    <2>6. CallsMatch'
      BY <1>2 DEF Insert, Body
    <2>7. EntriesAreLive'
      BY <1>2, <2>1, <2>2 DEF Insert, Body
    <2>8. CancellationReaches'
      BY <1>2, <2>1, <2>2 DEF Insert, Body
    <2>9. ParkedAreWoken'
      BY <1>2, <2>1, <2>2, <2>3 DEF Insert, Body
    <2>10. QED
      BY <2>4, <2>5, <2>6, <2>7, <2>8, <2>9
  <1>3. ASSUME NEW t \in Requests, Replace(t)
        PROVE  IndInv'
    BY <1>3 DEF Replace, Body, NotifyAll
  <1>4. ASSUME NEW t \in Requests, Run(t)
        PROVE  IndInv'
    BY <1>4 DEF Run
  <1>5. ASSUME NEW t \in Requests, Drop(t)
        PROVE  IndInv'
    BY <1>5 DEF Drop
  <1>6. ASSUME NEW t \in Requests, Join(t)
        PROVE  IndInv'
    BY <1>6 DEF Join
  <1>7. ASSUME NEW t \in Requests, Refuse(t)
        PROVE  IndInv'
    BY <1>7 DEF Refuse
  <1>8. ASSUME NEW t \in Requests, Lock(t)
        PROVE  IndInv'
    BY <1>8 DEF Lock
  <1>9. ASSUME NEW t \in Requests, Check(t)
        PROVE  IndInv'
    BY <1>9 DEF Check, Unchanged
  <1>10. ASSUME NEW t \in Requests, Sleep(t)
         PROVE  IndInv'
    BY <1>10 DEF Sleep
  <1>11. ASSUME NEW t \in Requests, Leave(t)
         PROVE  IndInv'
    BY <1>11 DEF Leave
  <1>12. ASSUME NEW t \in Requests, Expire(t)
         PROVE  IndInv'
    BY <1>12 DEF Expire
  <1>13. ASSUME NEW i \in Ids, Cancel(i)
         PROVE  IndInv'
    BY <1>13 DEF Cancel
  <1>14. ASSUME WakeCancelled
         PROVE  IndInv'
    \* Nobody is between its decision and its sleep, and every sleeper is woken.
    <2>1. /\ \A t \in Requests : pc[t] \notin {"check", "park"}
          /\ pc' = [t \in Requests |-> IF pc[t] = "asleep" THEN "relock" ELSE pc[t]]
      BY <1>14 DEF WakeCancelled, NotifyAll
    <2>2. TypeOK' /\ LocksMatch' /\ CallsMatch'
      <3>1. UNCHANGED <<registry, registry_lock, cancelled, revision, status_lock, expired,
                        waiters, call, jobs>> /\ waking' = FALSE /\ asleep' = {}
        BY <1>14 DEF WakeCancelled, NotifyAll
      <3>2. pc' \in [Requests -> Waiting \cup
                      {"idle", "insert", "replace", "run", "join", "refuse", "drop"}]
        BY <2>1
      <3>3. TypeOK'
        BY <3>1, <3>2
      <3>4. LocksMatch'
        BY <2>1, <3>1
      <3>5. CallsMatch'
        BY <2>1, <3>1
      <3>6. QED
        BY <3>3, <3>4, <3>5
    <2>3. \A t \in Requests : InFlight(t)' <=> InFlight(t)
      BY <2>1
    <2>4. EntriesAreLive'
      BY <1>14, <2>3 DEF WakeCancelled
    <2>5. CancellationReaches'
      BY <1>14, <2>3 DEF WakeCancelled
    <2>6. ParkedAreWoken'
      BY <1>14, <2>1 DEF WakeCancelled
    <2>7. QED
      BY <2>2, <2>4, <2>5, <2>6
  <1>15. ASSUME Publish
         PROVE  IndInv'
    BY <1>15 DEF Publish, NotifyAll
  <1>16. CASE UNCHANGED vars
    BY <1>16 DEF vars
  <1>17. QED
    BY <1>1, <1>2, <1>3, <1>4, <1>5, <1>6, <1>7, <1>8, <1>9, <1>10, <1>11, <1>12, <1>13,
       <1>14, <1>15, <1>16 DEF Next, Step

\* IndInv holds in every reachable state.
LEMMA Invariance ==
    ASSUME Disciplined
    PROVE  Spec => []IndInv
  <1>1. Init => IndInv
    BY InitEstablishesIndInv
  <1>2. IndInv /\ [Next]_vars => IndInv'
    BY StepPreservesIndInv
  <1>3. QED
    BY <1>1, <1>2, PTL DEF Spec

\* A cancel reaches every request in flight under its id: requests.insert cancels
\* the displaced token, RequestGuard::drop spares the successor's.
THEOREM CancelReachesRequests ==
    ASSUME Disciplined
    PROVE  Spec => []CancellationReaches
  <1>1. IndInv => CancellationReaches
    BY DEF IndInv
  <1>2. QED
    BY <1>1, Invariance, PTL

\* No status observer sleeps through a change or a cancellation: StatusSignal
\* changes the revision, and wakes, under the mutex of the observer's check.
THEOREM ObserversAreWoken ==
    ASSUME Disciplined
    PROVE  Spec => []NoMissedWake
  <1>1. IndInv => NoMissedWake
    BY DEF IndInv, LocksMatch, ParkedAreWoken, NoMissedWake
  <1>2. QED
    BY <1>1, Invariance, PTL

-----------------------------------------------------------------------------
(* The observers.                                                          *)

Counted == At(Waiting \cup {"refuse"})
Admitted == At(Waiting)

SameObservers == waiters' = waiters /\ Counted' = Counted /\ Admitted' = Admitted

\* What the control of the threads must satisfy for the accounting.
ControlOK ==
  /\ pc \in [Requests -> Waiting \cup {"idle", "insert", "replace", "run", "join", "refuse", "drop"}]
  /\ asleep \subseteq At({"asleep"})
  /\ waiters \in Int

\* The threads inside StatusSignal::wait are finitely many.
LEMMA Finite ==
    /\ IsFiniteSet(Counted) /\ Cardinality(Counted) \in Nat
    /\ IsFiniteSet(Admitted) /\ Cardinality(Admitted) \in Nat
    /\ Cardinality(Admitted) <= Cardinality(Counted)
  <1>1. Counted \in SUBSET Requests /\ Admitted \in SUBSET Counted
    BY DEF Counted, Admitted, At
  <1>2. IsFiniteSet(Counted) /\ IsFiniteSet(Admitted) /\ Cardinality(Admitted) <= Cardinality(Counted)
    BY <1>1, KindsAssumption, FS_Subset
  <1>3. QED
    BY <1>2, FS_CardinalityType

\* An observer that joins is one more.
LEMMA AddOne ==
    ASSUME NEW S, IsFiniteSet(S), NEW x, x \notin S
    PROVE  Cardinality(S \cup {x}) = Cardinality(S) + 1
BY FS_AddElement

\* An observer that leaves is one fewer.
LEMMA RemoveOne ==
    ASSUME NEW S, IsFiniteSet(S), NEW x \in S
    PROVE  Cardinality(S \ {x}) = Cardinality(S) - 1
BY FS_RemoveElement

\* Every step keeps the control well-formed.
LEMMA ControlStep ==
    ASSUME ControlOK, [Next]_vars
    PROVE  ControlOK'
BY KindsAssumption DEF ControlOK, At, Next, Step, Begin, Insert, Body, Replace, Run, Drop, Cancel,
   WakeCancelled, Publish, Join, Refuse, Lock, Check, Sleep, Expire, Leave, NotifyAll, Goto,
   names, status, vars, Waiting

\* Every step keeps the counter exact and the limit respected.
LEMMA AccountingStep ==
    ASSUME ControlOK, ObserversAccounted, [Next]_vars
    PROVE  ObserversAccounted'
  <1> USE KindsAssumption, BoundsAssumption
      DEF ControlOK, ObserversAccounted, SameObservers, Counted, Admitted, At, Waiting, Goto,
          names, status
  <1>1. ASSUME NEW t \in Requests, Begin(t)
        PROVE  SameObservers
    BY <1>1 DEF Begin
  <1>2. ASSUME NEW t \in Requests, Insert(t)
        PROVE  SameObservers
    BY <1>2 DEF Insert, Body
  <1>3. ASSUME NEW t \in Requests, Replace(t)
        PROVE  SameObservers
    BY <1>3 DEF Replace, Body, NotifyAll
  <1>4. ASSUME NEW t \in Requests, Run(t)
        PROVE  SameObservers
    BY <1>4 DEF Run
  <1>5. ASSUME NEW t \in Requests, Drop(t)
        PROVE  SameObservers
    BY <1>5 DEF Drop
  <1>6. ASSUME NEW t \in Requests, Join(t)
        PROVE  ObserversAccounted'
    <2>1. t \notin Counted /\ Counted' = Counted \cup {t} /\ waiters' = waiters + 1
      BY <1>6 DEF Join
    <2>2. Cardinality(Counted') = Cardinality(Counted) + 1
      <3> HIDE DEF Counted, Admitted
      <3> QED
        BY <2>1, Finite, AddOne
    <2>3. CASE waiters >= MaxWaiters
      <3>1. Admitted' = Admitted
        BY <1>6, <2>3 DEF Join
      <3>2. QED
        BY <2>1, <2>2, <3>1
    <2>4. CASE waiters < MaxWaiters
      <3>1. Admitted' = Admitted \cup {t} /\ t \notin Admitted
        BY <1>6, <2>4 DEF Join
      <3>2. Cardinality(Admitted') = Cardinality(Admitted) + 1
        <4> HIDE DEF Counted, Admitted
        <4> QED
          BY <3>1, Finite, AddOne
      <3>3. QED
        BY <2>1, <2>2, <2>4, <3>2, Finite
    <2>5. QED
      BY <2>3, <2>4
  <1>7. ASSUME NEW t \in Requests, Refuse(t)
        PROVE  ObserversAccounted'
    <2>1. /\ t \in Counted /\ Counted' = Counted \ {t} /\ waiters' = waiters - 1
          /\ Admitted' = Admitted
      BY <1>7 DEF Refuse
    <2>2. Cardinality(Counted') = Cardinality(Counted) - 1
      <3> HIDE DEF Counted, Admitted
      <3> QED
        BY <2>1, Finite, RemoveOne
    <2>3. QED
      BY <2>1, <2>2
  <1>8. ASSUME NEW t \in Requests, Lock(t)
        PROVE  SameObservers
    BY <1>8 DEF Lock
  <1>9. ASSUME NEW t \in Requests, Check(t)
        PROVE  SameObservers
    BY <1>9 DEF Check, Unchanged
  <1>10. ASSUME NEW t \in Requests, Sleep(t)
         PROVE  SameObservers
    BY <1>10 DEF Sleep
  <1>11. ASSUME NEW t \in Requests, Leave(t)
         PROVE  ObserversAccounted'
    <2>1. /\ t \in Counted /\ Counted' = Counted \ {t} /\ waiters' = waiters - 1
          /\ t \in Admitted /\ Admitted' = Admitted \ {t}
      BY <1>11 DEF Leave
    <2>2. Cardinality(Counted') = Cardinality(Counted) - 1
      <3> HIDE DEF Counted, Admitted
      <3> QED
        BY <2>1, Finite, RemoveOne
    <2>3. Cardinality(Admitted') = Cardinality(Admitted) - 1
      <3> HIDE DEF Counted, Admitted
      <3> QED
        BY <2>1, Finite, RemoveOne
    <2>4. QED
      BY <2>1, <2>2, <2>3, Finite
  <1>12. ASSUME NEW t \in Requests, Expire(t)
         PROVE  SameObservers
    BY <1>12 DEF Expire
  <1>13. ASSUME NEW i \in Ids, Cancel(i)
         PROVE  SameObservers
    BY <1>13 DEF Cancel
  <1>14. ASSUME WakeCancelled
         PROVE  SameObservers
    BY <1>14 DEF WakeCancelled, NotifyAll
  <1>15. ASSUME Publish
         PROVE  SameObservers
    BY <1>15 DEF Publish, NotifyAll
  <1>16. CASE UNCHANGED vars
    BY <1>16 DEF vars
  <1>17. SameObservers => ObserversAccounted'
    OBVIOUS
  <1>18. QED
    BY <1>1, <1>2, <1>3, <1>4, <1>5, <1>6, <1>7, <1>8, <1>9, <1>10, <1>11, <1>12, <1>13,
       <1>14, <1>15, <1>16, <1>17 DEF Next, Step

\* StatusSignal::waiters counts exactly the observers inside wait, and no more
\* than MAX_WAITERS of them are admitted, whatever ids clients use.
THEOREM ObserverSlotsExact == Spec => []ObserversAccounted
  <1>1. Init => ControlOK /\ ObserversAccounted
    <2>1. ASSUME Init PROVE Counted = {} /\ Admitted = {} /\ ControlOK /\ waiters = 0
      BY <2>1 DEF Init, ControlOK, Counted, Admitted, At, Waiting
    <2>2. QED
      BY <2>1, FS_EmptySet, BoundsAssumption DEF ObserversAccounted, Counted, Admitted
  <1>2. ControlOK /\ ObserversAccounted /\ [Next]_vars => (ControlOK /\ ObserversAccounted)'
    BY ControlStep, AccountingStep
  <1>3. QED
    BY <1>1, <1>2, PTL DEF Spec
=============================================================================
