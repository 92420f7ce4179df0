------------------------- MODULE FileOperationsProofs -------------------------
(***************************************************************************)
(* What file operations move, keep and may undo, for any paths, volumes,   *)
(* batches and numbers of requests and faults.                             *)
(***************************************************************************)
EXTENDS FileOperations, SequenceTheorems, FiniteSetTheorems, WellFoundedInduction, TLAPS

-----------------------------------------------------------------------------
\* Minima and maxima

LEMMA LeastNatural ==
    ASSUME NEW T, T \subseteq Nat, T # {}
    PROVE  \E x \in T : \A y \in T : x <= y
  <1> DEFINE R == OpToRel(<, Nat)
  <1>1. IsWellFoundedOn(R, Nat)
    BY NatLessThanWellFounded
  <1>2. \A x, y \in Nat : <<y, x>> \in R <=> y < x
    BY Zenon DEF OpToRel
  <1> HIDE DEF R
  <1>3. PICK x \in T : \A y \in T : ~(<<y, x>> \in R)
    BY <1>1, WFMin, Zenon
  <1>4. \A y \in T : ~(y < x)
    BY <1>2, <1>3, Zenon
  <1>5. x \in Nat /\ \A y \in T : y \in Nat
    BY Zenon
  <1>6. \A y \in T : x <= y
    BY <1>4, <1>5
  <1>7. QED
    BY <1>6, Zenon

LEMMA MaxOfBounded ==
    ASSUME NEW S, S \subseteq Nat, S # {}, NEW n \in Nat, \A x \in S : x <= n
    PROVE  Max(S) \in S /\ \A x \in S : x <= Max(S)
  <1> DEFINE T == {n - x : x \in S}
  <1>0. \A x \in S : n - x \in Nat
    OBVIOUS
  <1>1. T \subseteq Nat /\ T # {}
    BY <1>0
  <1>2. PICK u \in T : \A v \in T : u <= v
    BY <1>1, LeastNatural
  <1>3. PICK m \in S : u = n - m
    BY <1>2
  <1>4. \A x \in S : m >= x
    BY <1>2, <1>3
  <1>5. QED
    BY <1>4 DEF Max

-----------------------------------------------------------------------------
\* Ids and slots

LEMMA Batch ==
    ASSUME NEW batch \in Batches
    PROVE  /\ Len(batch) \in Nat \ {0} /\ DOMAIN batch = 1 .. Len(batch)
           /\ \A j \in DOMAIN batch : batch[j].src \in Paths /\ batch[j].dst \in Paths
  <1>1. batch \in Seq([src : Paths, dst : Paths]) /\ batch # << >>
    BY BatchesAssumption
  <1>2. Len(batch) \in Nat /\ DOMAIN batch = 1 .. Len(batch)
    BY <1>1
  <1>3. Len(batch) # 0
    BY <1>1, EmptySeq
  <1>4. \A j \in DOMAIN batch : batch[j] \in [src : Paths, dst : Paths]
    BY <1>1, <1>2, ElementOfSeq
  <1>5. QED
    BY <1>2, <1>3, <1>4

LEMMA Limit ==
    /\ BatchLimit \in Nat \ {0}
    /\ \A batch \in Batches : Len(batch) <= BatchLimit
    /\ (CHOOSE p \in Paths : TRUE) \in Paths
  <1> DEFINE S == {Len(b) : b \in Batches}
  <1>1. PICK longest \in Batches : \A batch \in Batches : Len(batch) <= Len(longest)
    BY BatchesAssumption
  <1>2. S \subseteq Nat /\ S # {} /\ \A x \in S : x <= Len(longest) /\ x > 0
    BY <1>1, Batch
  <1>3. Max(S) \in S /\ \A x \in S : x <= Max(S)
    BY <1>1, <1>2, Batch, MaxOfBounded
  <1>4. longest[1].src \in Paths
    BY Batch
  <1>5. QED
    BY <1>2, <1>3, <1>4 DEF BatchLimit

LEMMA Budgets == MaxRequests \in Nat /\ MaxFaults \in Nat
  BY BatchesAssumption

LEMMA NewIds ==
    ASSUME requests \in 0 .. MaxRequests, requests < MaxRequests
    PROVE  /\ requests * BatchLimit \in Nat /\ (requests + 1) * BatchLimit \in Nat
           /\ (requests + 1) * BatchLimit = requests * BatchLimit + BatchLimit
           /\ \A j \in 1 .. BatchLimit :
                /\ requests * BatchLimit + j \in Ids
                /\ requests * BatchLimit + j <= (requests + 1) * BatchLimit
  <1>1. requests \in Nat /\ MaxRequests \in Nat /\ BatchLimit \in Nat
    BY Budgets, Limit
  <1>2. \A a, b \in Nat : a * b \in Nat /\ (a + 1) * b = a * b + b
    OBVIOUS
  <1>3. PICK d \in Nat : MaxRequests = requests + 1 + d
    <2>1. MaxRequests - requests - 1 \in Nat
      BY <1>1
    <2>2. QED
      BY <2>1, <1>1
  <1>4. \A a, b, e \in Nat : (a + 1 + e) * b = (a + 1) * b + e * b
    OBVIOUS
  <1>5. MaxRequests * BatchLimit = (requests + 1) * BatchLimit + d * BatchLimit
    BY <1>1, <1>3, <1>4
  <1>6. /\ requests * BatchLimit \in Nat /\ (requests + 1) * BatchLimit \in Nat
        /\ d * BatchLimit \in Nat
        /\ (requests + 1) * BatchLimit = requests * BatchLimit + BatchLimit
    BY <1>1, <1>2
  <1> DEFINE u == requests * BatchLimit
             v == (requests + 1) * BatchLimit
             x == d * BatchLimit
             y == MaxRequests * BatchLimit
  <1>7. u \in Nat /\ v = u + BatchLimit /\ y = v + x /\ x \in Nat
    BY <1>5, <1>6
  <1> HIDE DEF u, v, x, y
  <1>8. \A j \in 1 .. BatchLimit : u + j \in 1 .. y /\ u + j <= v
    BY <1>1, <1>7
  <1>9. QED
    BY <1>6, <1>8 DEF u, v, y, Ids

LEMMA IdsAreNatural == \A id \in Ids : id \in Nat
  <1>1. MaxRequests * BatchLimit \in Nat
    BY Budgets, Limit
  <1>2. QED
    BY <1>1 DEF Ids

LEMMA SlotKinds ==
    /\ \A p \in Paths : PathSlot(p) \in Slots /\ PathSlot(p) \in PathSlots
    /\ \A id \in Ids : CaptureSlot(id) \in Slots /\ CopySlot(id) \in Slots /\ TrashSlot(id) \in Slots
    /\ \A s \in PathSlots : s \in Slots /\ s[1] = "path" /\ s[2] \in Paths /\ s = PathSlot(s[2])
    /\ \A id : CaptureSlot(id)[1] = "capture" /\ CopySlot(id)[1] = "copy" /\ TrashSlot(id)[1] = "trash"
    /\ \A a, b : /\ CaptureSlot(a) = CaptureSlot(b) => a = b
                 /\ CopySlot(a) = CopySlot(b) => a = b
                 /\ TrashSlot(a) = TrashSlot(b) => a = b
  BY DEF Slots, PathSlots, PathSlot, CaptureSlot, CopySlot, TrashSlot
LEMMA SlotsApart ==
    ASSUME NEW a, NEW b
    PROVE  /\ CaptureSlot(a) # CopySlot(b) /\ CaptureSlot(a) # TrashSlot(b)
           /\ CopySlot(a) # TrashSlot(b)
           /\ {CaptureSlot(a), CopySlot(a), TrashSlot(a)} \cap PathSlots = {}
  BY SlotKinds, Zenon
LEMMA EverySlot ==
    ASSUME NEW s \in Slots
    PROVE  s \in PathSlots \/ \E id \in Ids : s \in {CaptureSlot(id), CopySlot(id), TrashSlot(id)}
  BY DEF Slots, PathSlots, PathSlot, CaptureSlot, CopySlot, TrashSlot

LEMMA NoSlot == <<"none", None>> \notin Slots
  BY DEF Slots, PathSlot

-----------------------------------------------------------------------------
\* Types

LEMMA Typed ==
    ASSUME TypeOK
    PROVE  /\ node \in Seq(Nodes) /\ Len(node) \in Nat /\ DOMAIN node = 1 .. Len(node)
           /\ \A m \in DOMAIN node : node[m] \in Nodes
           /\ fs \in [Slots -> 0 .. Len(node)]
           /\ \A s \in Slots : fs[s] # None => fs[s] \in DOMAIN node
           /\ journal \in Seq(Records) /\ Len(journal) \in Nat /\ DOMAIN journal = 1 .. Len(journal)
           /\ \A j \in DOMAIN journal : journal[j] \in Records
           /\ op \in Operations /\ op.t \in Handles /\ op.rows \in Seq(Rows)
           /\ Len(op.rows) \in Nat /\ DOMAIN op.rows = 1 .. Len(op.rows)
           /\ \A j \in DOMAIN op.rows : op.rows[j] \in Rows
  <1>1. node \in Seq(Nodes) /\ journal \in Seq(Records) /\ op \in Operations /\ op.rows \in Seq(Rows)
    BY DEF TypeOK, Operations
  <1>2. \A m \in DOMAIN node : node[m] \in Nodes
    BY <1>1, ElementOfSeq
  <1>3. \A j \in DOMAIN journal : journal[j] \in Records
    BY <1>1, ElementOfSeq
  <1>4. \A j \in DOMAIN op.rows : op.rows[j] \in Rows
    BY <1>1, ElementOfSeq
  <1>5. /\ Len(node) \in Nat /\ DOMAIN node = 1 .. Len(node)
        /\ Len(journal) \in Nat /\ DOMAIN journal = 1 .. Len(journal)
        /\ Len(op.rows) \in Nat /\ DOMAIN op.rows = 1 .. Len(op.rows)
    BY <1>1
  <1>6. \A s \in Slots : fs[s] # None => fs[s] \in DOMAIN node
    BY <1>5 DEF TypeOK, None
  <1>7. QED
    BY <1>1, <1>2, <1>3, <1>4, <1>5, <1>6 DEF TypeOK, Operations

LEMMA RowTyped ==
    ASSUME TypeOK, op.i \in DOMAIN op.rows
    PROVE  /\ row \in Rows /\ row.id \in Ids
           /\ {CaptureAt, CopyAt, TrashSlot(row.id), row.src, row.dst} \subseteq Slots
  <1>1. row \in Rows
    BY Typed DEF row
  <1>2. row.id \in Ids /\ row.src \in Slots /\ row.dst \in Slots
    BY <1>1 DEF Rows
  <1>3. QED
    BY <1>1, <1>2, SlotKinds DEF CaptureAt, CopyAt

LEMMA IdentityTyped ==
    ASSUME TypeOK
    PROVE  /\ NoIdentity \in Identities /\ NoIdentity.ino = None
           /\ \A m \in DOMAIN node : /\ Identity(m) \in Identities /\ Identity(m).ino = m
                                     /\ Identity(m).data = node[m].data
                                     /\ Identity(m).ctime = node[m].ctime
           /\ \A s \in Slots : IdentityAt(s) \in Identities /\ IdentityAt(s).ino = fs[s]
           /\ \A m \in DOMAIN node : Moved(m) \in Identities /\ Moved(m).ino = m
                                     /\ Moved(m).data = node[m].data
                                     /\ Moved(m).ctime = node[m].ctime + 1
  <1>1. NoIdentity \in Identities /\ NoIdentity.ino = None
    BY DEF NoIdentity, Identities, None
  <1>2. ASSUME NEW m \in DOMAIN node
        PROVE  /\ Identity(m) \in Identities /\ Identity(m).ino = m
               /\ Identity(m).data = node[m].data /\ Identity(m).ctime = node[m].ctime
               /\ Moved(m) \in Identities /\ Moved(m).ino = m
               /\ Moved(m).data = node[m].data /\ Moved(m).ctime = node[m].ctime + 1
    <2>1. m \in Nat /\ node[m].data \in Nat /\ node[m].ctime \in Nat
      BY Typed DEF Nodes
    <2>2. QED
      BY <2>1 DEF Identity, Identities, Moved
  <1>3. ASSUME NEW s \in Slots PROVE IdentityAt(s) \in Identities /\ IdentityAt(s).ino = fs[s]
    BY <1>1, <1>2, Typed DEF IdentityAt
  <1>4. QED
    BY <1>1, <1>2, <1>3

LEMMA Defaults == NoHandle \in Handles /\ NoKeeper \in Keepers /\ Idle \in Operations
  <1>1. NoIdentity \in Identities /\ << >> \in Seq(Rows)
    BY DEF NoIdentity, Identities, None
  <1>2. NoHandle \in Handles /\ NoKeeper \in Keepers
    BY <1>1 DEF NoHandle, Handles, NoKeeper, Keepers, None
  <1>3. QED
    BY <1>1, <1>2 DEF Idle, Operations, Places, Started, Working, Actions, None

LEMMA RecordTyped ==
    ASSUME NEW kind \in RowKinds \cup {"identity_change", "undo", "undo_intent"}, NEW id \in Nat
    PROVE  /\ Record(kind, id) \in Records
           /\ Record(kind, id).kind = kind /\ Record(kind, id).id = id
           /\ Record(kind, id).src \in PathSlots /\ Record(kind, id).dst \in PathSlots
  <1>1. NoIdentity \in Identities
    BY DEF NoIdentity, Identities, None
  <1>2. \A p \in Paths : PathSlot(p) \in Slots /\ PathSlot(p) \in PathSlots
    BY SlotKinds
  <1>3. PathSlot(CHOOSE p \in Paths : TRUE) \in Slots /\ PathSlot(CHOOSE p \in Paths : TRUE) \in PathSlots
    BY <1>2, Limit
  <1>4. QED
    BY <1>1, <1>3 DEF Record, Records, Actions

-----------------------------------------------------------------------------
\* Chains of identities

\* The journal as a parameter, so that two journals can be compared.
FollowingIn(js, x) ==
  LET later == {i \in DOMAIN js : js[i].kind = "identity_change" /\ js[i].before = x}
  IN  IF later = {} THEN x ELSE js[Max(later)].after
CurrentIn(js, x) ==
  LET chase[n \in 0 .. Len(js)] == IF n = 0 THEN x ELSE FollowingIn(js, chase[n - 1])
  IN  chase[Len(js)]

\* f is the chain of m links from x.
Chases(f, js, x, m) == f = [n \in 0 .. m |-> IF n = 0 THEN x ELSE FollowingIn(js, f[n - 1])]

LEMMA InJournal ==
    /\ \A x : Following(x) = FollowingIn(journal, x) /\ Current(x) = CurrentIn(journal, x)
    /\ \A x : Following(x)' = FollowingIn(journal', x) /\ Current(x)' = CurrentIn(journal', x)
  BY DEF Following, FollowingIn, Current, CurrentIn

LEMMA ChainExists ==
    ASSUME NEW js, NEW identity, NEW m \in Nat
    PROVE  \E f : Chases(f, js, identity, m)
  <1> DEFINE Chains(k) == \E f : f = [n \in 0 .. k |-> IF n = 0 THEN identity ELSE FollowingIn(js, f[n - 1])]
             T == {k \in Nat : ~Chains(k)}
  <1>1. SUFFICES T = {}
    BY DEF Chases
  <1>2. SUFFICES ASSUME T # {} PROVE FALSE
    OBVIOUS
  <1>3. PICK k \in T : \A j \in T : k <= j
    BY <1>2, LeastNatural
  <1>4. CASE k = 0
    <2> DEFINE f == [n \in 0 .. 0 |-> identity]
    <2>1. f = [n \in 0 .. 0 |-> IF n = 0 THEN identity ELSE FollowingIn(js, f[n - 1])]
      OBVIOUS
    <2>2. QED
      BY <1>3, <1>4, <2>1
  <1>5. CASE k # 0
    <2>1. k \in Nat /\ k - 1 \in Nat /\ k - 1 \notin T
      <3>1. k \in Nat
        BY <1>3, Zenon
      <3>2. QED
        <4> HIDE DEF T
        <4>1. QED
          BY <1>3, <1>5, <3>1
    <2>2. PICK g : g = [n \in 0 .. k - 1 |-> IF n = 0 THEN identity ELSE FollowingIn(js, g[n - 1])]
      BY <2>1
    <2> DEFINE f == [n \in 0 .. k |-> IF n = k THEN FollowingIn(js, g[k - 1]) ELSE g[n]]
               h == [n \in 0 .. k |-> IF n = 0 THEN identity ELSE FollowingIn(js, f[n - 1])]
    <2>3. ASSUME NEW n \in 0 .. k PROVE f[n] = h[n]
      <3>1. CASE n = k
        BY <2>1, <3>1, <1>5
      <3>2. CASE n # k
        <4>1. n \in 0 .. k - 1 /\ f[n] = g[n]
          BY <2>1, <3>2
        <4>2. n # 0 => n - 1 \in 0 .. k /\ f[n - 1] = g[n - 1]
          BY <2>1, <3>2
        <4>3. g[n] = IF n = 0 THEN identity ELSE FollowingIn(js, g[n - 1])
          BY <2>2, <4>1
        <4>4. QED
          BY <4>1, <4>2, <4>3
      <3>3. QED
        BY <3>1, <3>2
    <2>4. f = h
      BY <2>3
    <2>5. QED
      BY <1>3, <2>4
  <1>6. QED
    BY <1>4, <1>5

LEMMA Chain ==
    ASSUME NEW js, Len(js) \in Nat, NEW identity
    PROVE  \E f : /\ f = [n \in 0 .. Len(js) |-> IF n = 0 THEN identity ELSE FollowingIn(js, f[n - 1])]
                  /\ CurrentIn(js, identity) = f[Len(js)]
  <1>1. \E f : Chases(f, js, identity, Len(js))
    BY ChainExists
  <1>2. QED
    BY <1>1, Zenon DEF CurrentIn, Chases

LEMMA FollowingFits ==
    ASSUME TypeOK, RecordsFit, NEW x \in Identities
    PROVE  /\ Following(x) \in Identities /\ Following(x).ino = x.ino
           /\ (\A j \in Changes : journal[j].before # x) => Following(x) = x
           /\ Following(x) = x \/ \E j \in Changes : journal[j].before = x /\ Following(x) = journal[j].after
  <1> DEFINE L == {i \in DOMAIN journal : journal[i].kind = "identity_change" /\ journal[i].before = x}
  <1>1. CASE L = {}
    BY <1>1 DEF Following, Changes
  <1>2. CASE L # {}
    <2>1. L \subseteq Nat /\ \A i \in L : i <= Len(journal)
      BY Typed
    <2>2. Max(L) \in L
      BY <1>2, <2>1, Typed, MaxOfBounded
    <2>3. Following(x) = journal[Max(L)].after
      BY <1>2 DEF Following
    <2>4. Max(L) \in Changes /\ journal[Max(L)].before = x
      BY <2>2 DEF Changes
    <2>5. journal[Max(L)] \in Records /\ journal[Max(L)].before.ino = journal[Max(L)].after.ino
      BY <2>4, Typed DEF RecordsFit, Changes
    <2>6. QED
      BY <2>3, <2>4, <2>5 DEF Records
  <1>3. QED
    BY <1>1, <1>2

LEMMA CurrentFits ==
    ASSUME TypeOK, RecordsFit, NEW x \in Identities
    PROVE  Current(x) \in Identities /\ Current(x).ino = x.ino
  <1>1. Len(journal) \in Nat
    BY Typed
  <1>2. PICK f : /\ f = [n \in 0 .. Len(journal) |-> IF n = 0 THEN x ELSE FollowingIn(journal, f[n - 1])]
                 /\ CurrentIn(journal, x) = f[Len(journal)]
    BY <1>1, Chain
  <1> DEFINE T == {n \in 0 .. Len(journal) : ~(f[n] \in Identities /\ f[n].ino = x.ino)}
  <1>3. ASSUME T # {} PROVE FALSE
    <2>0. T \subseteq Nat
      BY <1>1
    <2>1. PICK n \in T : \A m \in T : n <= m
      BY <1>3, <2>0, LeastNatural, Zenon
    <2>2. n \in 0 .. Len(journal) /\ n # 0
      BY <1>1, <1>2, <2>1
    <2>3. n - 1 \in 0 .. Len(journal) /\ n - 1 \notin T
      BY <1>1, <2>1, <2>2
    <2>4. f[n] = Following(f[n - 1])
      BY <1>2, <2>2, InJournal
    <2>5. QED
      BY <2>1, <2>3, <2>4, FollowingFits
  <1>4. Len(journal) \in 0 .. Len(journal) /\ Len(journal) \notin T
    BY <1>1, <1>3
  <1>5. QED
    BY <1>2, <1>4, InJournal, Zenon

-----------------------------------------------------------------------------
\* Steps of a row

LEMMA Advance ==
    ASSUME TypeOK, Control, op.pc \in Pinning,
           NEW q \in Working \cup {"record"}, NEW h \in Handles,
           op' = [op EXCEPT !.pc = q, !.t = h], UNCHANGED requests
    PROVE  /\ op' \in Operations /\ Control'
           /\ op'.pc = q /\ op'.t = h /\ op'.rows = op.rows /\ op'.i = op.i
           /\ op'.action = op.action /\ op'.undo = op.undo
           /\ row' = row /\ t' = h /\ CaptureAt' = CaptureAt /\ CopyAt' = CopyAt /\ Used' = Used
  <1>1. op \in Operations
    BY DEF TypeOK
  <1>2. q \in Places /\ q \notin {"idle", "preview", "intents", "row"} /\ op.pc # "idle"
        /\ op.pc # "preview" /\ q # "preview" /\ q # "undo_intent"
    BY DEF Places, Started, Working, Pinning
  <1>3. /\ op' \in Operations /\ op'.pc = q /\ op'.t = h /\ op'.rows = op.rows /\ op'.i = op.i
        /\ op'.action = op.action /\ op'.undo = op.undo
    BY <1>1, <1>2 DEF Operations
  <1>4. row' = row /\ t' = h /\ CaptureAt' = CaptureAt /\ CopyAt' = CopyAt /\ Used' = Used
    BY <1>3 DEF row, t, CaptureAt, CopyAt, Used
  <1>5. Control'
    BY <1>2, <1>3, <1>4 DEF Control, Pinning
  <1>6. QED
    BY <1>3, <1>4, <1>5

\* The slots a row works with.
LEMMA OwnSlots ==
    ASSUME TypeOK, Control, op.i \in DOMAIN op.rows
    PROVE  /\ row.id \in Ids /\ {CaptureAt, CopyAt, TrashSlot(row.id), row.src, row.dst} \subseteq Slots
           /\ CaptureAt # CopyAt /\ CaptureAt # TrashSlot(row.id) /\ CopyAt # TrashSlot(row.id)
           /\ row.src \notin {CaptureAt, CopyAt, TrashSlot(row.id)}
           /\ row.dst \notin {CaptureAt, CopyAt}
           /\ row.dst \in PathSlots \cup {TrashSlot(row.id)}
           /\ CaptureAt[1] = "capture" /\ CopyAt[1] = "copy"
           /\ \A s \in Slots : s[1] = "capture" \/ s[1] = "copy" => s \notin {row.src, row.dst}
  <1>1. row.id \in Ids /\ {CaptureAt, CopyAt, TrashSlot(row.id), row.src, row.dst} \subseteq Slots
    BY RowTyped
  <1>2. /\ row.dst \in PathSlots \cup {TrashSlot(row.id)}
        /\ row.src \in PathSlots \/ \E k \in Ids : row.src = TrashSlot(k) /\ row.id # k
    BY DEF Control, row
  <1>3. /\ CaptureAt # CopyAt /\ CaptureAt # TrashSlot(row.id) /\ CopyAt # TrashSlot(row.id)
        /\ CaptureAt[1] = "capture" /\ CopyAt[1] = "copy"
    BY SlotsApart, SlotKinds DEF CaptureAt, CopyAt
  <1>4. row.src[1] \in {"path", "trash"} /\ row.dst[1] \in {"path", "trash"} /\ row.src # TrashSlot(row.id)
    BY <1>2, SlotKinds
  <1>5. QED
    BY <1>1, <1>2, <1>3, <1>4

LEMMA Renaming ==
    ASSUME TypeOK, NEW from \in Slots, NEW to \in Slots, from # to, fs[from] # None, Rename(from, to)
    PROVE  /\ fs' \in [Slots -> 0 .. Len(node)] /\ node' \in Seq(Nodes) /\ Len(node') = Len(node)
           /\ DOMAIN node' = DOMAIN node
           /\ fs'[to] = fs[from] /\ fs'[from] = None
           /\ \A s \in Slots : s \notin {from, to} => fs'[s] = fs[s]
           /\ \A m \in DOMAIN node :
                /\ node'[m].data = node[m].data
                /\ node'[m].ctime = IF m = fs[from] THEN node[m].ctime + 1 ELSE node[m].ctime
  <1>1. fs[from] \in DOMAIN node /\ node[fs[from]] \in Nodes
    BY Typed
  <1> DEFINE n == [node[fs[from]] EXCEPT !.ctime = @ + 1]
  <1>2. n \in Nodes /\ n.data = node[fs[from]].data /\ n.ctime = node[fs[from]].ctime + 1
    BY <1>1 DEF Nodes
  <1>3. node' = [node EXCEPT ![fs[from]] = n]
    BY DEF Rename, Touched
  <1> HIDE DEF n
  <1>4. node' \in Seq(Nodes) /\ Len(node') = Len(node) /\ DOMAIN node' = DOMAIN node
    BY <1>1, <1>2, <1>3, Typed, ExceptSeq
  <1>5. \A m \in DOMAIN node : node'[m] = IF m = fs[from] THEN n ELSE node[m]
    BY <1>3
  <1>6. /\ fs' \in [Slots -> 0 .. Len(node)] /\ fs'[to] = fs[from] /\ fs'[from] = None
        /\ \A s \in Slots : s \notin {from, to} => fs'[s] = fs[s]
    BY Typed, SMTT(40) DEF Rename, None
  <1>7. QED
    BY <1>2, <1>4, <1>5, <1>6

\* Only the working row fills names of its own, and the source it puts back.
LEMMA NamesGoOn ==
    ASSUME TypeOK, Control, NamesAreFree, op.pc \in Pinning,
           NEW q \in Working \cup {"record"}, q # "capture", op'.pc = q,
           op'.rows = op.rows, op'.i = op.i, UNCHANGED requests,
           \A s \in Slots : fs[s] = None /\ fs'[s] # None =>
             s \in PathSlots \cup {CaptureAt, CopyAt, TrashSlot(row.id), row.src},
           q \in {"authorize", "trash", "publish", "copy"} =>
             fs'[CopyAt] = None /\ fs'[TrashSlot(row.id)] = None
    PROVE  NamesAreFree'
  <1>1. op.i \in DOMAIN op.rows
    BY DEF Control
  <1>2. Used' = Used /\ row' = row /\ CopyAt' = CopyAt /\ \A j : Untouched(j)' <=> j > op.i
    BY DEF Used, row, CopyAt, Untouched, Working
  <1>3. row.id \in Ids /\ row.id <= Used
    BY <1>1, RowTyped DEF Control, row
  <1>4. ASSUME NEW id \in Ids, id # row.id, \A k \in Ids : row.src = TrashSlot(k) => k # id, Vacant(id)
        PROVE  Vacant(id)'
    <2>1. {CaptureSlot(id), CopySlot(id), TrashSlot(id)} \subseteq Slots
      BY SlotKinds
    <2>2. row.src \in PathSlots \/ \E k \in Ids : row.src = TrashSlot(k)
      BY <1>1 DEF Control, row
    <2> DEFINE own == PathSlots \cup {CaptureAt, CopyAt, TrashSlot(row.id), row.src}
    <2>3. CaptureSlot(id) \notin own /\ CopySlot(id) \notin own
      <3>1. row.src \in PathSlots \cup {TrashSlot(k) : k \in Ids}
        BY <2>2
      <3>2. QED
        BY <1>4, <3>1, SlotKinds, SlotsApart DEF CaptureAt, CopyAt
    <2>5. TrashSlot(id) \notin own
      BY <1>4, <2>2, SlotKinds, SlotsApart DEF CaptureAt, CopyAt
    <2>4. QED
      BY <1>4, <2>1, <2>3, <2>5 DEF Vacant
  <1>5. ASSUME NEW id \in Ids, id > Used PROVE Vacant(id)'
    <2>1. \A k \in Ids : row.src = TrashSlot(k) => k <= Used
      <3>1. row.src \in PathSlots \/ \E k \in Ids : row.src = TrashSlot(k) /\ k <= Used
        BY <1>1 DEF Control, row
      <3>2. QED
        BY <3>1, SlotKinds, SlotsApart
    <2>2. Used \in Nat /\ id \in Nat /\ row.id \in Nat
      BY <1>3, IdsAreNatural, Limit DEF TypeOK, Used
    <2>3. id # row.id /\ \A k \in Ids : row.src = TrashSlot(k) => k # id
      BY <1>3, <1>5, <2>1, <2>2
    <2>4. QED
      BY <1>4, <1>5, <2>3 DEF NamesAreFree
  <1>6. ASSUME NEW j \in DOMAIN op.rows, j > op.i PROVE Vacant(op.rows[j].id)'
    <2>0. op.i \in Nat /\ j \in Nat
      BY Typed, <1>1
    <2>1. op.rows[j].id \in Ids /\ op.rows[j].id # row.id
      <3>1. op.rows[j] \in Rows /\ j # op.i
        BY <1>6, <2>0, Typed
      <3>2. QED
        BY <1>1, <3>1 DEF Control, row, Rows
    <2>2. row.src \in PathSlots \/ \E k \in Ids : row.src = TrashSlot(k) /\ op.rows[j].id # k
      BY <1>1 DEF Control, row
    <2>3. \A k \in Ids : row.src = TrashSlot(k) => k # op.rows[j].id
      BY <2>2, SlotKinds, SlotsApart
    <2>4. Vacant(op.rows[j].id)
      BY <1>6 DEF NamesAreFree, Untouched
    <2>5. QED
      BY <1>4, <2>1, <2>3, <2>4
  <1>7. QED
    BY <1>2, <1>5, <1>6 DEF NamesAreFree, Vacant


\* A step of a transfer leaves the journal, the request's rows and what others did.
Quiet == UNCHANGED <<journal, synced, cancelled, gone, foreign, requests>> /\ budget' \in Nat

LEMMA Spending ==
    ASSUME budget \in Nat
    PROVE  (NoFault => budget' \in Nat) /\ \A kind : Fault(kind) => budget' \in Nat
  BY DEF Fault, NoFault

LEMMA WorkStep ==
    ASSUME MoveInv, op.pc \in Pinning, NEW q \in Working \cup {"record"}, q # "capture",
           NEW h \in Handles, op' = [op EXCEPT !.pc = q, !.t = h], Quiet,
           node' \in Seq(Nodes), fs' \in [Slots -> 0 .. Len(node')],
           \A s \in Slots : fs[s] = None /\ fs'[s] # None =>
             s \in PathSlots \cup {CaptureAt, CopyAt, TrashSlot(row.id), row.src},
           q \in {"authorize", "trash", "publish", "copy"} =>
             fs'[CopyAt] = None /\ fs'[TrashSlot(row.id)] = None
    PROVE  TypeOK' /\ Control' /\ RecordsFit' /\ NamesAreFree'
  <1>1. TypeOK /\ Control /\ RecordsFit /\ NamesAreFree /\ UNCHANGED requests
    BY DEF MoveInv, Quiet
  <1>2. /\ op' \in Operations /\ Control' /\ op'.pc = q /\ op'.rows = op.rows /\ op'.i = op.i
        /\ Used' = Used
    BY <1>1, Advance
  <1>3. NamesAreFree'
    BY <1>1, <1>2, NamesGoOn
  <1>4. TypeOK'
    BY <1>1, <1>2 DEF TypeOK, Quiet
  <1>5. RecordsFit'
    BY <1>1, <1>2 DEF RecordsFit, Changes, Completed, Quiet
  <1>6. QED
    BY <1>2, <1>3, <1>4, <1>5

LEMMA PinnedFacts ==
    ASSUME MoveInv, op.pc \in Pinning
    PROVE  /\ TypeOK /\ Control /\ op.i \in DOMAIN op.rows /\ op \in Operations /\ t \in Handles
           /\ t = op.t /\ budget \in Nat /\ foreign \subseteq Nat
           /\ t.ino \in DOMAIN node /\ t.expected.ino = t.ino /\ t.dst = row.dst
           /\ CaptureAt \in Slots /\ CopyAt \in Slots /\ row.src \in Slots /\ row.dst \in Slots
           /\ t.ino # None
  <1>1. TypeOK /\ Control /\ op.i \in DOMAIN op.rows
    BY DEF MoveInv, Control
  <1>2. op \in Operations /\ t \in Handles /\ t = op.t /\ budget \in Nat /\ foreign \subseteq Nat
    BY <1>1, Typed DEF t, TypeOK
  <1>3. t.ino \in DOMAIN node /\ t.expected.ino = t.ino /\ t.dst = row.dst
    BY DEF MoveInv, Captured
  <1>4. CaptureAt \in Slots /\ CopyAt \in Slots /\ row.src \in Slots /\ row.dst \in Slots
    BY <1>1, RowTyped
  <1>5. t.ino # None
    BY <1>1, <1>3, Typed DEF None
  <1>6. QED
    BY <1>1, <1>2, <1>3, <1>4, <1>5

LEMMA FailFits ==
    ASSUME MoveInv, op.pc \in Working, op.pc # "change", Fail, Quiet,
           node' \in Seq(Nodes), Len(node') >= Len(node), fs' \in [Slots -> 0 .. Len(node')],
           \A s \in Slots : s # CopyAt => fs'[s] = fs[s]
    PROVE  MoveInv'
  <1>1. op.pc \in Pinning
    BY DEF Pinning
  <1>2. t \in Handles /\ t = op.t /\ op \in Operations /\ op.i \in DOMAIN op.rows
    BY <1>1, PinnedFacts
  <1> DEFINE h == [t EXCEPT !.error = TRUE]
  <1>3. /\ h \in Handles /\ h.ino = t.ino /\ h.expected = t.expected /\ h.dst = t.dst
        /\ h.captured = t.captured
    BY <1>2 DEF Handles
  <1>4. op' = [op EXCEPT !.pc = "restore", !.t = h]
    BY <1>2 DEF Fail, Operations
  <1> HIDE DEF h
  <1>5. TypeOK' /\ Control' /\ RecordsFit' /\ NamesAreFree'
    <2>1. "restore" \in Working \cup {"record"}
      BY DEF Working
    <2>2. QED
      BY <1>1, <1>2, <1>3, <1>4, <2>1, WorkStep
  <1>6. /\ op'.pc = "restore" /\ t' = h /\ row' = row /\ CaptureAt' = CaptureAt
        /\ op'.action = op.action /\ foreign' = foreign
    BY <1>1, <1>3, <1>4, Advance DEF MoveInv, Working, Quiet
  <1>7. Captured'
    <2>1. CaptureAt \in Slots /\ CaptureAt # CopyAt
      BY <1>1, PinnedFacts, OwnSlots
    <2>2. fs'[CaptureAt] = fs[CaptureAt]
      BY <2>1
    <2>3. t.ino \in DOMAIN node /\ t.ino \in DOMAIN node' /\ t.expected.ino = t.ino /\ t.dst = row.dst
      BY <1>1, PinnedFacts, Typed
    <2>4. /\ t.captured => fs[CaptureAt] # None /\ fs[CaptureAt] \in {t.ino} \cup foreign
          /\ op.action = "copy" => ~t.captured
      <3>1. Captured /\ t.ino # None
        BY <1>1, PinnedFacts DEF MoveInv
      <3>2. QED
        BY <1>1, <3>1 DEF Captured, Working
    <2>5. QED
      BY <1>3, <1>6, <2>2, <2>3, <2>4 DEF Captured
  <1>8. CopyIsOwn'
    BY <1>6 DEF CopyIsOwn
  <1>9. QED
    BY <1>5, <1>7, <1>8 DEF MoveInv

LEMMA SameNodes ==
    ASSUME TypeOK, UNCHANGED disk
    PROVE  /\ node' \in Seq(Nodes) /\ Len(node') >= Len(node) /\ fs' \in [Slots -> 0 .. Len(node')]
           /\ \A s \in Slots : fs'[s] = fs[s]
  BY Typed DEF disk

LEMMA Quietly ==
    ASSUME budget \in Nat, UNCHANGED <<log, cancelled, seen, requests>>,
           NoFault \/ \E kind : Fault(kind)
    PROVE  Quiet
  BY Spending DEF Quiet, log, seen

LEMMA CaptureFits ==
    ASSUME MoveInv, Capture
    PROVE  MoveInv'
  <1>1. op.pc = "capture" /\ op.pc \in Working /\ op.pc \in Pinning
    BY DEF Capture, Working, Pinning
  <1>2. TypeOK /\ Control /\ t \in Handles /\ t = op.t /\ op \in Operations /\ op.i \in DOMAIN op.rows
        /\ budget \in Nat
    BY <1>1, PinnedFacts
  <1>3. Quiet
    BY <1>2, Quietly DEF Capture
  <1>4. CASE CanRename(row.src, CaptureAt) /\ Rename(row.src, CaptureAt)
             /\ op' = [op EXCEPT !.pc = "authorize", !.t.captured = TRUE]
    <2> DEFINE h == [t EXCEPT !.captured = TRUE]
    <2>1. /\ h \in Handles /\ h.ino = t.ino /\ h.expected = t.expected /\ h.dst = t.dst /\ h.captured
      BY <1>2 DEF Handles
    <2>2. op' = [op EXCEPT !.pc = "authorize", !.t = h]
      BY <1>2, <1>4 DEF Operations
    <2> HIDE DEF h
    <2>3. /\ row.src \in Slots /\ CaptureAt \in Slots /\ CopyAt \in Slots /\ TrashSlot(row.id) \in Slots
          /\ row.src \notin {CaptureAt, CopyAt, TrashSlot(row.id)} /\ fs[row.src] # None
          /\ CaptureAt \notin {CopyAt, TrashSlot(row.id)}
      BY <1>2, <1>4, OwnSlots DEF CanRename
    <2>4. /\ fs' \in [Slots -> 0 .. Len(node)] /\ node' \in Seq(Nodes) /\ Len(node') = Len(node)
          /\ DOMAIN node' = DOMAIN node
          /\ fs'[CaptureAt] = fs[row.src] /\ fs'[row.src] = None
          /\ \A s \in Slots : s \notin {row.src, CaptureAt} => fs'[s] = fs[s]
      BY <1>2, <1>4, <2>3, Renaming
    <2>5. Vacant(row.id)
      <3>1. Untouched(op.i)
        BY <1>1 DEF Untouched
      <3>2. QED
        BY <1>2, <3>1 DEF MoveInv, NamesAreFree, row
    <2>6. fs'[CopyAt] = None /\ fs'[TrashSlot(row.id)] = None
      BY <2>3, <2>4, <2>5 DEF Vacant, CopyAt
    <2>7. "authorize" \in Working \cup {"record"} /\ "authorize" # "capture"
      BY DEF Working
    <2>8. TypeOK' /\ Control' /\ RecordsFit' /\ NamesAreFree'
      BY <1>1, <1>3, <2>1, <2>2, <2>3, <2>4, <2>6, <2>7, WorkStep
    <2>9. /\ op'.pc = "authorize" /\ t' = h /\ row' = row /\ CaptureAt' = CaptureAt
          /\ op'.action = op.action /\ foreign' = foreign
      BY <1>1, <1>2, <1>3, <2>1, <2>2, <2>7, Advance DEF Quiet
    <2>10. Captured'
      <3>1. op.action # "copy" /\ fs[row.src] \in {None, t.ino} \cup foreign
        BY <1>1 DEF MoveInv, Captured
      <3>2. t.ino \in DOMAIN node' /\ t.expected.ino = t.ino /\ t.dst = row.dst
        BY <1>1, <2>4, PinnedFacts
      <3>3. QED
        BY <2>1, <2>3, <2>4, <2>9, <3>1, <3>2 DEF Captured
    <2>11. CopyIsOwn'
      BY <2>9 DEF CopyIsOwn
    <2>12. QED
      BY <2>8, <2>10, <2>11 DEF MoveInv
  <1>5. CASE Fail /\ UNCHANGED disk
    BY <1>1, <1>2, <1>3, <1>5, SameNodes, FailFits
  <1>6. QED
    BY <1>4, <1>5 DEF Capture

LEMMA AuthorizeFits ==
    ASSUME MoveInv, Authorize
    PROVE  MoveInv'
  <1>1. op.pc = "authorize" /\ op.pc \in Working /\ op.pc \in Pinning
    BY DEF Authorize, Working, Pinning
  <1>2. TypeOK /\ Control /\ t \in Handles /\ t = op.t /\ op \in Operations /\ op.i \in DOMAIN op.rows
        /\ budget \in Nat /\ CaptureAt \in Slots
    BY <1>1, PinnedFacts
  <1>3. Quiet
    BY <1>2, Quietly DEF Authorize, counters, NoFault
  <1>4. UNCHANGED disk
    BY DEF Authorize
  <1>5. CASE hasSamePayload(IdentityAt(CaptureAt), t.expected) /\ ~Stopping
    <2> DEFINE q == IF op.action = "trash" THEN "trash" ELSE IF row.device = row.to THEN "publish" ELSE "copy"
    <2>1. op' = [op EXCEPT !.pc = q]
      BY <1>5, Zenon DEF Authorize, Goto
    <2>2. op' = [op EXCEPT !.pc = q, !.t = t]
      BY <1>2, <2>1 DEF Operations
    <2>3. /\ q \in Working \cup {"record"} /\ q # "capture" /\ q \in {"trash", "publish", "copy"}
          /\ q = "trash" <=> op.action = "trash"
          /\ q = "copy" => row.device # row.to
      BY DEF Working
    <2> HIDE DEF q
    <2>4. fs'[CopyAt] = None /\ fs'[TrashSlot(row.id)] = None
      BY <1>1, <1>4, Zenon DEF MoveInv, NamesAreFree, disk
    <2>5. TypeOK' /\ Control' /\ RecordsFit' /\ NamesAreFree'
      BY <1>1, <1>2, <1>3, <1>4, <2>2, <2>3, <2>4, SameNodes, WorkStep
    <2>6. /\ op'.pc = q /\ t' = t /\ row' = row /\ CaptureAt' = CaptureAt
          /\ op'.action = op.action /\ foreign' = foreign
      BY <1>1, <1>2, <1>3, <2>2, <2>3, Advance DEF Quiet
    <2>7. op.action \in {"move", "trash"} /\ t.captured
      <3>1. op.action \in Actions /\ op.action # "none"
        BY <1>1, <1>2 DEF Control, Operations
      <3>2. QED
        BY <1>1, <3>1 DEF MoveInv, Captured, Actions
    <2>8. Captured'
      <3>1. t.ino \in DOMAIN node' /\ t.expected.ino = t.ino /\ t.dst = row.dst
        BY <1>1, <1>4, PinnedFacts DEF disk
      <3>2. fs'[CaptureAt] = t.ino
        BY <1>1, <1>2, <1>4, <1>5, <3>1, IdentityTyped DEF hasSamePayload, disk
      <3>3. node'[t.ino].data = t.expected.data
        <4>1. fs[CaptureAt] # None /\ fs[CaptureAt] = t.ino /\ t.ino \in DOMAIN node
          BY <1>1, <1>4, <3>2, PinnedFacts DEF disk
        <4>2. IdentityAt(CaptureAt).data = node[t.ino].data
          BY <1>2, <4>1, IdentityTyped DEF IdentityAt
        <4>3. QED
          BY <1>4, <1>5, <4>2 DEF hasSamePayload, disk
      <3>4. QED
        BY <2>3, <2>6, <2>7, <3>1, <3>2, <3>3 DEF Captured
    <2>9. CopyIsOwn'
      BY <2>3, <2>6 DEF CopyIsOwn
    <2>10. QED
      BY <2>5, <2>8, <2>9 DEF MoveInv
  <1>6. CASE Fail
    BY <1>1, <1>2, <1>3, <1>4, <1>6, SameNodes, FailFits
  <1>7. QED
    BY <1>5, <1>6 DEF Authorize

\* The captured object leaves private storage for the row's destination.
LEMMA PutAway ==
    ASSUME MoveInv, op.pc \in {"trash", "publish"}, Quiet, Rename(CaptureAt, t.dst),
           NEW q \in {"change", "restore"}, NEW h \in Handles,
           h.ino = t.ino, h.expected = t.expected, h.dst = t.dst, ~h.captured,
           op' = [op EXCEPT !.pc = q, !.t = h]
    PROVE  MoveInv'
  <1>1. op.pc \in Pinning /\ q \in Working \cup {"record"} /\ q # "capture"
    BY DEF Working, Pinning
  <1>2. /\ TypeOK /\ Control /\ op.i \in DOMAIN op.rows /\ t.dst = row.dst /\ t.ino # None
        /\ t.ino \in DOMAIN node /\ t.expected.ino = t.ino
    BY <1>1, PinnedFacts
  <1>3. /\ CaptureAt \in Slots /\ row.dst \in Slots /\ CaptureAt # row.dst
        /\ row.dst \in PathSlots \cup {TrashSlot(row.id)}
    BY <1>2, OwnSlots
  <1>4. fs[CaptureAt] # None
    BY <1>2 DEF MoveInv, Captured, Pinning, Working
  <1>5. /\ fs' \in [Slots -> 0 .. Len(node)] /\ node' \in Seq(Nodes) /\ Len(node') = Len(node)
        /\ DOMAIN node' = DOMAIN node /\ fs'[CaptureAt] = None
        /\ \A s \in Slots : s \notin {CaptureAt, row.dst} => fs'[s] = fs[s]
    BY <1>2, <1>3, <1>4, Renaming
  <1>6. TypeOK' /\ Control' /\ RecordsFit' /\ NamesAreFree'
    BY <1>1, <1>3, <1>5, WorkStep
  <1>7. op'.pc = q /\ t' = h /\ row' = row
    BY <1>1, <1>2, Advance DEF Quiet
  <1>8. Captured' /\ CopyIsOwn'
    BY <1>2, <1>5, <1>7 DEF Captured, CopyIsOwn
  <1>9. QED
    BY <1>6, <1>8 DEF MoveInv

LEMMA TrashFits ==
    ASSUME MoveInv, Trash
    PROVE  MoveInv'
  <1>1. op.pc = "trash" /\ op.pc \in Working /\ op.pc \in Pinning
    BY DEF Trash, Working, Pinning
  <1>2. TypeOK /\ t \in Handles /\ t = op.t /\ op \in Operations /\ budget \in Nat /\ t.ino \in DOMAIN node
    BY <1>1, PinnedFacts
  <1>3. Quiet
    BY <1>2, Quietly DEF Trash
  <1>4. Moved(fs[CaptureAt]) \in Identities
    <2>1. fs[CaptureAt] = t.ino
      BY <1>1 DEF MoveInv, Captured
    <2>2. QED
      BY <1>2, <2>1, IdentityTyped
  <1>5. CASE /\ Rename(CaptureAt, t.dst)
             /\ op' = [op EXCEPT !.pc = "change", !.t.captured = FALSE, !.t.done = Moved(fs[CaptureAt])]
    <2> DEFINE h == [t EXCEPT !.captured = FALSE, !.done = Moved(fs[CaptureAt])]
    <2>1. h \in Handles /\ h.ino = t.ino /\ h.expected = t.expected /\ h.dst = t.dst /\ ~h.captured
      BY <1>2, <1>4 DEF Handles
    <2>2. op' = [op EXCEPT !.pc = "change", !.t = h]
      BY <1>2, <1>5 DEF Operations
    <2> HIDE DEF h
    <2>3. QED
      BY <1>1, <1>3, <1>5, <2>1, <2>2, PutAway
  <1>6. CASE /\ Rename(CaptureAt, t.dst)
             /\ op' = [op EXCEPT !.pc = "restore", !.t.captured = FALSE, !.t.error = TRUE]
    <2> DEFINE h == [t EXCEPT !.captured = FALSE, !.error = TRUE]
    <2>1. h \in Handles /\ h.ino = t.ino /\ h.expected = t.expected /\ h.dst = t.dst /\ ~h.captured
      BY <1>2 DEF Handles
    <2>2. op' = [op EXCEPT !.pc = "restore", !.t = h]
      BY <1>2, <1>6 DEF Operations
    <2> HIDE DEF h
    <2>3. QED
      BY <1>1, <1>3, <1>6, <2>1, <2>2, PutAway
  <1>7. CASE Fail /\ UNCHANGED disk
    BY <1>1, <1>2, <1>3, <1>7, SameNodes, FailFits
  <1>8. QED
    BY <1>5, <1>6, <1>7 DEF Trash

LEMMA PublishFits ==
    ASSUME MoveInv, Publish
    PROVE  MoveInv'
  <1>1. op.pc = "publish" /\ op.pc \in Working /\ op.pc \in Pinning
    BY DEF Publish, Working, Pinning
  <1>2. TypeOK /\ t \in Handles /\ t = op.t /\ op \in Operations /\ budget \in Nat /\ t.ino \in DOMAIN node
    BY <1>1, PinnedFacts
  <1>3. Quiet
    BY <1>2, Quietly DEF Publish
  <1>4. Moved(t.ino) \in Identities
    BY <1>2, IdentityTyped
  <1>5. CASE /\ Rename(CaptureAt, t.dst)
             /\ op' = [op EXCEPT !.pc = "change", !.t.captured = FALSE, !.t.done = Moved(t.ino)]
    <2> DEFINE h == [t EXCEPT !.captured = FALSE, !.done = Moved(t.ino)]
    <2>1. h \in Handles /\ h.ino = t.ino /\ h.expected = t.expected /\ h.dst = t.dst /\ ~h.captured
      BY <1>2, <1>4 DEF Handles
    <2>2. op' = [op EXCEPT !.pc = "change", !.t = h]
      BY <1>2, <1>5 DEF Operations
    <2> HIDE DEF h
    <2>3. QED
      BY <1>1, <1>3, <1>5, <2>1, <2>2, PutAway
  <1>6. CASE Fail /\ UNCHANGED disk
    BY <1>1, <1>2, <1>3, <1>6, SameNodes, FailFits
  <1>7. QED
    BY <1>5, <1>6 DEF Publish

LEMMA Growing ==
    ASSUME TypeOK, NEW d \in Nat, NEW s \in Slots,
           node' = Append(node, [data |-> d, ctime |-> 0]), fs' = [fs EXCEPT ![s] = Len(node) + 1]
    PROVE  /\ node' \in Seq(Nodes) /\ Len(node') = Len(node) + 1 /\ Len(node) + 1 \in DOMAIN node'
           /\ fs' \in [Slots -> 0 .. Len(node')] /\ DOMAIN node \subseteq DOMAIN node'
           /\ DOMAIN node' = DOMAIN node \cup {Len(node) + 1} /\ Len(node) + 1 \notin DOMAIN node
           /\ \A m \in DOMAIN node : node'[m] = node[m]
           /\ node'[Len(node) + 1].data = d /\ node'[Len(node) + 1].ctime = 0
           /\ fs'[s] = Len(node) + 1 /\ fs'[s] # None
           /\ \A x \in Slots : x # s => fs'[x] = fs[x] /\ fs'[x] # Len(node) + 1
  <1> DEFINE e == [data |-> d, ctime |-> 0]
  <1>1. e \in Nodes /\ e.data = d /\ e.ctime = 0
    BY DEF Nodes
  <1> HIDE DEF e
  <1>2. node \in Seq(Nodes) /\ Len(node) \in Nat /\ DOMAIN node = 1 .. Len(node)
        /\ fs \in [Slots -> 0 .. Len(node)]
    BY Typed
  <1>3. node' = Append(node, e)
    BY DEF e
  <1>4. /\ node' \in Seq(Nodes) /\ Len(node') = Len(node) + 1
        /\ \A m \in 1 .. Len(node) : node'[m] = node[m]
        /\ node'[Len(node) + 1] = e
    BY <1>1, <1>2, <1>3, AppendProperties
  <1>5. DOMAIN node' = 1 .. Len(node) + 1
    BY <1>4, <1>2
  <1>6. QED
    BY <1>1, <1>2, <1>4, <1>5 DEF None

LEMMA CopyFits ==
    ASSUME MoveInv, Copy
    PROVE  MoveInv'
  <1>1. op.pc = "copy" /\ op.pc \in Working /\ op.pc \in Pinning
    BY DEF Copy, Working, Pinning
  <1>2. /\ TypeOK /\ Control /\ t \in Handles /\ t = op.t /\ op \in Operations /\ budget \in Nat
        /\ t.ino \in DOMAIN node /\ t.expected.ino = t.ino /\ t.dst = row.dst /\ op.i \in DOMAIN op.rows
    BY <1>1, PinnedFacts
  <1>3. Quiet
    BY <1>2, Quietly DEF Copy
  <1>4. /\ CaptureAt \in Slots /\ CopyAt \in Slots /\ TrashSlot(row.id) \in Slots
        /\ CopyAt # CaptureAt /\ CopyAt # TrashSlot(row.id)
    BY <1>2, OwnSlots
  <1> DEFINE Output(data) == /\ node' = Append(node, [data |-> data, ctime |-> 0])
                             /\ fs' = [fs EXCEPT ![CopyAt] = Len(node) + 1]
             expected == IF op.action = "copy" THEN t.expected ELSE Pinned
  <1>5. CASE /\ Pinned = expected /\ Output(Pinned.data)
             /\ op' = [op EXCEPT !.pc = "publish_copy", !.t.output = TRUE]
    <2> DEFINE h == [t EXCEPT !.output = TRUE]
    <2>1. /\ h \in Handles /\ h.ino = t.ino /\ h.expected = t.expected /\ h.dst = t.dst
          /\ h.captured = t.captured
      BY <1>2 DEF Handles
    <2>2. op' = [op EXCEPT !.pc = "publish_copy", !.t = h]
      BY <1>2, <1>5 DEF Operations
    <2> HIDE DEF h
    <2>3. Pinned.data \in Nat /\ Pinned.data = node[t.ino].data /\ Pinned.ino = t.ino
      BY <1>2, IdentityTyped DEF Pinned, Identities
    <2>4. /\ node' \in Seq(Nodes) /\ Len(node') = Len(node) + 1
          /\ fs' \in [Slots -> 0 .. Len(node')] /\ DOMAIN node \subseteq DOMAIN node'
          /\ Len(node) + 1 \notin DOMAIN node
          /\ node'[Len(node) + 1].data = Pinned.data
          /\ fs'[CopyAt] = Len(node) + 1 /\ fs'[CopyAt] # None
          /\ \A x \in Slots : x # CopyAt => fs'[x] = fs[x] /\ fs'[x] # Len(node) + 1
      BY <1>2, <1>4, <1>5, <2>3, Growing
    <2>5. "publish_copy" \in Working \cup {"record"} /\ "publish_copy" # "capture"
          /\ "publish_copy" \notin {"authorize", "trash", "publish", "copy"}
      BY DEF Working
    <2>6. TypeOK' /\ Control' /\ RecordsFit' /\ NamesAreFree'
      BY <1>1, <1>3, <1>4, <2>1, <2>2, <2>4, <2>5, WorkStep
    <2>7. /\ op'.pc = "publish_copy" /\ t' = h /\ row' = row /\ CaptureAt' = CaptureAt /\ CopyAt' = CopyAt
          /\ op'.action = op.action /\ foreign' = foreign
      BY <1>1, <1>2, <1>3, <2>1, <2>2, <2>5, Advance DEF Quiet
    <2>8. Captured'
      <3>1. /\ op.action # "trash" /\ t.captured <=> op.action # "copy"
            /\ t.captured => fs[CaptureAt] = t.ino /\ row.device # row.to
        BY <1>1 DEF MoveInv, Captured
      <3>2. QED
        BY <1>2, <1>4, <2>1, <2>4, <2>7, <3>1 DEF Captured
    <2>9. CopyIsOwn'
      <3>1. Pinned.data = t.expected.data \/ t.ino \in foreign
        BY <1>1, <1>5, <2>3 DEF MoveInv, Captured
      <3>2. QED
        BY <1>2, <1>4, <2>1, <2>4, <2>7, <3>1 DEF CopyIsOwn
    <2>10. QED
      BY <2>6, <2>8, <2>9 DEF MoveInv
  <1>6. CASE Fail /\ Output(Partial)
    <2>1. Partial \in Nat
      BY DEF Partial
    <2>2. /\ node' \in Seq(Nodes) /\ Len(node') = Len(node) + 1
          /\ fs' \in [Slots -> 0 .. Len(node')]
          /\ \A x \in Slots : x # CopyAt => fs'[x] = fs[x]
      BY <1>2, <1>4, <1>6, <2>1, Growing
    <2>3. Len(node') >= Len(node)
      BY <1>2, <2>2, Typed
    <2>4. QED
      BY <1>1, <1>3, <1>6, <2>2, <2>3, FailFits
  <1>7. CASE Fail /\ UNCHANGED disk
    BY <1>1, <1>2, <1>3, <1>7, SameNodes, FailFits
  <1>8. QED
    BY <1>5, <1>6, <1>7 DEF Copy

LEMMA Altering ==
    ASSUME TypeOK, NEW m \in DOMAIN node, NEW n \in Nodes, node' = [node EXCEPT ![m] = n]
    PROVE  /\ node' \in Seq(Nodes) /\ Len(node') = Len(node) /\ DOMAIN node' = DOMAIN node
           /\ node'[m] = n /\ \A k \in DOMAIN node : k # m => node'[k] = node[k]
  BY Typed, ExceptSeq

LEMMA Touching ==
    ASSUME TypeOK, NEW m \in DOMAIN node, node' = Touched(node, m)
    PROVE  /\ node' \in Seq(Nodes) /\ Len(node') = Len(node) /\ DOMAIN node' = DOMAIN node
           /\ node'[m].data = node[m].data /\ node'[m].ctime = node[m].ctime + 1
           /\ \A k \in DOMAIN node : k # m => node'[k] = node[k]
  <1> DEFINE n == [node[m] EXCEPT !.ctime = @ + 1]
  <1>1. node[m] \in Nodes
    BY Typed
  <1>2. n \in Nodes /\ n.data = node[m].data /\ n.ctime = node[m].ctime + 1
    BY <1>1 DEF Nodes
  <1>3. node' = [node EXCEPT ![m] = n]
    BY DEF Touched
  <1> HIDE DEF n
  <1>4. QED
    BY <1>2, <1>3, Altering

LEMMA PublishCopyFits ==
    ASSUME MoveInv, PublishCopy
    PROVE  MoveInv'
  <1>1. op.pc = "publish_copy" /\ op.pc \in Working /\ op.pc \in Pinning
    BY DEF PublishCopy, Working, Pinning
  <1>2. /\ TypeOK /\ Control /\ t \in Handles /\ t = op.t /\ op \in Operations /\ budget \in Nat
        /\ t.ino \in DOMAIN node /\ t.expected.ino = t.ino /\ t.dst = row.dst /\ op.i \in DOMAIN op.rows
    BY <1>1, PinnedFacts
  <1>3. Quiet
    BY <1>2, Quietly DEF PublishCopy
  <1>4. CASE /\ CanRename(CopyAt, t.dst) /\ Rename(CopyAt, t.dst)
             /\ op' = [op EXCEPT !.pc = IF t.captured THEN "remove" ELSE "change",
                                 !.t.output = FALSE, !.t.done = Moved(fs[CopyAt])]
    <2> DEFINE q == IF t.captured THEN "remove" ELSE "change"
               h == [t EXCEPT !.output = FALSE, !.done = Moved(fs[CopyAt])]
    <2>1. /\ CaptureAt \in Slots /\ CopyAt \in Slots /\ row.dst \in Slots
          /\ CopyAt # row.dst /\ CaptureAt # row.dst /\ CaptureAt # CopyAt
          /\ row.dst \in PathSlots \cup {TrashSlot(row.id)}
      BY <1>2, OwnSlots
    <2>2. fs[CopyAt] # None /\ fs[CopyAt] \in DOMAIN node
      BY <1>2, <1>4, <2>1, Typed DEF CanRename
    <2>3. /\ h \in Handles /\ h.ino = t.ino /\ h.expected = t.expected /\ h.dst = t.dst
          /\ h.captured = t.captured
      <3>1. Moved(fs[CopyAt]) \in Identities
        BY <1>2, <2>2, IdentityTyped
      <3>2. QED
        BY <1>2, <3>1 DEF Handles
    <2>4. op' = [op EXCEPT !.pc = q, !.t = h]
      BY <1>2, <1>4 DEF Operations
    <2>5. /\ q \in Working \cup {"record"} /\ q # "capture" /\ q \in {"remove", "change"}
          /\ q = "remove" <=> t.captured
      BY DEF Working
    <2> HIDE DEF h, q
    <2>6. /\ fs' \in [Slots -> 0 .. Len(node)] /\ node' \in Seq(Nodes) /\ Len(node') = Len(node)
          /\ DOMAIN node' = DOMAIN node
          /\ \A s \in Slots : s \notin {CopyAt, row.dst} => fs'[s] = fs[s]
      BY <1>2, <1>4, <2>1, <2>2, Renaming
    <2>7. TypeOK' /\ Control' /\ RecordsFit' /\ NamesAreFree'
      BY <1>1, <1>3, <2>1, <2>3, <2>4, <2>5, <2>6, WorkStep
    <2>8. op'.pc = q /\ t' = h /\ row' = row /\ CaptureAt' = CaptureAt /\ op'.action = op.action
      BY <1>1, <1>2, <1>3, <2>3, <2>4, <2>5, Advance DEF Quiet
    <2>9. Captured'
      <3>1. op.action \in Actions /\ op.action # "none"
        BY <1>1, <1>2 DEF Control, Operations
      <3>2. t.captured => op.action = "move" /\ fs[CaptureAt] = t.ino
        BY <1>1, <3>1 DEF MoveInv, Captured, Actions
      <3>3. QED
        BY <1>2, <2>1, <2>3, <2>5, <2>6, <2>8, <3>2 DEF Captured
    <2>10. CopyIsOwn'
      BY <2>5, <2>8 DEF CopyIsOwn
    <2>11. QED
      BY <2>7, <2>9, <2>10 DEF MoveInv
  <1>5. CASE Fail /\ UNCHANGED disk
    BY <1>1, <1>2, <1>3, <1>5, SameNodes, FailFits
  <1>6. QED
    BY <1>4, <1>5 DEF PublishCopy

LEMMA RemoveCapturedFits ==
    ASSUME MoveInv, RemoveCaptured
    PROVE  MoveInv'
  <1>1. op.pc = "remove" /\ op.pc \in Working /\ op.pc \in Pinning
    BY DEF RemoveCaptured, Working, Pinning
  <1>2. /\ TypeOK /\ Control /\ t \in Handles /\ t = op.t /\ op \in Operations /\ budget \in Nat
        /\ t.ino \in DOMAIN node /\ t.expected.ino = t.ino /\ t.dst = row.dst /\ op.i \in DOMAIN op.rows
    BY <1>1, PinnedFacts
  <1>3. Quiet
    BY <1>2, Quietly DEF RemoveCaptured
  <1>4. CaptureAt \in Slots /\ fs[CaptureAt] = t.ino /\ node[t.ino] \in Nodes
        /\ fs \in [Slots -> 0 .. Len(node)]
    BY <1>1, <1>2, OwnSlots, Typed DEF MoveInv, Captured
  <1>5. CASE /\ fs' = [fs EXCEPT ![CaptureAt] = None] /\ node' = Touched(node, fs[CaptureAt])
             /\ op' = [op EXCEPT !.pc = "change", !.t.captured = FALSE]
    <2> DEFINE h == [t EXCEPT !.captured = FALSE]
    <2>1. h \in Handles /\ h.ino = t.ino /\ h.expected = t.expected /\ h.dst = t.dst /\ ~h.captured
      BY <1>2 DEF Handles
    <2>2. op' = [op EXCEPT !.pc = "change", !.t = h]
      BY <1>2, <1>5 DEF Operations
    <2> HIDE DEF h
    <2>3. "change" \in Working \cup {"record"}
      BY DEF Working
    <2>4. node' \in Seq(Nodes) /\ Len(node') = Len(node) /\ DOMAIN node' = DOMAIN node
      BY <1>2, <1>4, <1>5, Touching
    <2>5. fs' \in [Slots -> 0 .. Len(node')] /\ \A s \in Slots : fs'[s] \in {fs[s], None}
      BY <1>4, <1>5, <2>4, Typed, <1>2 DEF None
    <2>6. TypeOK' /\ Control' /\ RecordsFit' /\ NamesAreFree'
      BY <1>1, <1>3, <2>1, <2>2, <2>3, <2>4, <2>5, WorkStep
    <2>7. op'.pc = "change" /\ t' = h /\ row' = row
      BY <1>1, <1>2, <1>3, <2>1, <2>2, <2>3, Advance DEF Quiet
    <2>8. Captured' /\ CopyIsOwn'
      BY <1>2, <2>1, <2>4, <2>7 DEF Captured, CopyIsOwn
    <2>9. QED
      BY <2>6, <2>8 DEF MoveInv
  <1>6. CASE Fail /\ UNCHANGED fs /\ node' = node
    BY <1>1, <1>2, <1>3, <1>6, SameNodes, FailFits DEF disk
  <1>7. CASE /\ Fail /\ UNCHANGED fs
             /\ node' = [node EXCEPT ![fs[CaptureAt]] = [data |-> Partial, ctime |-> @.ctime + 1]]
    <2> DEFINE n == [data |-> Partial, ctime |-> node[t.ino].ctime + 1]
    <2>1. n \in Nodes
      BY <1>4 DEF Nodes, Partial
    <2>2. node' = [node EXCEPT ![t.ino] = n]
      BY <1>4, <1>7
    <2> HIDE DEF n
    <2>3. node' \in Seq(Nodes) /\ Len(node') = Len(node)
      BY <1>2, <2>1, <2>2, Altering
    <2>4. Len(node') >= Len(node) /\ fs' \in [Slots -> 0 .. Len(node')]
      BY <1>2, <1>4, <1>7, <2>3, Typed
    <2>5. QED
      BY <1>1, <1>3, <1>7, <2>3, <2>4, FailFits
  <1>8. QED
    BY <1>5, <1>6, <1>7, Zenon DEF RemoveCaptured

LEMMA RestoreFits ==
    ASSUME MoveInv, Restore
    PROVE  MoveInv'
  <1>1. op.pc = "restore" /\ op.pc \in Working /\ op.pc \in Pinning
    BY DEF Restore, Working, Pinning
  <1>2. /\ TypeOK /\ Control /\ t \in Handles /\ t = op.t /\ op \in Operations /\ budget \in Nat
        /\ t.ino \in DOMAIN node /\ t.expected.ino = t.ino /\ t.dst = row.dst /\ op.i \in DOMAIN op.rows
    BY <1>1, PinnedFacts
  <1>3. Quiet
    BY <1>2, Quietly DEF Restore, counters, NoFault
  <1>4. "change" \in Working \cup {"record"} /\ "change" # "capture"
    BY DEF Working
  <1>5. PICK h \in Handles :
             /\ h.ino = t.ino /\ h.expected = t.expected /\ h.dst = t.dst
             /\ h.captured => t.captured
             /\ op' = [op EXCEPT !.pc = "change", !.t = h]
    <2>1. CASE op' = [op EXCEPT !.pc = "change", !.t.captured = FALSE]
      <3> DEFINE g == [t EXCEPT !.captured = FALSE]
      <3>1. g \in Handles /\ g.ino = t.ino /\ g.expected = t.expected /\ g.dst = t.dst /\ ~g.captured
        BY <1>2 DEF Handles
      <3>2. op' = [op EXCEPT !.pc = "change", !.t = g]
        BY <1>2, <2>1 DEF Operations
      <3> HIDE DEF g
      <3>3. QED
        BY <3>1, <3>2
    <2>2. CASE Goto("change")
      <3>1. op' = [op EXCEPT !.pc = "change", !.t = t]
        BY <1>2, <2>2 DEF Operations, Goto
      <3>2. QED
        BY <1>2, <3>1
    <2>3. QED
      BY <2>1, <2>2 DEF Restore
  <1>6. /\ node' \in Seq(Nodes) /\ Len(node') = Len(node) /\ fs' \in [Slots -> 0 .. Len(node')]
        /\ \A s \in Slots : fs[s] = None /\ fs'[s] # None => s = row.src
    <2>1. CASE CanRename(CaptureAt, row.src) /\ Rename(CaptureAt, row.src)
      <3>1. CaptureAt \in Slots /\ row.src \in Slots /\ CaptureAt # row.src /\ fs[CaptureAt] # None
        BY <1>2, <2>1, OwnSlots DEF CanRename
      <3>2. QED
        BY <1>2, <2>1, <3>1, Renaming
    <2>2. CASE UNCHANGED disk
      BY <1>2, <2>2, Typed DEF disk
    <2>3. QED
      BY <2>1, <2>2 DEF Restore
  <1>7. TypeOK' /\ Control' /\ RecordsFit' /\ NamesAreFree'
    BY <1>1, <1>3, <1>4, <1>5, <1>6, WorkStep
  <1>8. op'.pc = "change" /\ t' = h /\ row' = row /\ op'.action = op.action
    BY <1>1, <1>2, <1>3, <1>4, <1>5, Advance DEF Quiet
  <1>9. t.ino \in DOMAIN node'
    BY <1>2, <1>6, <1>7, Typed
  <1>10. op.action = "copy" => ~h.captured
    BY <1>1, <1>5 DEF MoveInv, Captured
  <1>11. Captured' /\ CopyIsOwn'
    BY <1>2, <1>5, <1>8, <1>9, <1>10 DEF Captured, CopyIsOwn
  <1>12. QED
    BY <1>7, <1>11 DEF MoveInv

-----------------------------------------------------------------------------
\* Steps of the journal and of the batch

LEMMA Appending ==
    ASSUME TypeOK, NEW r \in Records, journal' = Append(journal, r)
    PROVE  /\ journal' \in Seq(Records) /\ Len(journal') = Len(journal) + 1
           /\ DOMAIN journal' = DOMAIN journal \cup {Len(journal) + 1}
           /\ Len(journal) + 1 \notin DOMAIN journal
           /\ \A j \in DOMAIN journal : journal'[j] = journal[j]
           /\ journal'[Len(journal) + 1] = r
           /\ synced \in 0 .. Len(journal') /\ Len(journal') \in 0 .. Len(journal')
  <1>1. journal \in Seq(Records) /\ Len(journal) \in Nat /\ DOMAIN journal = 1 .. Len(journal)
        /\ synced \in 0 .. Len(journal)
    BY Typed DEF TypeOK
  <1>2. /\ journal' \in Seq(Records) /\ Len(journal') = Len(journal) + 1
        /\ \A j \in 1 .. Len(journal) : journal'[j] = journal[j]
        /\ journal'[Len(journal) + 1] = r
    BY <1>1, AppendProperties
  <1>3. DOMAIN journal' = 1 .. Len(journal) + 1
    BY <1>2, <1>1
  <1>4. QED
    BY <1>1, <1>2, <1>3

LEMMA FitsStill ==
    ASSUME TypeOK, RecordsFit, UNCHANGED requests, NEW r \in Records, journal' = Append(journal, r),
           r.kind = "identity_change" => r.before.ino = r.after.ino,
           r.kind = "operation" =>
             r.src \in PathSlots /\ (r.dst \in PathSlots \/ \E k \in Ids : k <= Used /\ r.dst = TrashSlot(k))
    PROVE  RecordsFit'
  <1>1. Used' = Used
    BY DEF Used
  <1>2. QED
    BY <1>1, Appending DEF RecordsFit, Changes, Completed

LEMMA FitsUnchanged ==
    ASSUME RecordsFit, UNCHANGED <<journal, requests>>
    PROVE  RecordsFit'
  BY DEF RecordsFit, Changes, Completed, Used

LEMMA RecordChangeFits ==
    ASSUME MoveInv, RecordChange
    PROVE  MoveInv'
  <1>1. op.pc = "change" /\ op.pc \in Pinning /\ "record" \in Working \cup {"record"} /\ "record" # "capture"
    BY DEF RecordChange, Working, Pinning
  <1>2. /\ TypeOK /\ Control /\ t \in Handles /\ t = op.t /\ op \in Operations /\ budget \in Nat
        /\ t.ino \in DOMAIN node /\ t.expected.ino = t.ino /\ t.dst = row.dst /\ op.i \in DOMAIN op.rows
        /\ foreign \subseteq Nat
    BY <1>1, PinnedFacts
  <1>3. budget' \in Nat
    BY <1>2, Spending DEF RecordChange
  <1>4. UNCHANGED <<fs, node, cancelled, gone, requests>>
    BY DEF RecordChange, disk
  <1>5. PICK h \in Handles : (~h.error => h.dst = t.dst) /\ op' = [op EXCEPT !.pc = "record", !.t = h]
    <2>1. CASE Goto("record")
      <3>1. op' = [op EXCEPT !.pc = "record", !.t = t]
        BY <1>2, <2>1 DEF Operations, Goto
      <3>2. QED
        BY <1>2, <3>1
    <2>2. CASE op' = [op EXCEPT !.pc = "record", !.t.error = TRUE, !.t.named = FALSE]
      <3> DEFINE g == [t EXCEPT !.error = TRUE, !.named = FALSE]
      <3>1. g \in Handles /\ g.error
        BY <1>2 DEF Handles
      <3>2. op' = [op EXCEPT !.pc = "record", !.t = g]
        BY <1>2, <2>2 DEF Operations
      <3> HIDE DEF g
      <3>3. QED
        BY <3>1, <3>2
    <2>3. QED
      BY <2>1, <2>2 DEF RecordChange
  <1>6. /\ op' \in Operations /\ Control' /\ op'.pc = "record" /\ op'.rows = op.rows /\ op'.i = op.i
        /\ t' = h /\ row' = row
    BY <1>1, <1>2, <1>4, <1>5, Advance
  <1>7. NamesAreFree'
    BY <1>1, <1>2, <1>4, <1>6, NamesGoOn DEF MoveInv
  <1>8. journal' \in Seq(Records) /\ synced' \in 0 .. Len(journal') /\ RecordsFit'
    <2>1. RecordsFit
      BY DEF MoveInv
    <2>2. CASE Append1(Change)
      <3> DEFINE r == Change
      <3>1. row.id \in Nat
        BY <1>2, OwnSlots, IdsAreNatural
      <3>2. t.expected \in Identities /\ Pinned \in Identities /\ Pinned.ino = t.ino
        BY <1>2, IdentityTyped DEF Handles, Pinned
      <3>3. Record("identity_change", row.id) \in Records /\ Record("identity_change", row.id).kind = "identity_change"
        BY <3>1, RecordTyped
      <3>4. r \in Records /\ r.before = t.expected /\ r.after = Pinned /\ r.kind = "identity_change"
        BY <3>2, <3>3 DEF Change, Records
      <3> HIDE DEF r
      <3>5. journal' = Append(journal, r) /\ UNCHANGED synced
        BY <2>2 DEF Append1, r
      <3>6. QED
        BY <1>2, <1>4, <2>1, <3>2, <3>4, <3>5, Appending, FitsStill
    <2>3. CASE UNCHANGED log
      BY <1>2, <1>4, <2>1, <2>3, FitsUnchanged DEF log, TypeOK
    <2>4. QED
      BY <2>2, <2>3 DEF RecordChange
  <1>9. foreign' \subseteq Nat
    <2>1. t.ino \in Nat
      BY <1>2, Typed
    <2>2. QED
      BY <1>2, <2>1 DEF RecordChange
  <1>10. TypeOK'
    BY <1>2, <1>3, <1>4, <1>6, <1>8, <1>9 DEF TypeOK
  <1>11. Captured' /\ CopyIsOwn'
    BY <1>2, <1>5, <1>6 DEF Captured, CopyIsOwn, Pinning, Working
  <1>12. QED
    BY <1>6, <1>7, <1>8, <1>10, <1>11 DEF MoveInv

\* The next row of the batch.
LEMMA NextRow ==
    ASSUME MoveInv, op.pc \in {"row", "record"}, op.i \in DOMAIN op.rows, op.undo = None,
           op' \in Operations, op'.pc = "row", op'.i = op.i + 1, op'.rows = op.rows,
           op'.action = op.action, op'.undo = op.undo, UNCHANGED <<fs, requests>>
    PROVE  Control' /\ NamesAreFree' /\ Captured' /\ CopyIsOwn'
  <1>1. TypeOK /\ Control /\ NamesAreFree
    BY DEF MoveInv
  <1>2. DOMAIN op.rows = 1 .. Len(op.rows) /\ Len(op.rows) \in Nat /\ op.i \in Nat
    BY <1>1, Typed
  <1>3. Used' = Used
    BY DEF Used
  <1>4. Control'
    BY <1>1, <1>2, <1>3 DEF Control, Pinning, Working
  <1>5. NamesAreFree'
    <2>1. \A j \in DOMAIN op.rows : Untouched(j)' => Untouched(j)
      BY <1>2 DEF Untouched
    <2>2. \A id : Vacant(id)' <=> Vacant(id)
      BY DEF Vacant
    <2>3. QED
      BY <1>1, <1>3, <2>1, <2>2 DEF NamesAreFree
  <1>6. Captured' /\ CopyIsOwn'
    BY DEF Captured, CopyIsOwn, Pinning, Working
  <1>7. QED
    BY <1>4, <1>5, <1>6

LEMMA SkipFits ==
    ASSUME MoveInv, Skip
    PROVE  MoveInv'
  <1>1. TypeOK /\ Control /\ RecordsFit /\ budget \in Nat /\ op \in Operations
    BY DEF MoveInv, TypeOK
  <1>2. op.pc = "row" /\ op.i \in DOMAIN op.rows /\ op.undo = None /\ op.i \in Nat
    <2>1. op.i \in 1 .. Len(op.rows) + 1 /\ op.i <= Len(op.rows) /\ op.pc = "row" /\ op.undo = None
      BY <1>1 DEF Skip, Control
    <2>2. QED
      BY <1>1, <2>1, Typed
  <1>3. UNCHANGED <<fs, node, cancelled, gone, foreign, requests>> /\ budget' \in Nat
    BY <1>1, Spending DEF Skip, disk, seen
  <1>4. /\ op' \in Operations /\ op'.pc = "row" /\ op'.i = op.i + 1 /\ op'.rows = op.rows
        /\ op'.action = op.action /\ op'.undo = op.undo
    BY <1>1, <1>2 DEF Skip, Operations
  <1>5. journal' \in Seq(Records) /\ synced' \in 0 .. Len(journal') /\ RecordsFit'
    <2> DEFINE r == [Record("not_started", row.id) EXCEPT !.src = row.src, !.dst = row.dst]
    <2>1. CASE Append1(r)
      <3>1. row.id \in Nat /\ row.src \in Slots /\ row.dst \in Slots
        BY <1>1, <1>2, OwnSlots, IdsAreNatural
      <3>2. Record("not_started", row.id) \in Records /\ Record("not_started", row.id).kind = "not_started"
        BY <3>1, RecordTyped DEF RowKinds
      <3>3. r \in Records /\ r.kind = "not_started"
        BY <3>1, <3>2 DEF Records
      <3>4. journal' = Append(journal, r) /\ UNCHANGED synced
        BY <2>1 DEF Append1
      <3> HIDE DEF r
      <3>5. QED
        BY <1>1, <1>3, <3>3, <3>4, Appending, FitsStill
    <2>2. CASE UNCHANGED log
      BY <1>1, <1>3, <2>2, FitsUnchanged DEF log, TypeOK
    <2>3. QED
      BY <2>1, <2>2 DEF Skip
  <1>6. TypeOK'
    BY <1>1, <1>3, <1>4, <1>5 DEF TypeOK
  <1>7. Control' /\ NamesAreFree' /\ Captured' /\ CopyIsOwn'
    BY <1>2, <1>3, <1>4, NextRow
  <1>8. QED
    BY <1>5, <1>6, <1>7 DEF MoveInv

LEMMA ResultFits ==
    ASSUME MoveInv, op.pc = "record"
    PROVE  /\ Result \in Records /\ Result.kind \in {"failed", "operation"}
           /\ Result.kind = "operation" =>
                /\ op.undo = None => Result.src \in PathSlots
                /\ Result.dst \in PathSlots \/ \E k \in Ids : k <= Used /\ Result.dst = TrashSlot(k)
                /\ ~t.error /\ Result.after = t.done
  <1>1. TypeOK /\ Control /\ op.i \in DOMAIN op.rows /\ op \in Operations
    BY DEF MoveInv, Control, TypeOK
  <1>2. /\ row.id \in Nat /\ row.src \in Slots /\ row.dst \in Slots /\ op.action \in Actions
        /\ t.expected \in Identities /\ t.done \in Identities /\ Recovery \subseteq Slots
    BY <1>1, OwnSlots, IdsAreNatural, Typed DEF Operations, t, Handles, Recovery
  <1>3. CASE t.error
    <2>1. Record("failed", row.id) \in Records /\ Record("failed", row.id).kind = "failed"
      BY <1>2, RecordTyped DEF RowKinds
    <2>2. QED
      BY <1>2, <1>3, <2>1 DEF Result, Records
  <1>4. CASE ~t.error
    <2>1. t.dst = row.dst
      BY <1>4 DEF MoveInv, Captured
    <2>2. Record("operation", row.id) \in Records /\ Record("operation", row.id).kind = "operation"
      BY <1>2, RecordTyped DEF RowKinds
    <2>3. /\ Result \in Records /\ Result.kind = "operation" /\ Result.src = row.src
          /\ Result.dst = row.dst /\ Result.after = t.done
      BY <1>2, <1>4, <2>1, <2>2 DEF Result, Records
    <2>4. /\ op.undo = None => row.src \in PathSlots
          /\ row.dst \in PathSlots \/ (row.dst = TrashSlot(row.id) /\ row.id <= Used)
      BY <1>1 DEF Control, row
    <2>5. row.id \in Ids
      BY <1>1, OwnSlots
    <2>6. QED
      BY <1>4, <2>3, <2>4, <2>5
  <1>5. QED
    BY <1>3, <1>4

LEMMA RecordResultFits ==
    ASSUME MoveInv, RecordResult
    PROVE  MoveInv'
  <1>1. TypeOK /\ Control /\ RecordsFit /\ budget \in Nat /\ op \in Operations
    BY DEF MoveInv, TypeOK
  <1>2. op.pc = "record" /\ op.i \in DOMAIN op.rows /\ op.undo = None /\ op.i \in Nat
    BY <1>1, Typed DEF RecordResult, Control
  <1>3. UNCHANGED <<fs, node, cancelled, gone, foreign, requests>> /\ budget' \in Nat
    BY <1>1, Spending DEF RecordResult, disk, seen
  <1>4. /\ op' \in Operations /\ op'.pc = "row" /\ op'.i = op.i + 1 /\ op'.rows = op.rows
        /\ op'.action = op.action /\ op'.undo = op.undo
    <2>1. NoHandle \in Handles /\ "row" \in Places
      BY Defaults DEF Places, Started
    <2>2. \E b \in BOOLEAN : op' = [op EXCEPT !.pc = "row", !.i = @ + 1, !.t = NoHandle, !.stopped = b]
      BY Zenon DEF RecordResult
    <2>3. PICK b \in BOOLEAN : op' = [op EXCEPT !.pc = "row", !.i = @ + 1, !.t = NoHandle, !.stopped = b]
      BY <2>2
    <2>4. op.i + 1 \in Nat
      BY <1>2
    <2>5. QED
      BY <1>1, <2>1, <2>3, <2>4 DEF Operations
  <1>5. journal' \in Seq(Records) /\ synced' \in 0 .. Len(journal') /\ RecordsFit'
    <2>1. CASE Append1(Result)
      <3>1. /\ Result \in Records /\ Result.kind # "identity_change"
            /\ Result.kind = "operation" =>
                 /\ Result.src \in PathSlots
                 /\ Result.dst \in PathSlots \/ \E k \in Ids : k <= Used /\ Result.dst = TrashSlot(k)
        BY <1>2, ResultFits
      <3>2. journal' = Append(journal, Result) /\ UNCHANGED synced
        BY <2>1 DEF Append1
      <3>3. QED
        BY <1>1, <1>3, <3>1, <3>2, Appending, FitsStill
    <2>2. CASE UNCHANGED log
      BY <1>1, <1>3, <2>2, FitsUnchanged DEF log, TypeOK
    <2>3. QED
      BY <2>1, <2>2 DEF RecordResult
  <1>6. TypeOK'
    BY <1>1, <1>3, <1>4, <1>5 DEF TypeOK
  <1>7. Control' /\ NamesAreFree' /\ Captured' /\ CopyIsOwn'
    BY <1>2, <1>3, <1>4, NextRow
  <1>8. QED
    BY <1>5, <1>6, <1>7 DEF MoveInv

LEMMA StartRowFits ==
    ASSUME MoveInv, StartRow
    PROVE  MoveInv'
  <1>1. TypeOK /\ Control /\ RecordsFit /\ NamesAreFree /\ budget \in Nat /\ op \in Operations
    BY DEF MoveInv, TypeOK
  <1>2. op.pc = "row" /\ op.i \in DOMAIN op.rows /\ op.undo = None /\ op.i \in Nat
    <2>1. op.i \in 1 .. Len(op.rows) + 1 /\ op.i <= Len(op.rows) /\ op.pc = "row" /\ op.undo = None
      BY <1>1 DEF StartRow, Control
    <2>2. QED
      BY <1>1, <2>1, Typed
  <1>3. /\ UNCHANGED <<fs, node, journal, synced, cancelled, gone, foreign, requests>> /\ budget' \in Nat
        /\ RecordsFit'
    BY <1>1, Spending, FitsUnchanged DEF StartRow, disk, seen, log
  <1> DEFINE expected == Current(row.expected)
             pinned == [NoHandle EXCEPT !.ino = fs[row.src], !.expected = expected, !.dst = row.dst]
             q == IF op.action = "copy" THEN "copy" ELSE "capture"
             refusal == [NoHandle EXCEPT !.error = TRUE]
  <1>4. /\ row.src \in Slots /\ row.dst \in Slots /\ row.expected \in Identities
        /\ row.expected.ino # None /\ row.id \in Ids
    BY <1>1, <1>2, RowTyped DEF Control, row, Rows
  <1>5. expected \in Identities /\ expected.ino = row.expected.ino
    BY <1>1, <1>4, CurrentFits
  <1>6. ASSUME NEW p, NEW h \in Handles, p \in {"capture", "copy", "record"},
               op' = [op EXCEPT !.pc = p, !.t = h],
               p = "copy" => op.action = "copy",
               p = "capture" => op.action # "copy",
               p = "record" => h.error,
               p # "record" => /\ ~h.captured /\ h.ino = fs[row.src] /\ h.dst = row.dst
                               /\ h.expected.ino = h.ino /\ h.ino # None
        PROVE  MoveInv'
    <2>1. p \in Places
      BY <1>6 DEF Places, Started, Working
    <2>2. /\ op' \in Operations /\ op'.pc = p /\ op'.t = h /\ op'.rows = op.rows /\ op'.i = op.i
          /\ op'.action = op.action /\ op'.undo = op.undo
      BY <1>1, <1>6, <2>1 DEF Operations
    <2>3. row' = row /\ t' = h /\ Used' = Used /\ CopyAt' = CopyAt
      BY <1>3, <2>2 DEF row, t, Used, CopyAt
    <2>4. Control'
      BY <1>1, <1>2, <1>6, <2>2, <2>3 DEF Control, Pinning, Working
    <2>5. NamesAreFree'
      <3>1. \A id : Vacant(id)' <=> Vacant(id)
        BY <1>3 DEF Vacant
      <3>2. \A j \in DOMAIN op.rows : Untouched(j)' => Untouched(j)
        BY <1>2, <2>2 DEF Untouched
      <3>3. Vacant(row.id)
        <4>1. Untouched(op.i)
          BY <1>2 DEF Untouched
        <4>2. QED
          BY <1>1, <1>2, <4>1 DEF NamesAreFree, row
      <3>4. fs'[CopyAt] = None /\ fs'[TrashSlot(row.id)] = None
        BY <1>3, <3>3 DEF Vacant, CopyAt
      <3>5. QED
        BY <1>1, <2>2, <2>3, <3>1, <3>2, <3>4 DEF NamesAreFree
    <2>6. Captured'
      <3>1. p # "record" => h.ino \in DOMAIN node
        BY <1>1, <1>4, <1>6, Typed
      <3>2. QED
        BY <1>3, <1>6, <2>2, <2>3, <3>1 DEF Captured, Pinning, Working
    <2>7. CopyIsOwn'
      BY <1>6, <2>2 DEF CopyIsOwn
    <2>8. TypeOK'
      BY <1>1, <1>3, <2>2 DEF TypeOK
    <2>9. QED
      BY <1>3, <2>4, <2>5, <2>6, <2>7, <2>8 DEF MoveInv
  <1>7. CASE IdentityAt(row.src) = expected /\ op' = [op EXCEPT !.pc = q, !.t = pinned]
    <2>1. fs[row.src] = expected.ino /\ expected.ino # None /\ fs[row.src] \in Nat
      BY <1>1, <1>4, <1>5, <1>7, IdentityTyped, Typed
    <2>2. /\ pinned \in Handles /\ pinned.ino = fs[row.src] /\ pinned.expected = expected
          /\ pinned.dst = row.dst /\ ~pinned.captured
      BY <1>4, <1>5, <2>1, Defaults DEF NoHandle, Handles
    <2>3. /\ q \in {"capture", "copy", "record"} /\ q # "record"
          /\ q = "copy" => op.action = "copy"
          /\ q = "capture" => op.action # "copy"
      OBVIOUS
    <2> HIDE DEF pinned, expected, q
    <2>4. QED
      BY <1>6, <1>7, <2>1, <2>2, <2>3
  <1>8. CASE op' = [op EXCEPT !.pc = "record", !.t = refusal]
    <2>1. refusal \in Handles /\ refusal.error
      BY Defaults DEF NoHandle, Handles
    <2> HIDE DEF refusal
    <2>2. QED
      BY <1>6, <1>8, <2>1
  <1>9. QED
    BY <1>7, <1>8, Zenon DEF StartRow

LEMMA EndFits ==
    ASSUME MoveInv, End, UNCHANGED <<fs, node, gone, requests>>, foreign' \subseteq Nat, budget' \in Nat,
           journal' \in Seq(Records), synced' \in 0 .. Len(journal'), RecordsFit'
    PROVE  MoveInv'
  <1>1. TypeOK /\ NamesAreFree
    BY DEF MoveInv
  <1>2. op' = Idle /\ cancelled' = FALSE /\ op' \in Operations
    BY Defaults DEF End
  <1>3. op'.pc = "idle" /\ op'.rows = << >> /\ op'.undo = None
    BY <1>2 DEF Idle
  <1>4. TypeOK'
    BY <1>1, <1>2 DEF TypeOK
  <1>5. DOMAIN op'.rows = {}
    BY <1>3
  <1>6. Control'
    BY <1>3, <1>5 DEF Control, Pinning, Working
  <1>7. NamesAreFree'
    BY <1>1, <1>3, <1>5 DEF NamesAreFree, Used, Vacant
  <1>8. Captured' /\ CopyIsOwn'
    BY <1>3 DEF Captured, CopyIsOwn, Pinning, Working
  <1>9. QED
    BY <1>4, <1>6, <1>7, <1>8 DEF MoveInv

LEMMA FinishFits ==
    ASSUME MoveInv, Finish
    PROVE  MoveInv'
  <1>1. TypeOK /\ RecordsFit /\ budget \in Nat /\ foreign \subseteq Nat
    BY DEF MoveInv, TypeOK
  <1>2. /\ UNCHANGED <<fs, node, journal, gone, foreign, requests, budget>> /\ End
        /\ synced' = Len(journal)
    BY DEF Finish, disk, seen, counters
  <1>3. journal \in Seq(Records) /\ Len(journal) \in 0 .. Len(journal)
    BY <1>1, Typed
  <1>4. QED
    BY <1>1, <1>2, <1>3, FitsUnchanged, EndFits

LEMMA RecordUndoFits ==
    ASSUME MoveInv, RecordUndo
    PROVE  MoveInv'
  <1>1. TypeOK /\ RecordsFit /\ budget \in Nat /\ foreign \subseteq Nat /\ op.undo \in Nat
    BY DEF MoveInv, TypeOK, Operations
  <1>2. UNCHANGED <<fs, node, gone, foreign, requests>> /\ budget' \in Nat /\ End
    BY <1>1, Spending DEF RecordUndo, disk, seen
  <1>3. journal \in Seq(Records) /\ Len(journal) \in 0 .. Len(journal) /\ synced \in 0 .. Len(journal)
    BY <1>1, Typed DEF TypeOK
  <1>4. journal' \in Seq(Records) /\ synced' \in 0 .. Len(journal') /\ RecordsFit'
    <2> DEFINE r == Record("undo", op.undo)
    <2>1. r \in Records /\ r.kind = "undo"
      BY <1>1, RecordTyped
    <2>2. CASE journal' = Append(journal, r) /\ Sync
      <3> HIDE DEF r
      <3>1. QED
        BY <1>1, <1>2, <2>1, <2>2, Appending, FitsStill DEF Sync
    <2>3. CASE UNCHANGED journal /\ (Sync \/ UNCHANGED synced)
      BY <1>1, <1>2, <1>3, <2>3, FitsUnchanged DEF Sync
    <2>4. QED
      BY <2>2, <2>3, Zenon DEF RecordUndo, log
  <1>5. QED
    BY <1>1, <1>2, <1>4, EndFits

LEMMA Cutting ==
    ASSUME TypeOK, NEW n \in 0 .. Len(journal), journal' = SubSeq(journal, 1, n)
    PROVE  /\ journal' \in Seq(Records) /\ Len(journal') = n
           /\ DOMAIN journal' = 1 .. n /\ DOMAIN journal' \subseteq DOMAIN journal
           /\ \A j \in DOMAIN journal' : journal'[j] = journal[j]
  <1>1. /\ Len(journal) \in Nat /\ DOMAIN journal = 1 .. Len(journal)
        /\ \A j \in 1 .. Len(journal) : journal[j] \in Records
    BY Typed
  <1>2. \A j \in 1 .. n : journal[j] \in Records
    BY <1>1
  <1>3. /\ journal' \in Seq(Records) /\ Len(journal') = (IF 1 <= n THEN n - 1 + 1 ELSE 0)
        /\ \A j \in 1 .. n - 1 + 1 : journal'[j] = journal[1 + j - 1]
    BY <1>1, <1>2, SubSeqProperties
  <1>4. Len(journal') = n /\ DOMAIN journal' = 1 .. n
    BY <1>1, <1>3
  <1>5. QED
    BY <1>1, <1>3, <1>4

LEMMA CrashFits ==
    ASSUME MoveInv, Crash
    PROVE  MoveInv'
  <1>1. TypeOK /\ RecordsFit /\ budget \in Nat
    BY DEF MoveInv, TypeOK
  <1>2. UNCHANGED <<fs, node, gone, requests>> /\ budget' \in Nat /\ End /\ foreign' \subseteq Nat
    BY <1>1, Spending, Typed DEF Crash, disk
  <1>3. PICK n \in synced .. Len(journal) : journal' = SubSeq(journal, 1, n) /\ synced' = n
    BY DEF Crash
  <1>4. n \in 0 .. Len(journal)
    BY <1>1 DEF TypeOK
  <1>5. /\ journal' \in Seq(Records) /\ synced' \in 0 .. Len(journal')
        /\ DOMAIN journal' \subseteq DOMAIN journal
        /\ \A j \in DOMAIN journal' : journal'[j] = journal[j]
    BY <1>1, <1>3, <1>4, Cutting
  <1>6. RecordsFit'
    BY <1>1, <1>2, <1>5 DEF RecordsFit, Changes, Completed, Used
  <1>7. QED
    BY <1>2, <1>5, <1>6, EndFits

LEMMA CancelFits ==
    ASSUME MoveInv, Cancel
    PROVE  MoveInv'
  <1>1. UNCHANGED <<fs, node, journal, synced, op, gone, foreign, requests>> /\ cancelled' \in BOOLEAN
    BY DEF Cancel, disk, log, seen
  <1>2. budget' \in Nat
    BY Spending DEF Cancel, MoveInv, TypeOK
  <1>3. TypeOK'
    BY <1>1, <1>2 DEF MoveInv, TypeOK
  <1>4. Control' /\ RecordsFit'
    BY <1>1, FitsUnchanged DEF MoveInv, Control, Used
  <1>5. Captured' /\ CopyIsOwn'
    BY <1>1 DEF MoveInv, Captured, CopyIsOwn, CaptureAt, CopyAt, row, t
  <1>6. NamesAreFree'
    BY <1>1 DEF MoveInv, NamesAreFree, Untouched, Vacant, Used, CopyAt, row
  <1>7. QED
    BY <1>3, <1>4, <1>5, <1>6 DEF MoveInv

LEMMA Joining ==
    ASSUME TypeOK, NEW r \in Seq(Records), journal' = journal \o r
    PROVE  /\ journal' \in Seq(Records) /\ Len(journal') = Len(journal) + Len(r)
           /\ DOMAIN journal' = 1 .. Len(journal) + Len(r) /\ DOMAIN journal \subseteq DOMAIN journal'
           /\ \A j \in DOMAIN journal : journal'[j] = journal[j]
           /\ \A j \in DOMAIN journal' \ DOMAIN journal :
                j - Len(journal) \in DOMAIN r /\ journal'[j] = r[j - Len(journal)]
           /\ \A k \in DOMAIN r : Len(journal) + k \in DOMAIN journal' /\ journal'[Len(journal) + k] = r[k]
           /\ synced \in 0 .. Len(journal') /\ Len(journal') \in 0 .. Len(journal')
  <1>1. /\ journal \in Seq(Records) /\ Len(journal) \in Nat /\ DOMAIN journal = 1 .. Len(journal)
        /\ synced \in 0 .. Len(journal) /\ Len(r) \in Nat /\ DOMAIN r = 1 .. Len(r)
    BY Typed DEF TypeOK
  <1>2. /\ journal' \in Seq(Records) /\ Len(journal') = Len(journal) + Len(r)
        /\ \A i \in 1 .. Len(journal) + Len(r) :
             journal'[i] = IF i <= Len(journal) THEN journal[i] ELSE r[i - Len(journal)]
    BY <1>1, ConcatProperties
  <1>3. DOMAIN journal' = 1 .. Len(journal) + Len(r)
    BY <1>1, <1>2
  <1>4. QED
    BY <1>1, <1>2, <1>3

LEMMA IntentTyped ==
    ASSUME TypeOK, NEW x \in Rows
    PROVE  /\ Intent(x) \in Records /\ Intent(x).kind = "intent"
           /\ op.action # "copy" => CaptureSlot(x.id) \in Intent(x).paths
           /\ op.action # "trash" => CopySlot(x.id) \in Intent(x).paths
  <1>1. /\ x.id \in Nat /\ x.src \in Slots /\ x.dst \in Slots /\ x.expected \in Identities
        /\ CaptureSlot(x.id) \in Slots /\ CopySlot(x.id) \in Slots
    BY IdsAreNatural, SlotKinds DEF Rows
  <1>2. op.action \in Actions
    BY DEF TypeOK, Operations
  <1>3. Record("intent", x.id) \in Records /\ Record("intent", x.id).kind = "intent"
    BY <1>1, RecordTyped DEF RowKinds
  <1> DEFINE names == (IF op.action = "copy" THEN {} ELSE {CaptureSlot(x.id)})
                        \cup (IF op.action = "trash" THEN {} ELSE {CopySlot(x.id)})
  <1>4. /\ names \in SUBSET Slots /\ (op.action # "copy" => CaptureSlot(x.id) \in names)
        /\ (op.action # "trash" => CopySlot(x.id) \in names)
    BY <1>1
  <1> HIDE DEF names
  <1>5. Intent(x) = [Record("intent", x.id) EXCEPT !.action = op.action, !.src = x.src, !.dst = x.dst,
                                                   !.before = x.expected, !.paths = names]
    BY DEF Intent, names
  <1>6. QED
    BY <1>1, <1>2, <1>3, <1>4, <1>5 DEF Records

LEMMA IntentsTyped ==
    ASSUME TypeOK, NEW n \in 0 .. Len(op.rows)
    PROVE  /\ [i \in 1 .. n |-> Intent(op.rows[i])] \in Seq(Records)
           /\ Len([i \in 1 .. n |-> Intent(op.rows[i])]) = n
           /\ \A k \in 1 .. n : [i \in 1 .. n |-> Intent(op.rows[i])][k].kind = "intent"
  <1>1. Len(op.rows) \in Nat /\ n \in Nat /\ \A j \in 1 .. n : op.rows[j] \in Rows
    BY Typed
  <1>2. \A j \in 1 .. n : Intent(op.rows[j]) \in Records /\ Intent(op.rows[j]).kind = "intent"
    BY <1>1, IntentTyped
  <1>3. QED
    BY <1>1, <1>2

LEMMA IntentsFit ==
    ASSUME MoveInv, Intents
    PROVE  MoveInv'
  <1>1. TypeOK /\ Control /\ RecordsFit /\ NamesAreFree /\ budget \in Nat /\ foreign \subseteq Nat
        /\ op \in Operations
    BY DEF MoveInv, TypeOK
  <1>2. /\ UNCHANGED <<fs, node, gone, foreign, requests>> /\ budget' \in Nat /\ op.pc = "intents"
        /\ op.i = 1 /\ op.undo = None
    BY <1>1, Spending DEF Intents, disk, seen, Control
  <1>3. Used' = Used
    BY <1>2 DEF Used
  <1>4. PICK n \in 0 .. Len(op.rows) :
          /\ journal' = journal \o [i \in 1 .. n |-> Intent(op.rows[i])]
          /\ Sync \/ UNCHANGED synced
    <2>1. Len(op.rows) \in 0 .. Len(op.rows) /\ DOMAIN op.rows = 1 .. Len(op.rows)
      BY <1>1, Typed
    <2>2. QED
      BY <2>1, Zenon DEF Intents
  <1>5. journal' \in Seq(Records) /\ synced' \in 0 .. Len(journal') /\ RecordsFit'
    <2> DEFINE r == [i \in 1 .. n |-> Intent(op.rows[i])]
    <2>1. r \in Seq(Records) /\ Len(r) = n /\ \A k \in 1 .. n : r[k].kind = "intent"
      BY <1>1, IntentsTyped
    <2>2. DOMAIN r = 1 .. n
      OBVIOUS
    <2> HIDE DEF r
    <2>3. journal' = journal \o r
      BY <1>4 DEF r
    <2>4. /\ journal' \in Seq(Records) /\ DOMAIN journal \subseteq DOMAIN journal'
          /\ \A j \in DOMAIN journal : journal'[j] = journal[j]
          /\ \A j \in DOMAIN journal' \ DOMAIN journal : journal'[j].kind = "intent"
          /\ synced \in 0 .. Len(journal') /\ Len(journal') \in 0 .. Len(journal')
      BY <1>1, <2>1, <2>2, <2>3, Joining, SMTT(40)
    <2>5. RecordsFit'
      BY <1>1, <1>3, <2>4 DEF RecordsFit, Changes, Completed
    <2>6. QED
      BY <1>4, <2>4, <2>5 DEF Sync
  <1>6. CASE Goto("row") /\ UNCHANGED cancelled
    <2>1. "row" \in Places
      BY DEF Places, Started
    <2>2. /\ op' \in Operations /\ op'.pc = "row" /\ op'.rows = op.rows /\ op'.i = op.i
          /\ op'.action = op.action /\ op'.undo = op.undo
      BY <1>1, <1>6, <2>1 DEF Goto, Operations
    <2>3. Control'
      <3>1. op.i \in 1 .. Len(op.rows) + 1
        BY <1>1, <1>2, Typed
      <3>2. QED
        BY <1>1, <1>2, <1>3, <2>2, <3>1 DEF Control, Pinning, Working
    <2>4. NamesAreFree'
      <3>1. \A id : Vacant(id)' <=> Vacant(id)
        BY <1>2 DEF Vacant
      <3>2. \A j \in DOMAIN op.rows : Untouched(j)' => Untouched(j)
        BY <1>2, <2>2 DEF Untouched
      <3>3. QED
        BY <1>1, <1>3, <2>2, <3>1, <3>2 DEF NamesAreFree
    <2>5. Captured' /\ CopyIsOwn'
      BY <2>2 DEF Captured, CopyIsOwn, Pinning, Working
    <2>6. TypeOK'
      BY <1>1, <1>2, <1>5, <1>6, <2>2 DEF TypeOK
    <2>7. QED
      BY <1>5, <2>3, <2>4, <2>5, <2>6 DEF MoveInv
  <1>7. CASE End
    BY <1>1, <1>2, <1>5, <1>7, EndFits
  <1>8. QED
    BY <1>6, <1>7 DEF Intents

LEMMA UndoIntentFits ==
    ASSUME MoveInv, UndoIntent
    PROVE  MoveInv'
  <1>1. op.pc = "undo_intent" /\ op.pc \in Pinning
    BY DEF UndoIntent, Pinning
  <1>2. /\ TypeOK /\ Control /\ t \in Handles /\ t = op.t /\ op \in Operations /\ budget \in Nat
        /\ op.i \in DOMAIN op.rows /\ foreign \subseteq Nat /\ RecordsFit /\ NamesAreFree /\ Captured
    BY <1>1, PinnedFacts DEF MoveInv
  <1>3. UNCHANGED <<fs, node, gone, foreign, requests>> /\ budget' \in Nat
    BY <1>2, Spending DEF UndoIntent, disk, seen
  <1> DEFINE names == {CaptureAt} \cup (IF row.device = row.to THEN {} ELSE {CopyAt})
             r == [Record("undo_intent", op.undo) EXCEPT !.paths = names]
  <1>4. CASE journal' = Append(journal, r) /\ Sync /\ Goto("capture") /\ UNCHANGED cancelled
    <2>1. names \in SUBSET Slots
      BY <1>2, OwnSlots
    <2>2. Record("undo_intent", op.undo) \in Records /\ Record("undo_intent", op.undo).kind = "undo_intent"
      BY <1>2, RecordTyped DEF Operations
    <2>3. r \in Records /\ r.kind = "undo_intent"
      BY <2>1, <2>2 DEF Records
    <2> HIDE DEF r
    <2>4. journal' \in Seq(Records) /\ synced' \in 0 .. Len(journal') /\ RecordsFit'
      BY <1>2, <1>3, <1>4, <2>3, Appending, FitsStill DEF Sync
    <2>5. "capture" \in Working \cup {"record"}
      BY DEF Working
    <2>6. op' = [op EXCEPT !.pc = "capture", !.t = t]
      BY <1>2, <1>4 DEF Goto, Operations
    <2>7. /\ op' \in Operations /\ Control' /\ op'.pc = "capture" /\ op'.rows = op.rows /\ op'.i = op.i
          /\ op'.action = op.action /\ row' = row /\ t' = t /\ CaptureAt' = CaptureAt /\ Used' = Used
      BY <1>1, <1>2, <1>3, <2>5, <2>6, Advance
    <2>8. TypeOK'
      BY <1>2, <1>3, <1>4, <2>4, <2>7 DEF TypeOK
    <2>9. NamesAreFree'
      <3>1. \A id : Vacant(id)' <=> Vacant(id)
        BY <1>3 DEF Vacant
      <3>2. \A j \in DOMAIN op.rows : Untouched(j)' => Untouched(j)
        BY <1>1, <2>7 DEF Untouched
      <3>3. QED
        BY <1>2, <2>7, <3>1, <3>2 DEF NamesAreFree
    <2>10. Captured' /\ CopyIsOwn'
      BY <1>1, <1>2, <1>3, <2>7 DEF Captured, CopyIsOwn
    <2>11. QED
      BY <2>4, <2>7, <2>8, <2>9, <2>10 DEF MoveInv
  <1>5. CASE End /\ UNCHANGED log
    <2>1. RecordsFit' /\ journal' \in Seq(Records) /\ synced' \in 0 .. Len(journal')
      BY <1>2, <1>3, <1>5, FitsUnchanged DEF log, TypeOK
    <2>2. QED
      BY <1>2, <1>3, <1>5, <2>1, EndFits
  <1>6. QED
    BY <1>4, <1>5, Zenon DEF UndoIntent

LEMMA PreviewFits ==
    ASSUME MoveInv, Preview
    PROVE  MoveInv'
  <1>1. TypeOK /\ Control /\ RecordsFit /\ NamesAreFree /\ budget \in Nat /\ foreign \subseteq Nat
        /\ op \in Operations
    BY DEF MoveInv, TypeOK
  <1>2. /\ UNCHANGED <<fs, node, journal, synced, gone, foreign, requests, budget>> /\ op.pc = "preview"
        /\ op.i = 1 /\ op.undo = None
    BY <1>1 DEF Preview, disk, seen, log, counters, Control
  <1>3. Used' = Used /\ RecordsFit' /\ journal' \in Seq(Records) /\ synced' \in 0 .. Len(journal')
    BY <1>1, <1>2, FitsUnchanged DEF Used, TypeOK
  <1> DEFINE good == DOMAIN op.rows \ {i \in DOMAIN op.rows : Conflicting(i)}
  <1>4. CASE End
    BY <1>1, <1>2, <1>3, <1>4, EndFits
  <1>5. ASSUME NEW kept \in [1 .. Cardinality(good) -> good],
               \A i, j \in DOMAIN kept : i < j => kept[i] < kept[j],
               op' = [op EXCEPT !.pc = "intents", !.rows = [i \in DOMAIN kept |-> op.rows[kept[i]]]],
               UNCHANGED cancelled
        PROVE  MoveInv'
    <2> DEFINE n == Cardinality(good)
               rows == [i \in DOMAIN kept |-> op.rows[kept[i]]]
    <2>1. n \in Nat
      <3>1. good \subseteq 1 .. Len(op.rows) /\ Len(op.rows) \in Nat
        BY <1>1, Typed
      <3>2. IsFiniteSet(1 .. Len(op.rows))
        BY <3>1, FS_Interval
      <3>3. IsFiniteSet(good)
        BY <3>1, <3>2, FS_Subset
      <3>4. QED
        BY <3>3, FS_CardinalityType
    <2>2. DOMAIN kept = 1 .. n /\ \A i \in 1 .. n : kept[i] \in good
      BY <1>5
    <2>3. \A j \in good : /\ op.rows[j] \in Rows /\ op.rows[j].expected.ino # None /\ j \in DOMAIN op.rows
                          /\ j \in Nat
      <3>1. ASSUME NEW j \in good
            PROVE  /\ op.rows[j] \in Rows /\ op.rows[j].expected.ino # None /\ j \in DOMAIN op.rows
                   /\ j \in Nat
        <4>1. op.rows[j] \in Rows /\ j \in DOMAIN op.rows /\ j \in Nat /\ ~Conflicting(j)
          BY <1>1, Typed
        <4>2. op.rows[j].src \in Slots
          BY <4>1 DEF Rows
        <4>3. fs[op.rows[j].src] # None /\ IdentityAt(op.rows[j].src) = op.rows[j].expected
          BY <4>1 DEF Conflicting
        <4>4. QED
          BY <1>1, <4>1, <4>2, <4>3, IdentityTyped
      <3>2. QED
        BY <3>1
    <2> HIDE DEF n, good
    <2>4. rows \in Seq(Rows) /\ DOMAIN rows = 1 .. n /\ \A i \in 1 .. n : rows[i] = op.rows[kept[i]]
      BY <2>1, <2>2, <2>3
    <2>5. \A i, j \in 1 .. n : i # j => kept[i] # kept[j]
      BY <1>5, <2>1, <2>2, <2>3
    <2> HIDE DEF rows
    <2>6. op' = [op EXCEPT !.pc = "intents", !.rows = rows] /\ "intents" \in Places
      BY <1>5 DEF rows, Places
    <2>7. /\ op' \in Operations /\ op'.pc = "intents" /\ op'.rows = rows /\ op'.i = 1
          /\ op'.action = op.action /\ op'.undo = None
      BY <1>1, <1>2, <2>4, <2>6 DEF Operations
    <2>8. Control'
      <3>1. ASSUME NEW j \in 1 .. n
            PROVE  /\ rows[j].id <= Used /\ rows[j].expected.ino # None
                   /\ \A k \in 1 .. n : k # j => rows[k].id # rows[j].id
                   /\ IF op.action = "trash" THEN rows[j].dst = TrashSlot(rows[j].id)
                      ELSE rows[j].dst \in PathSlots
                   /\ rows[j].src \in PathSlots
        <4>1. kept[j] \in DOMAIN op.rows /\ rows[j] = op.rows[kept[j]] /\ rows[j].expected.ino # None
          BY <2>2, <2>3, <2>4
        <4>2. \A k \in 1 .. n : kept[k] \in DOMAIN op.rows /\ rows[k] = op.rows[kept[k]]
          BY <2>2, <2>3, <2>4
        <4>3. QED
          BY <1>1, <1>2, <2>5, <4>1, <4>2 DEF Control
      <3>2. op.action # "none"
        BY <1>1, <1>2 DEF Control
      <3>3. QED
        BY <1>3, <2>4, <2>7, <3>1, <3>2 DEF Control, Pinning, Working
    <2>9. NamesAreFree'
      <3>1. \A id : Vacant(id)' <=> Vacant(id)
        BY <1>2 DEF Vacant
      <3>2. ASSUME NEW j \in 1 .. n PROVE Vacant(rows[j].id)
        <4>1. kept[j] \in DOMAIN op.rows /\ rows[j] = op.rows[kept[j]]
          BY <2>2, <2>3, <2>4
        <4>2. Untouched(kept[j])
          BY <1>1, <1>2, <4>1, Typed DEF Untouched
        <4>3. QED
          BY <1>1, <4>1, <4>2 DEF NamesAreFree
      <3>3. QED
        BY <1>1, <1>3, <2>4, <2>7, <3>1, <3>2 DEF NamesAreFree
    <2>10. Captured' /\ CopyIsOwn'
      BY <2>7 DEF Captured, CopyIsOwn, Pinning, Working
    <2>11. TypeOK'
      BY <1>1, <1>2, <1>5, <2>7 DEF TypeOK
    <2>12. QED
      BY <1>3, <2>8, <2>9, <2>10, <2>11 DEF MoveInv
  <1>6. QED
    BY <1>4, <1>5, Zenon DEF Preview

LEMMA UsedGrows ==
    ASSUME TypeOK, RecordsFit, requests < MaxRequests, requests' = requests + 1, UNCHANGED journal
    PROVE  /\ Used \in Nat /\ Used' \in Nat /\ Used' = Used + BatchLimit /\ Used <= Used'
           /\ requests' \in 0 .. MaxRequests /\ RecordsFit'
           /\ \A j \in 1 .. BatchLimit : NewId(j) \in Ids /\ NewId(j) = Used + j /\ NewId(j) <= Used'
  <1>1. requests \in 0 .. MaxRequests /\ MaxRequests \in Nat
    BY Budgets DEF TypeOK
  <1>2. /\ requests * BatchLimit \in Nat /\ (requests + 1) * BatchLimit \in Nat
        /\ (requests + 1) * BatchLimit = requests * BatchLimit + BatchLimit
        /\ \A j \in 1 .. BatchLimit :
             /\ requests * BatchLimit + j \in Ids
             /\ requests * BatchLimit + j <= (requests + 1) * BatchLimit
    BY <1>1, NewIds
  <1>3. Used = requests * BatchLimit /\ Used' = (requests + 1) * BatchLimit
        /\ \A j : NewId(j) = Used + j
    BY DEF Used, NewId
  <1>4. /\ Used \in Nat /\ Used' \in Nat /\ Used' = Used + BatchLimit
        /\ \A j \in 1 .. BatchLimit : NewId(j) \in Ids /\ NewId(j) = Used + j /\ NewId(j) <= Used'
    BY <1>2, <1>3
  <1>5. Used <= Used' /\ requests' \in 0 .. MaxRequests
    BY <1>1, <1>4, Limit
  <1>6. RecordsFit'
    <2>1. \A k \in Ids : k <= Used => k <= Used'
      BY <1>4, <1>5, IdsAreNatural
    <2>2. QED
      BY <2>1 DEF RecordsFit, Changes, Completed
  <1>7. QED
    BY <1>4, <1>5, <1>6

LEMMA RequestFits ==
    ASSUME MoveInv, NEW action \in {"move", "copy", "trash"}, NEW policy \in {"stop", "skip"},
           NEW batch \in Batches, NEW keeper \in Paths \cup {None}, Request(action, policy, batch, keeper)
    PROVE  MoveInv'
  <1>1. TypeOK /\ RecordsFit /\ NamesAreFree
    BY DEF MoveInv
  <1>2. /\ UNCHANGED <<fs, node, journal, synced, cancelled, gone, foreign, budget>>
        /\ requests < MaxRequests /\ requests' = requests + 1
    BY DEF Request, disk, log, seen
  <1>3. /\ Used \in Nat /\ Used' \in Nat /\ Used <= Used' /\ requests' \in 0 .. MaxRequests /\ RecordsFit'
        /\ \A j \in 1 .. BatchLimit : NewId(j) \in Ids /\ NewId(j) = Used + j /\ NewId(j) <= Used'
    BY <1>1, <1>2, UsedGrows
  <1>4. /\ Len(batch) \in Nat /\ DOMAIN batch = 1 .. Len(batch) /\ Len(batch) <= BatchLimit
        /\ \A j \in 1 .. Len(batch) : batch[j].src \in Paths /\ batch[j].dst \in Paths
    BY Batch, Limit
  <1>5. \A j \in 1 .. Len(batch) : NewId(j) \in Ids /\ NewId(j) = Used + j /\ NewId(j) <= Used'
    BY <1>3, <1>4, Limit
  <1> DEFINE Item(i) == [id |-> NewId(i), src |-> PathSlot(batch[i].src),
                         device |-> Device[batch[i].src], to |-> Device[batch[i].dst],
                         dst |-> IF action = "trash" THEN TrashSlot(NewId(i)) ELSE PathSlot(batch[i].dst),
                         expected |-> IdentityAt(PathSlot(batch[i].src))]
             rows == [i \in DOMAIN batch |-> Item(i)]
             k == IF keeper = None THEN NoKeeper
                  ELSE [slot |-> PathSlot(keeper), identity |-> IdentityAt(PathSlot(keeper))]
  <1>6. ASSUME NEW i \in 1 .. Len(batch)
        PROVE  /\ Item(i) \in Rows /\ Item(i).id = Used + i /\ Item(i).id <= Used'
               /\ Item(i).src \in PathSlots
               /\ IF action = "trash" THEN Item(i).dst = TrashSlot(Item(i).id)
                  ELSE Item(i).dst \in PathSlots
    <2>1. /\ PathSlot(batch[i].src) \in Slots /\ PathSlot(batch[i].dst) \in Slots
          /\ PathSlot(batch[i].src) \in PathSlots /\ PathSlot(batch[i].dst) \in PathSlots
          /\ TrashSlot(NewId(i)) \in Slots
      BY <1>4, <1>5, SlotKinds
    <2>2. Device[batch[i].src] \in Devices /\ Device[batch[i].dst] \in Devices
      BY <1>4 DEF Devices
    <2>3. IdentityAt(PathSlot(batch[i].src)) \in Identities
      BY <1>1, <2>1, IdentityTyped
    <2>4. QED
      BY <1>5, <2>1, <2>2, <2>3 DEF Rows
  <1>7. k \in Keepers
    <2>1. keeper # None => PathSlot(keeper) \in Slots /\ IdentityAt(PathSlot(keeper)) \in Identities
      BY <1>1, SlotKinds, IdentityTyped
    <2>2. QED
      BY <2>1, Defaults DEF Keepers
  <1> HIDE DEF Item, k
  <1>8. rows \in Seq(Rows) /\ DOMAIN rows = 1 .. Len(batch) /\ \A i \in 1 .. Len(batch) : rows[i] = Item(i)
    BY <1>4, <1>6
  <1>9. op' = [Idle EXCEPT !.pc = "preview", !.action = action, !.policy = policy, !.i = 1,
                           !.keeper = k, !.rows = rows]
    BY DEF Request, k, Item
  <1> HIDE DEF rows
  <1>10. /\ op' \in Operations /\ op'.pc = "preview" /\ op'.rows = rows /\ op'.i = 1
         /\ op'.action = action /\ op'.undo = None
    <2>1. "preview" \in Places /\ action \in Actions
      BY DEF Places, Actions
    <2>2. QED
      BY <1>7, <1>8, <1>9, <2>1, Defaults DEF Idle, Operations
  <1>11. Control'
    <2>1. \A i, j \in 1 .. Len(batch) : i # j => Item(i).id # Item(j).id
      BY <1>3, <1>4, <1>6
    <2>2. QED
      BY <1>6, <1>8, <1>10, <2>1 DEF Control, Pinning, Working
  <1>12. NamesAreFree'
    <2>1. \A id : Vacant(id)' <=> Vacant(id)
      BY <1>2 DEF Vacant
    <2>2. \A id \in Ids : id > Used => Vacant(id)
      BY <1>1 DEF NamesAreFree
    <2>3. \A id \in Ids : id > Used' => Vacant(id)
      BY <1>3, <2>2, IdsAreNatural
    <2>4. \A j \in 1 .. Len(batch) : rows[j].id \in Ids /\ rows[j].id > Used
      BY <1>3, <1>4, <1>6, <1>8 DEF Rows
    <2>5. QED
      BY <1>8, <1>10, <2>1, <2>2, <2>3, <2>4 DEF NamesAreFree
  <1>13. Captured' /\ CopyIsOwn'
    BY <1>10 DEF Captured, CopyIsOwn, Pinning, Working
  <1>14. TypeOK'
    BY <1>1, <1>2, <1>3, <1>10 DEF TypeOK
  <1>15. QED
    BY <1>3, <1>11, <1>12, <1>13, <1>14 DEF MoveInv

\* The row that history shows for an id is a record of the journal.
LEMMA RowIsRecord ==
    ASSUME TypeOK, NEW id \in Undoable
    PROVE  /\ id \in Ids /\ Max(Positions(RowKinds, id)) \in Completed
           /\ Row(id) = journal[Max(Positions(RowKinds, id))] /\ Row(id) \in Records
  <1> DEFINE P == Positions(RowKinds, id)
  <1>1. id \in Ids /\ P # {} /\ Row(id).kind = "operation"
    BY DEF Undoable, Known
  <1>2. P \subseteq DOMAIN journal
    BY DEF Positions
  <1>3. P \subseteq Nat /\ \A x \in P : x <= Len(journal)
    BY <1>2, Typed
  <1>4. Max(P) \in P
    BY <1>1, <1>3, Typed, MaxOfBounded
  <1> HIDE DEF P
  <1>5. Max(P) \in DOMAIN journal /\ Row(id) = journal[Max(P)]
    BY <1>2, <1>4 DEF Row, P
  <1>6. QED
    BY <1>1, <1>5, Typed DEF Completed, P

LEMMA UndoFits ==
    ASSUME MoveInv, Undo
    PROVE  MoveInv'
  <1>1. TypeOK /\ RecordsFit /\ NamesAreFree
    BY DEF MoveInv
  <1>2. /\ UNCHANGED <<fs, node, journal, synced, cancelled, gone, foreign, budget>>
        /\ requests < MaxRequests /\ requests' = requests + 1
    BY DEF Undo, disk, log, seen
  <1>3. /\ Used \in Nat /\ Used' \in Nat /\ Used <= Used' /\ requests' \in 0 .. MaxRequests /\ RecordsFit'
        /\ NewId(1) \in Ids /\ NewId(1) = Used + 1 /\ NewId(1) <= Used'
    BY <1>1, <1>2, UsedGrows, Limit
  <1> DEFINE id == Max(Undoable)
             record == Row(id)
             removing == record.action = "copy"
             key == NewId(1)
             x == [id |-> key, src |-> record.dst, device |-> DeviceOf(record.dst, record),
                   to |-> DeviceOf(record.src, record),
                   dst |-> IF removing THEN TrashSlot(key) ELSE record.src,
                   expected |-> IdentityAt(record.dst)]
             h == [NoHandle EXCEPT !.ino = fs[record.dst], !.expected = IdentityAt(record.dst),
                                   !.dst = IF removing THEN TrashSlot(key) ELSE record.src]
  <1>4. id \in Undoable
    <2>1. Undoable \subseteq Nat /\ \A i \in Undoable : i <= MaxRequests * BatchLimit
      BY IdsAreNatural DEF Undoable, Known, Ids
    <2>2. Undoable # {} /\ MaxRequests * BatchLimit \in Nat
      BY Limit, Budgets DEF Undo
    <2>3. QED
      BY <2>1, <2>2, MaxOfBounded
  <1>5. id \in Ids /\ record \in Records /\ id \in Nat /\ id # None
    <2>1. id \in Ids /\ record \in Records
      BY <1>1, <1>4, RowIsRecord
    <2>2. MaxRequests * BatchLimit \in Nat
      BY Limit, Budgets
    <2>3. QED
      BY <2>1, <2>2 DEF Ids, None
  <1>6. /\ record.src \in PathSlots
        /\ record.dst \in PathSlots \/ \E k \in Ids : k <= Used /\ record.dst = TrashSlot(k)
    BY <1>1, <1>4, RowIsRecord DEF RecordsFit
  <1>7. /\ fs[record.dst] # None
        /\ op' = [Idle EXCEPT !.pc = "undo_intent", !.undo = id, !.i = 1,
                     !.action = IF removing THEN "trash" ELSE "move", !.rows = <<x>>, !.t = h]
    BY DEF Undo
  <1> HIDE DEF id, record
  <1>8. /\ record.src \in Slots /\ record.dst \in Slots /\ TrashSlot(key) \in Slots
        /\ IdentityAt(record.dst) \in Identities /\ IdentityAt(record.dst).ino = fs[record.dst]
        /\ fs[record.dst] \in DOMAIN node /\ fs[record.dst] \in Nat
    BY <1>1, <1>3, <1>6, <1>7, SlotKinds, IdentityTyped, Typed
  <1>9. DeviceOf(record.src, record) \in Devices /\ DeviceOf(record.dst, record) \in Devices
    <2>1. record.src[1] = "path" /\ record.src[2] \in Paths
      BY <1>6, SlotKinds
    <2>2. record.dst[1] = "path" => record.dst[2] \in Paths
      BY <1>6, SlotKinds
    <2>3. QED
      BY <2>1, <2>2 DEF DeviceOf, Devices
  <1>10. /\ x \in Rows /\ x.id = key /\ x.src = record.dst /\ x.expected = IdentityAt(record.dst)
         /\ x.dst = IF removing THEN TrashSlot(key) ELSE record.src
    BY <1>3, <1>8, <1>9 DEF Rows
  <1>11. /\ h \in Handles /\ h.ino = fs[record.dst] /\ h.expected = IdentityAt(record.dst)
         /\ h.dst = x.dst /\ ~h.captured
    BY <1>8, <1>10, Defaults DEF Handles, NoHandle
  <1>12. <<x>> \in Seq(Rows) /\ Len(<<x>>) = 1 /\ DOMAIN <<x>> = {1} /\ <<x>>[1] = x
    BY <1>10
  <1> DEFINE act == IF removing THEN "trash" ELSE "move"
             rows == <<x>>
  <1>13. act \in {"trash", "move"} /\ (act = "trash" <=> removing)
    OBVIOUS
  <1> HIDE DEF h, x, act
  <1>14. /\ rows \in Seq(Rows) /\ DOMAIN rows = {1} /\ rows[1] = x
         /\ op' = [Idle EXCEPT !.pc = "undo_intent", !.undo = id, !.i = 1, !.action = act,
                               !.rows = rows, !.t = h]
    BY <1>7, <1>12 DEF act
  <1> HIDE DEF rows
  <1>15. /\ op' \in Operations /\ op'.pc = "undo_intent" /\ op'.rows = rows /\ op'.i = 1
         /\ op'.action = act /\ op'.undo = id /\ op'.t = h
    <2>1. "undo_intent" \in Places /\ act \in Actions
      BY <1>13 DEF Places, Actions
    <2>2. QED
      BY <1>5, <1>11, <1>14, <2>1, Defaults DEF Idle, Operations
  <1>16. row' = x /\ t' = h
    BY <1>14, <1>15 DEF row, t
  <1>17. Control'
    <2>1. x.id <= Used' /\ x.expected.ino # None
      BY <1>3, <1>7, <1>8, <1>10
    <2>2. IF act = "trash" THEN x.dst = TrashSlot(x.id) ELSE x.dst \in PathSlots
      BY <1>6, <1>10, <1>13
    <2>3. x.src \in PathSlots \/ \E k \in Ids : x.src = TrashSlot(k) /\ k <= Used' /\ x.id # k
      BY <1>3, <1>6, <1>10, IdsAreNatural
    <2>4. QED
      BY <1>5, <1>13, <1>14, <1>15, <2>1, <2>2, <2>3 DEF Control
  <1>18. NamesAreFree'
    <2>1. \A i : Vacant(i)' <=> Vacant(i)
      BY <1>2 DEF Vacant
    <2>2. \A i \in Ids : i > Used => Vacant(i)
      BY <1>1 DEF NamesAreFree
    <2>3. \A i \in Ids : i > Used' => Vacant(i)
      BY <1>3, <2>2, IdsAreNatural
    <2>4. Vacant(x.id)
      BY <1>3, <1>10, <2>2
    <2>5. QED
      BY <1>14, <1>15, <2>1, <2>3, <2>4 DEF NamesAreFree
  <1>19. Captured' /\ CopyIsOwn'
    BY <1>2, <1>8, <1>10, <1>11, <1>13, <1>15, <1>16 DEF Captured, CopyIsOwn
  <1>20. TypeOK'
    BY <1>1, <1>2, <1>3, <1>15 DEF TypeOK
  <1>21. QED
    BY <1>3, <1>17, <1>18, <1>19, <1>20 DEF MoveInv

-----------------------------------------------------------------------------
\* Other programs

\* What every change of another program has in common.
Others(p) ==
  /\ UNCHANGED <<op, journal, synced, cancelled, requests>> /\ budget' \in Nat
  /\ gone \subseteq gone' /\ gone' \subseteq Nat
  /\ foreign \cup {fs[PathSlot(p)]} \subseteq foreign' /\ foreign' \subseteq Nat
  /\ node' \in Seq(Nodes) /\ DOMAIN node \subseteq DOMAIN node' /\ fs' \in [Slots -> 0 .. Len(node')]
  /\ \A s \in Slots : s # PathSlot(p) => fs'[s] = fs[s]
  /\ fs'[PathSlot(p)] \in {None, fs[PathSlot(p)]} \cup (foreign' \ DOMAIN node)
  /\ \A m \in DOMAIN node : m # fs[PathSlot(p)] => node'[m] = node[m]
  /\ \A m \in DOMAIN node : node'[m].ctime >= node[m].ctime
  /\ \A m \in DOMAIN node : node'[m].data = node[m].data \/ fs'[PathSlot(p)] = m
  /\ \A m \in DOMAIN node' \ DOMAIN node : m = fs'[PathSlot(p)]
  /\ fs[PathSlot(p)] # None =>
       node[fs[PathSlot(p)]].data \in gone' \/ (fs' = fs /\ node'[fs[PathSlot(p)]].data = node[fs[PathSlot(p)]].data)

LEMMA OthersAct ==
    ASSUME TypeOK, NEW p \in Paths, ReplaceFile(p) \/ RemoveFile(p) \/ ModifyFile(p) \/ TouchFile(p)
    PROVE  Others(p)
  <1> DEFINE s == PathSlot(p)
  <1>1. /\ s \in Slots /\ fs \in [Slots -> 0 .. Len(node)] /\ Len(node) \in Nat /\ node \in Seq(Nodes)
        /\ fs[s] \in Nat /\ DOMAIN node = 1 .. Len(node) /\ budget \in Nat /\ gone \subseteq Nat
        /\ foreign \subseteq Nat /\ \A m \in DOMAIN node : node[m] \in Nodes
    BY Typed, SlotKinds DEF TypeOK
  <1>2. UNCHANGED <<op, journal, synced, cancelled, requests>> /\ budget' \in Nat
    BY <1>1, Spending DEF ReplaceFile, RemoveFile, ModifyFile, TouchFile, log
  <1>3. /\ IdentityAt(s).data \in Nat
        /\ fs[s] # None => fs[s] \in DOMAIN node /\ IdentityAt(s).data = node[fs[s]].data
    BY <1>1, IdentityTyped, Typed DEF IdentityAt, Identities
  <1>4. \A m \in DOMAIN node : node[m].ctime \in Nat /\ node[m].data \in Nat
    BY <1>1 DEF Nodes
  <1>5. CASE ReplaceFile(p)
    <2>1. Len(node) + 10 \in Nat
      BY <1>1
    <2>2. /\ node' = Append(node, [data |-> Len(node) + 10, ctime |-> 0])
          /\ fs' = [fs EXCEPT ![s] = Len(node) + 1]
      BY <1>5 DEF ReplaceFile
    <2>3. /\ node' \in Seq(Nodes) /\ fs' \in [Slots -> 0 .. Len(node')]
          /\ DOMAIN node' = DOMAIN node \cup {Len(node) + 1} /\ Len(node) + 1 \notin DOMAIN node
          /\ \A m \in DOMAIN node : node'[m] = node[m]
          /\ fs'[s] = Len(node) + 1
          /\ \A x \in Slots : x # s => fs'[x] = fs[x]
      BY <1>1, <2>1, <2>2, Growing
    <2>4. /\ gone' = gone \cup {IdentityAt(s).data} /\ foreign' = foreign \cup {fs[s], Len(node) + 1}
      BY <1>5 DEF ReplaceFile
    <2>5. gone \subseteq gone' /\ gone' \subseteq Nat /\ foreign \cup {fs[s]} \subseteq foreign' /\ foreign' \subseteq Nat
      <3>1. Len(node) + 1 \in Nat
        BY <1>1
      <3>2. gone' \subseteq Nat /\ foreign' \subseteq Nat
        BY <1>1, <1>3, <2>4, <3>1
      <3>3. QED
        BY <2>4, <3>2
    <2>6. fs'[s] \in foreign' \ DOMAIN node
      BY <2>3, <2>4
    <2>7. \A m \in DOMAIN node : node'[m].ctime >= node[m].ctime
      BY <1>4, <2>3
    <2>8. QED
      BY <1>2, <1>3, <2>3, <2>4, <2>5, <2>6, <2>7 DEF Others
  <1>6. CASE RemoveFile(p)
    <2>1. fs[s] # None /\ fs' = [fs EXCEPT ![s] = None] /\ node' = Touched(node, fs[s])
          /\ gone' = gone \cup {IdentityAt(s).data} /\ foreign' = foreign \cup {fs[s]}
      BY <1>6 DEF RemoveFile
    <2>2. /\ node' \in Seq(Nodes) /\ Len(node') = Len(node) /\ DOMAIN node' = DOMAIN node
          /\ node'[fs[s]].ctime = node[fs[s]].ctime + 1 /\ node'[fs[s]].data = node[fs[s]].data
          /\ \A k \in DOMAIN node : k # fs[s] => node'[k] = node[k]
      BY <1>3, <2>1, Touching
    <2>3. fs' \in [Slots -> 0 .. Len(node')] /\ fs'[s] = None /\ \A x \in Slots : x # s => fs'[x] = fs[x]
      BY <1>1, <2>1, <2>2 DEF None
    <2>4. \A m \in DOMAIN node : node'[m].ctime >= node[m].ctime
      BY <1>4, <2>2
    <2>5. gone \subseteq gone' /\ gone' \subseteq Nat /\ foreign \cup {fs[s]} \subseteq foreign' /\ foreign' \subseteq Nat
      BY <1>1, <1>3, <2>1
    <2>6. QED
      BY <1>2, <1>3, <2>1, <2>2, <2>3, <2>4, <2>5 DEF Others
  <1>7. CASE ModifyFile(p)
    <2> DEFINE n == [data |-> 20 + budget, ctime |-> node[fs[s]].ctime + 1]
    <2>1. fs[s] # None /\ fs' = fs /\ node' = [node EXCEPT ![fs[s]] = n]
          /\ gone' = gone \cup {IdentityAt(s).data} /\ foreign' = foreign \cup {fs[s]}
      BY <1>7 DEF ModifyFile
    <2>2. n \in Nodes /\ n.ctime = node[fs[s]].ctime + 1
      BY <1>1, <1>3, <1>4, <2>1 DEF Nodes
    <2> HIDE DEF n
    <2>3. /\ node' \in Seq(Nodes) /\ Len(node') = Len(node) /\ DOMAIN node' = DOMAIN node
          /\ node'[fs[s]] = n /\ \A k \in DOMAIN node : k # fs[s] => node'[k] = node[k]
      BY <1>3, <2>1, <2>2, Altering
    <2>4. \A m \in DOMAIN node : node'[m].ctime >= node[m].ctime
      BY <1>4, <2>2, <2>3
    <2>5. gone \subseteq gone' /\ gone' \subseteq Nat /\ foreign \cup {fs[s]} \subseteq foreign' /\ foreign' \subseteq Nat
      BY <1>1, <1>3, <2>1
    <2>6. QED
      BY <1>1, <1>2, <1>3, <2>1, <2>3, <2>4, <2>5 DEF Others
  <1>8. CASE TouchFile(p)
    <2>1. fs[s] # None /\ fs' = fs /\ node' = Touched(node, fs[s])
          /\ gone' = gone /\ foreign' = foreign \cup {fs[s]}
      BY <1>8 DEF TouchFile
    <2>2. /\ node' \in Seq(Nodes) /\ Len(node') = Len(node) /\ DOMAIN node' = DOMAIN node
          /\ node'[fs[s]].ctime = node[fs[s]].ctime + 1 /\ node'[fs[s]].data = node[fs[s]].data
          /\ \A k \in DOMAIN node : k # fs[s] => node'[k] = node[k]
      BY <1>3, <2>1, Touching
    <2>3. \A m \in DOMAIN node : node'[m].ctime >= node[m].ctime
      BY <1>4, <2>2
    <2>4. gone \subseteq gone' /\ gone' \subseteq Nat /\ foreign \cup {fs[s]} \subseteq foreign' /\ foreign' \subseteq Nat
      BY <1>1, <2>1
    <2>5. QED
      BY <1>1, <1>2, <2>1, <2>2, <2>3, <2>4 DEF Others
  <1>9. QED
    BY <1>5, <1>6, <1>7, <1>8

LEMMA OthersFit ==
    ASSUME MoveInv, NEW p \in Paths, Others(p)
    PROVE  MoveInv'
  <1>1. TypeOK /\ Control /\ RecordsFit /\ NamesAreFree /\ Captured /\ CopyIsOwn
    BY DEF MoveInv
  <1>2. /\ UNCHANGED <<op, journal, synced, cancelled, requests>>
        /\ foreign \cup {fs[PathSlot(p)]} \subseteq foreign' /\ DOMAIN node \subseteq DOMAIN node'
        /\ \A s \in Slots : s # PathSlot(p) => fs'[s] = fs[s]
        /\ fs'[PathSlot(p)] \in {None, fs[PathSlot(p)]} \cup (foreign' \ DOMAIN node)
        /\ \A m \in DOMAIN node : m # fs[PathSlot(p)] => node'[m] = node[m]
    BY DEF Others
  <1>3. TypeOK'
    BY <1>1 DEF TypeOK, Others
  <1>4. Used' = Used /\ row' = row /\ t' = t /\ CaptureAt' = CaptureAt /\ CopyAt' = CopyAt
    BY <1>2 DEF Used, row, t, CaptureAt, CopyAt
  <1>5. Control' /\ RecordsFit'
    BY <1>1, <1>2, <1>4, FitsUnchanged DEF Control
  <1>6. PathSlot(p) \in PathSlots /\ PathSlot(p) \in Slots
    BY SlotKinds
  <1>7. \A id \in Ids : /\ fs'[CaptureSlot(id)] = fs[CaptureSlot(id)] /\ fs'[CopySlot(id)] = fs[CopySlot(id)]
                        /\ fs'[TrashSlot(id)] = fs[TrashSlot(id)]
    BY <1>2, <1>6, SlotKinds, SlotsApart
  <1>8. \A id \in Ids : Vacant(id)' <=> Vacant(id)
    BY <1>7 DEF Vacant
  <1>9. op.pc \in Pinning => row.id \in Ids
    BY <1>1, RowTyped DEF Control
  <1>10. NamesAreFree'
    <2>1. \A j \in DOMAIN op.rows : op.rows[j].id \in Ids
      BY <1>1, Typed DEF Rows
    <2>2. \A j : Untouched(j)' <=> Untouched(j)
      BY <1>2 DEF Untouched
    <2>3. op.pc \in {"authorize", "trash", "publish", "copy"} => row.id \in Ids
      BY <1>9 DEF Pinning, Working
    <2>4. QED
      BY <1>1, <1>2, <1>4, <1>7, <1>8, <2>1, <2>2, <2>3 DEF NamesAreFree, CopyAt
  <1>11. Captured'
    <2>1. CASE op.pc \in Pinning
      <3>1. fs'[CaptureAt] = fs[CaptureAt]
        BY <1>7, <1>9, <2>1 DEF CaptureAt
      <3>2. t.ino \in DOMAIN node /\ t.ino \in DOMAIN node'
        BY <1>2, <2>1, PinnedFacts
      <3>3. fs[row.src] \in {None, t.ino} \cup foreign => fs'[row.src] \in {None, t.ino} \cup foreign'
        <4>1. row.src \in Slots
          BY <2>1, PinnedFacts
        <4>2. QED
          BY <1>2, <4>1
      <3>4. node[t.ino].data = t.expected.data \/ t.ino \in foreign
              => node'[t.ino].data = t.expected.data \/ t.ino \in foreign'
        BY <1>2, <3>2
      <3>5. foreign \subseteq foreign' /\ op' = op
        BY <1>2
      <3>6. QED
        BY <1>1, <1>4, <2>1, <3>1, <3>2, <3>3, <3>4, <3>5, SMTT(30) DEF Captured
    <2>2. CASE op.pc \notin Pinning
      BY <1>1, <1>2, <1>4, <2>2 DEF Captured
    <2>3. QED
      BY <2>1, <2>2
  <1>12. CopyIsOwn'
    <2>1. CASE op.pc = "publish_copy"
      <3>1. op.pc \in Pinning
        BY <2>1 DEF Pinning, Working
      <3>2. fs'[CopyAt] = fs[CopyAt] /\ CopyAt \in Slots
        BY <1>7, <1>9, <3>1, PinnedFacts DEF CopyAt
      <3>3. /\ fs[CopyAt] # None /\ fs[CopyAt] # t.ino /\ \A s \in Slots : s # CopyAt => fs[s] # fs[CopyAt]
            /\ node[fs[CopyAt]].data = t.expected.data \/ t.ino \in foreign
        BY <1>1, <2>1 DEF CopyIsOwn
      <3>4. fs[CopyAt] \in DOMAIN node
        BY <1>1, <3>2, <3>3, Typed
      <3>5. CopyAt # PathSlot(p)
        BY <1>6, SlotsApart DEF CopyAt
      <3>6. node'[fs[CopyAt]] = node[fs[CopyAt]]
        BY <1>2, <1>6, <3>3, <3>4, <3>5
      <3>7. \A s \in Slots : s # CopyAt => fs'[s] # fs[CopyAt]
        BY <1>2, <3>3, <3>4
      <3>8. QED
        BY <1>2, <1>4, <3>2, <3>3, <3>6, <3>7 DEF CopyIsOwn
    <2>2. CASE op.pc # "publish_copy"
      BY <1>2, <2>2 DEF CopyIsOwn
    <2>3. QED
      BY <2>1, <2>2
  <1>13. QED
    BY <1>3, <1>5, <1>10, <1>11, <1>12 DEF MoveInv

-----------------------------------------------------------------------------
\* The first state

LEMMA Order ==
    ASSUME NEW used \in Populated
    PROVE  /\ Len(SetToSeq(used)) \in Nat \ {0} /\ DOMAIN SetToSeq(used) = 1 .. Len(SetToSeq(used))
           /\ \A i \in DOMAIN SetToSeq(used) : SetToSeq(used)[i] \in Paths
           /\ \A i, j \in DOMAIN SetToSeq(used) : SetToSeq(used)[i] = SetToSeq(used)[j] => i = j
  <1>1. used # {} /\ used \subseteq Paths /\ IsFiniteSet(used)
    BY BatchesAssumption
  <1>2. PICK n \in Nat : ExistsBijection(1 .. n, used)
    BY <1>1, FS_NatBijection
  <1>3. Cardinality(used) = n
    BY <1>2, FS_CountingElements
  <1>4. n # 0
    BY <1>1, <1>3, FS_EmptySet
  <1>5. \E f \in [1 .. n -> used] : IsInjective(f)
    BY <1>2, Zenon DEF ExistsBijection, Bijection, Injection
  <1> DEFINE order == SetToSeq(used)
  <1>6. order \in [1 .. n -> used] /\ IsInjective(order)
    BY <1>3, <1>5, Zenon DEF SetToSeq
  <1> HIDE DEF order
  <1>7. Len(order) = n /\ DOMAIN order = 1 .. n
    BY <1>6
  <1>8. \A i \in DOMAIN order : order[i] \in Paths
    BY <1>1, <1>6
  <1>9. QED
    BY <1>4, <1>6, <1>7, <1>8 DEF IsInjective, order

LEMMA InitDisk ==
    ASSUME Init
    PROVE  /\ node \in Seq(Nodes) /\ fs \in [Slots -> 0 .. Len(node)] /\ Len(node) \in Nat
           /\ \A m \in DOMAIN node : node[m] = [data |-> m, ctime |-> 0]
           /\ \A m \in DOMAIN node : \E s \in PathSlots : fs[s] = m
           /\ \A s \in Slots : s \notin PathSlots => fs[s] = None
  <1>1. PICK used \in Populated, linked \in BOOLEAN :
          LET order == SetToSeq(used)
          IN  /\ node = [i \in 1 .. (IF linked THEN 1 ELSE Len(order)) |-> [data |-> i, ctime |-> 0]]
              /\ fs = [s \in Slots |-> IF \E i \in DOMAIN order : s = PathSlot(order[i])
                                         THEN IF linked THEN 1
                                              ELSE CHOOSE i \in DOMAIN order : s = PathSlot(order[i])
                                         ELSE None]
    BY DEF Init
  <1> DEFINE order == SetToSeq(used)
             size == IF linked THEN 1 ELSE Len(order)
             At(s) == CHOOSE i \in DOMAIN order : s = PathSlot(order[i])
  <1>2. /\ Len(order) \in Nat \ {0} /\ DOMAIN order = 1 .. Len(order)
        /\ \A i \in DOMAIN order : order[i] \in Paths
        /\ \A i, j \in DOMAIN order : order[i] = order[j] => i = j
    BY Order
  <1>3. /\ node = [i \in 1 .. size |-> [data |-> i, ctime |-> 0]]
        /\ fs = [s \in Slots |-> IF \E i \in DOMAIN order : s = PathSlot(order[i])
                                   THEN IF linked THEN 1 ELSE At(s) ELSE None]
    BY <1>1
  <1> HIDE DEF order
  <1>4. size \in Nat \ {0} /\ size <= Len(order)
    BY <1>2
  <1>5. ASSUME NEW i \in DOMAIN order
        PROVE  /\ PathSlot(order[i]) \in PathSlots /\ PathSlot(order[i]) \in Slots
               /\ At(PathSlot(order[i])) = i
    <2>1. PathSlot(order[i]) \in PathSlots /\ PathSlot(order[i]) \in Slots
      BY <1>2, SlotKinds
    <2>2. \A j \in DOMAIN order : PathSlot(order[i]) = PathSlot(order[j]) => i = j
      BY <1>2 DEF PathSlot
    <2>3. QED
      BY <2>1, <2>2
  <1> HIDE DEF At
  <1>6. \A s \in Slots : \/ fs[s] = None
                         \/ \E i \in DOMAIN order : s = PathSlot(order[i]) /\ fs[s] = IF linked THEN 1 ELSE i
    BY <1>3, <1>5
  <1>7. \A i \in DOMAIN order : fs[PathSlot(order[i])] = IF linked THEN 1 ELSE i
    BY <1>3, <1>5
  <1>8. node \in Seq(Nodes) /\ Len(node) = size /\ DOMAIN node = 1 .. size
    <2>1. \A i \in 1 .. size : [data |-> i, ctime |-> 0] \in Nodes
      BY <1>4 DEF Nodes
    <2> HIDE DEF size
    <2>2. QED
      BY <1>3, <1>4, <2>1
  <1>9. \A m \in DOMAIN node : node[m] = [data |-> m, ctime |-> 0]
    BY <1>3, <1>8
  <1>10. fs \in [Slots -> 0 .. size]
    <2>1. \A s \in Slots : fs[s] \in 0 .. size
      BY <1>2, <1>6 DEF None
    <2>2. DOMAIN fs = Slots /\ fs = [s \in Slots |-> fs[s]]
      BY <1>3
    <2>3. QED
      BY <2>1, <2>2
  <1>11. \A m \in DOMAIN node : \E s \in PathSlots : fs[s] = m
    BY <1>2, <1>4, <1>5, <1>7, <1>8
  <1>12. \A s \in Slots : s \notin PathSlots => fs[s] = None
    BY <1>5, <1>6
  <1>13. QED
    BY <1>4, <1>8, <1>9, <1>10, <1>11, <1>12

LEMMA InitFits ==
    ASSUME Init
    PROVE  MoveInv
  <1>1. /\ journal = << >> /\ synced = 0 /\ op = Idle /\ cancelled = FALSE
        /\ gone = {} /\ foreign = {} /\ requests = 0 /\ budget = 0
    BY DEF Init
  <1>2. /\ node \in Seq(Nodes) /\ fs \in [Slots -> 0 .. Len(node)]
        /\ \A s \in Slots : s \notin PathSlots => fs[s] = None
    BY InitDisk
  <1>3. journal \in Seq(Records) /\ Len(journal) = 0 /\ DOMAIN journal = {}
    BY <1>1
  <1>4. TypeOK
    <2>1. synced \in 0 .. Len(journal) /\ requests \in 0 .. MaxRequests /\ budget \in Nat
      BY <1>1, <1>3, Budgets
    <2>2. cancelled \in BOOLEAN /\ gone \subseteq Nat /\ foreign \subseteq Nat /\ op \in Operations
      BY <1>1, Defaults
    <2>3. QED
      BY <1>2, <1>3, <2>1, <2>2 DEF TypeOK
  <1>5. op.pc = "idle" /\ op.rows = << >> /\ op.undo = None /\ DOMAIN op.rows = {}
    BY <1>1 DEF Idle
  <1>6. Control /\ RecordsFit /\ Captured /\ CopyIsOwn
    BY <1>3, <1>5 DEF Control, RecordsFit, Changes, Completed, Captured, CopyIsOwn, Pinning, Working
  <1>7. \A id \in Ids : Vacant(id)
    BY <1>2, SlotKinds, SlotsApart DEF Vacant
  <1>8. NamesAreFree
    BY <1>5, <1>7 DEF NamesAreFree
  <1>9. QED
    BY <1>4, <1>6, <1>8 DEF MoveInv

LEMMA StillFits ==
    ASSUME MoveInv, UNCHANGED vars
    PROVE  MoveInv'
  <1>1. UNCHANGED <<fs, node, journal, synced, op, cancelled, gone, foreign, requests, budget>>
    BY DEF vars
  <1>2. TypeOK' /\ Control' /\ RecordsFit'
    BY <1>1, FitsUnchanged DEF MoveInv, TypeOK, Control, Used
  <1>3. Captured' /\ CopyIsOwn'
    BY <1>1 DEF MoveInv, Captured, CopyIsOwn, CaptureAt, CopyAt, row, t
  <1>4. NamesAreFree'
    BY <1>1 DEF MoveInv, NamesAreFree, Untouched, Vacant, Used, CopyAt, row
  <1>5. QED
    BY <1>2, <1>3, <1>4 DEF MoveInv

LEMMA TransferFits ==
    ASSUME MoveInv, Transfer
    PROVE  MoveInv'
  BY CaptureFits, AuthorizeFits, TrashFits, PublishFits, CopyFits, PublishCopyFits, RemoveCapturedFits,
     RestoreFits, Zenon DEF Transfer

\* The steps of Next, each for itself.
LEMMA Steps ==
    ASSUME Next
    PROVE  \/ \E action \in {"move", "copy", "trash"}, policy \in {"stop", "skip"}, batch \in Batches,
                 keeper \in Paths \cup {None} : Request(action, policy, batch, keeper)
           \/ Undo \/ Cancel \/ Crash
           \/ Preview \/ Intents \/ Skip \/ StartRow \/ Transfer \/ RecordChange \/ RecordResult \/ Finish
           \/ UndoIntent \/ RecordUndo
           \/ \E p \in Paths : ReplaceFile(p) \/ RemoveFile(p) \/ ModifyFile(p) \/ TouchFile(p)
  <1> DEFINE Asked == \E action \in {"move", "copy", "trash"}, policy \in {"stop", "skip"}, batch \in Batches,
                        keeper \in Paths \cup {None} : Request(action, policy, batch, keeper)
  <1>1. ASSUME NEW action \in {"move", "copy", "trash"}, NEW policy \in {"stop", "skip"},
               NEW batch \in Batches, Request(action, policy, batch, None)
        PROVE  Asked
    <2>1. None \in Paths \cup {None}
      OBVIOUS
    <2>2. QED
      BY <1>1, <2>1, Zenon
  <1>2. ASSUME NEW batch \in Batches, NEW keeper \in Paths, Request("trash", "stop", batch, keeper)
        PROVE  Asked
    <2>1. "trash" \in {"move", "copy", "trash"} /\ "stop" \in {"stop", "skip"} /\ keeper \in Paths \cup {None}
      OBVIOUS
    <2>2. QED
      BY <1>2, <2>1, Zenon
  <1> HIDE DEF Asked
  <1>3. \/ Asked \/ Undo \/ Cancel \/ Service \/ Crash
        \/ \E p \in Paths : ReplaceFile(p) \/ RemoveFile(p) \/ ModifyFile(p) \/ TouchFile(p)
    BY <1>1, <1>2, Zenon DEF Next
  <1>4. QED
    BY <1>3, Zenon DEF Service, Asked

LEMMA StepFits ==
    ASSUME MoveInv, [Next]_vars
    PROVE  MoveInv'
  <1>1. CASE Next
    <2>1. TypeOK
      BY DEF MoveInv
    <2>2. ASSUME NEW p \in Paths, ReplaceFile(p) \/ RemoveFile(p) \/ ModifyFile(p) \/ TouchFile(p)
          PROVE  MoveInv'
      BY <2>1, <2>2, OthersAct, OthersFit, Zenon
    <2>3. ASSUME NEW action \in {"move", "copy", "trash"}, NEW policy \in {"stop", "skip"},
                 NEW batch \in Batches, NEW keeper \in Paths \cup {None},
                 Request(action, policy, batch, keeper)
          PROVE  MoveInv'
      BY <2>3, RequestFits, Zenon
    <2>4. QED
      BY <1>1, <2>2, <2>3, Steps, UndoFits, CancelFits, CrashFits, PreviewFits, IntentsFit, SkipFits,
         StartRowFits, TransferFits, RecordChangeFits, RecordResultFits, FinishFits, UndoIntentFits,
         RecordUndoFits, Zenon
  <1>2. CASE UNCHANGED vars
    BY <1>2, StillFits
  <1>3. QED
    BY <1>1, <1>2

\* Wherever a request stands, its rows own their private names, what it pinned is
\* what it captured, and a finished copy is the copy of that object, whatever
\* other programs do (OperationTransfer.perform, performChecked, undoChecked).
THEOREM FilesStayInOrder == Spec => []MoveInv
  <1>1. Init => MoveInv
    BY InitFits
  <1>2. MoveInv /\ [Next]_vars => MoveInv'
    BY StepFits
  <1>3. QED
    BY <1>1, <1>2, PTL DEF Spec

-----------------------------------------------------------------------------
\* What a step puts at a path or in the Trash

LEMMA TransferReviewed ==
    ASSUME MoveInv, Transfer, op.pc # "restore", NEW s \in Slots, s[1] \in {"path", "trash"},
           fs'[s] # fs[s], fs'[s] # None
    PROVE  \/ fs'[s] = t.expected.ino
           \/ /\ fs'[s] = fs[CopyAt]
              /\ node[fs[CopyAt]].data = t.expected.data \/ t.expected.ino \in foreign
  <1>1. op.pc \in Pinning
    BY DEF Transfer, Capture, Authorize, Trash, Publish, Copy, PublishCopy, RemoveCaptured, Restore,
           Pinning, Working
  <1>2. /\ TypeOK /\ Control /\ op.i \in DOMAIN op.rows /\ t.expected.ino = t.ino /\ t.dst = row.dst
        /\ t.ino # None /\ t.ino \in DOMAIN node
    BY <1>1, PinnedFacts
  <1>3. /\ {CaptureAt, CopyAt, row.src, row.dst} \subseteq Slots
        /\ row.src # CaptureAt /\ row.dst \notin {CaptureAt, CopyAt} /\ s \notin {CaptureAt, CopyAt}
    BY <1>2, OwnSlots
  <1>4. CASE Capture
    <2>1. CanRename(row.src, CaptureAt) /\ Rename(row.src, CaptureAt)
      BY <1>4 DEF Capture, disk
    <2>2. fs'[row.src] = None /\ \A x \in Slots : x \notin {row.src, CaptureAt} => fs'[x] = fs[x]
      BY <1>2, <1>3, <2>1, Renaming DEF CanRename
    <2>3. QED
      BY <1>3, <2>2
  <1>5. CASE Trash \/ Publish
    <2>1. Rename(CaptureAt, t.dst) /\ op.pc \in {"trash", "publish"}
      BY <1>5 DEF Trash, Publish, disk
    <2>2. fs[CaptureAt] = t.ino
      BY <1>1, <2>1 DEF MoveInv, Captured
    <2>3. fs'[row.dst] = t.ino /\ \A x \in Slots : x \notin {CaptureAt, row.dst} => fs'[x] = fs[x]
      BY <1>2, <1>3, <2>1, <2>2, Renaming
    <2>4. QED
      BY <1>2, <1>3, <2>3
  <1>6. CASE PublishCopy
    <2>1. Rename(CopyAt, t.dst) /\ op.pc = "publish_copy"
      BY <1>6 DEF PublishCopy, disk
    <2>2. fs[CopyAt] # None /\ (node[fs[CopyAt]].data = t.expected.data \/ t.ino \in foreign)
      BY <2>1 DEF MoveInv, CopyIsOwn
    <2>3. fs'[row.dst] = fs[CopyAt] /\ \A x \in Slots : x \notin {CopyAt, row.dst} => fs'[x] = fs[x]
      BY <1>2, <1>3, <2>1, <2>2, Renaming
    <2>4. QED
      BY <1>2, <1>3, <2>2, <2>3
  <1>7. CASE Copy
    <2>1. fs' = fs \/ fs' = [fs EXCEPT ![CopyAt] = Len(node) + 1]
      BY <1>7, Zenon DEF Copy, disk
    <2>2. QED
      BY <1>2, <1>3, <2>1, Typed
  <1>8. CASE RemoveCaptured
    <2>1. fs' = fs \/ fs' = [fs EXCEPT ![CaptureAt] = None]
      BY <1>8, Zenon DEF RemoveCaptured
    <2>2. QED
      BY <1>2, <1>3, <2>1, Typed
  <1>9. CASE Authorize \/ Restore
    BY <1>9 DEF Authorize, Restore, disk
  <1>10. QED
    BY <1>4, <1>5, <1>6, <1>7, <1>8, <1>9 DEF Transfer

\* An operation publishes or trashes only the reviewed object or its copy,
\* although rename takes whatever is at the source (OperationTransfer.perform).
THEOREM OnlyReviewedIsMoved == Spec => OnlyReviewedMoved
  <1> DEFINE Reviewed ==
        op' # op /\ op.pc # "restore" =>
          \A s \in Slots : s[1] \in {"path", "trash"} /\ fs'[s] # fs[s] /\ fs'[s] # None =>
            \/ fs'[s] = t.expected.ino
            \/ /\ fs'[s] = fs[CopyAt]
               /\ node[fs[CopyAt]].data = t.expected.data \/ t.expected.ino \in foreign
  <1>1. MoveInv /\ [Next]_vars => [Reviewed]_vars
    <2> SUFFICES ASSUME MoveInv, Next PROVE Reviewed
      BY Zenon
    <2>1. CASE Transfer
      BY <2>1, TransferReviewed, Zenon
    <2>2. CASE fs' = fs \/ op' = op
      BY <2>2, Zenon
    <2>3. \/ Transfer \/ fs' = fs \/ op' = op
      <3>1. Undo \/ Cancel \/ Crash \/ Preview \/ Intents \/ Skip \/ StartRow \/ RecordChange \/ RecordResult
              \/ Finish \/ UndoIntent \/ RecordUndo => fs' = fs
        BY DEF Undo, Cancel, Crash, Preview, Intents, Skip, StartRow, RecordChange, RecordResult, Finish,
               UndoIntent, RecordUndo, disk
      <3>2. ASSUME NEW action, NEW policy, NEW batch, NEW keeper, Request(action, policy, batch, keeper)
            PROVE  fs' = fs
        BY <3>2 DEF Request, disk
      <3>3. ASSUME NEW p \in Paths, ReplaceFile(p) \/ RemoveFile(p) \/ ModifyFile(p) \/ TouchFile(p)
            PROVE  op' = op
        BY <3>3 DEF ReplaceFile, RemoveFile, ModifyFile, TouchFile
      <3>4. QED
        BY <3>1, <3>2, <3>3, Steps, Zenon
    <2>4. QED
      BY <2>1, <2>2, <2>3
  <1>2. QED
    BY <1>1, FilesStayInOrder, PTL DEF Spec, OnlyReviewedMoved

-----------------------------------------------------------------------------
\* What private storage holds, the synchronized journal names

LEMMA DurableGrows ==
    ASSUME TypeOK, TypeOK', synced <= synced', \A j \in 1 .. synced : journal'[j] = journal[j]
    PROVE  Durable \subseteq Durable'
  <1>1. synced \in Nat /\ synced' \in Nat
    BY Typed DEF TypeOK
  <1>2. SUFFICES ASSUME NEW s \in Durable PROVE s \in Durable'
    OBVIOUS
  <1>3. PICK j \in 1 .. synced : s \in journal[j].paths
    BY <1>2 DEF Durable
  <1>4. j \in 1 .. synced' /\ s \in journal'[j].paths
    BY <1>1, <1>3
  <1>5. QED
    BY <1>4 DEF Durable

LEMMA NamesStay ==
    ASSUME NamesAreDurable, Durable \subseteq Durable',
           op'.pc \in Started => /\ op.pc \in Started /\ op'.rows = op.rows
                                 /\ op'.action = op.action /\ op'.undo = op.undo,
           \A s \in Slots : s[1] \in {"capture", "copy"} /\ fs'[s] # None => fs[s] # None \/ s \in Durable
    PROVE  NamesAreDurable'
  <1>1. \A s \in Slots : s[1] \in {"capture", "copy"} /\ fs'[s] # None => s \in Durable'
    BY DEF NamesAreDurable
  <1>2. ASSUME op'.pc \in Started, NEW j \in DOMAIN op'.rows
        PROVE  /\ op'.action # "copy" => CaptureSlot(op'.rows[j].id) \in Durable'
               /\ (IF op'.undo = None THEN op'.action # "trash" ELSE op'.rows[j].device # op'.rows[j].to)
                    => CopySlot(op'.rows[j].id) \in Durable'
    BY <1>2 DEF NamesAreDurable
  <1>3. QED
    BY <1>1, <1>2 DEF NamesAreDurable

\* Steps that leave the journal alone.
LEMMA SameDurable ==
    ASSUME UNCHANGED <<journal, synced>>
    PROVE  Durable \subseteq Durable'
  BY DEF Durable

LEMMA TransferIsQuiet ==
    ASSUME MoveInv, Transfer
    PROVE  /\ UNCHANGED <<journal, synced, gone, foreign, requests>> /\ op.pc \in Working
           /\ op'.rows = op.rows /\ op'.action = op.action /\ op'.undo = op.undo /\ op'.i = op.i
           /\ op'.pc \in Working /\ row' = row /\ CaptureAt' = CaptureAt /\ CopyAt' = CopyAt
           /\ t'.ino = t.ino /\ t'.expected = t.expected /\ op'.pc \notin {"undo_intent", "capture"}
           /\ op'.pc = "authorize" => op.pc = "capture"
           /\ op'.pc \in {"trash", "publish"} => op.pc = "authorize"
           /\ op'.pc = "copy" => op.pc = "authorize"
           /\ op'.pc = "publish_copy" => op.pc = "copy" /\ t'.captured = t.captured
           /\ op'.pc = "remove" => op.pc = "publish_copy" /\ t'.captured = t.captured /\ t.captured
  <1>1. op.pc \in Working /\ op.pc \in Pinning /\ UNCHANGED <<journal, synced, gone, foreign, requests>>
    BY DEF Transfer, Capture, Authorize, Trash, Publish, Copy, PublishCopy, RemoveCaptured, Restore,
           Pinning, Working, log, seen, counters
  <1>2. op \in Operations /\ t \in Handles /\ t = op.t
    BY <1>1, PinnedFacts
  <1>3. ASSUME NEW q, NEW h, op' = [op EXCEPT !.pc = q, !.t = h], q \in Working
        PROVE  /\ op'.rows = op.rows /\ op'.action = op.action /\ op'.undo = op.undo /\ op'.i = op.i
               /\ op'.pc = q /\ t' = h /\ row' = row /\ CaptureAt' = CaptureAt /\ CopyAt' = CopyAt
    <2>1. /\ op'.rows = op.rows /\ op'.action = op.action /\ op'.undo = op.undo /\ op'.i = op.i
          /\ op'.pc = q /\ op'.t = h
      BY <1>2, <1>3 DEF Operations
    <2>2. QED
      BY <2>1 DEF row, t, CaptureAt, CopyAt
  <1>4. CASE Fail
    <2> DEFINE h == [t EXCEPT !.error = TRUE]
    <2>1. op' = [op EXCEPT !.pc = "restore", !.t = h] /\ "restore" \in Working
      BY <1>2, <1>4 DEF Fail, Operations, Working
    <2>2. h.ino = t.ino /\ h.expected = t.expected
      BY <1>2 DEF Handles
    <2> HIDE DEF h
    <2>3. /\ op'.rows = op.rows /\ op'.action = op.action /\ op'.undo = op.undo /\ op'.i = op.i
          /\ op'.pc = "restore" /\ t' = h /\ row' = row /\ CaptureAt' = CaptureAt /\ CopyAt' = CopyAt
      BY <1>3, <2>1, Zenon
    <2>4. QED
      BY <1>1, <2>1, <2>2, <2>3
  <1>5. CASE Capture /\ ~Fail
    <2>1. op' = [op EXCEPT !.pc = "authorize", !.t = [t EXCEPT !.captured = TRUE]] /\ op.pc = "capture"
      BY <1>2, <1>5 DEF Capture, Operations
    <2>2. [t EXCEPT !.captured = TRUE].ino = t.ino /\ [t EXCEPT !.captured = TRUE].expected = t.expected
      BY <1>2 DEF Handles
    <2>3. QED
      BY <1>1, <1>3, <2>1, <2>2, ZenonT(40) DEF Working
  <1>6. CASE Authorize /\ ~Fail
    <2>1. PICK q \in {"trash", "publish", "copy"} : op' = [op EXCEPT !.pc = q, !.t = t]
      BY <1>2, <1>6, ZenonT(40) DEF Authorize, Goto, Operations
    <2>2. q \in Working /\ op.pc = "authorize"
      BY <1>6 DEF Working, Authorize
    <2>3. QED
      BY <1>1, <1>3, <2>1, <2>2
  <1>7. CASE Trash /\ ~Fail
    <2>0. PICK q \in {"change", "restore"} : \E d, e :
               op' = [op EXCEPT !.pc = q, !.t = [t EXCEPT !.captured = FALSE, !.done = d, !.error = e]]
      <3>1. CASE op' = [op EXCEPT !.pc = "change", !.t.captured = FALSE, !.t.done = Moved(fs[CaptureAt])]
        <4>1. op' = [op EXCEPT !.pc = "change", !.t = [t EXCEPT !.captured = FALSE, !.done = Moved(fs[CaptureAt]), !.error = t.error]]
          BY <1>2, <3>1 DEF Operations, Handles
        <4>2. QED
          BY <4>1
      <3>2. CASE op' = [op EXCEPT !.pc = "restore", !.t.captured = FALSE, !.t.error = TRUE]
        <4>1. op' = [op EXCEPT !.pc = "restore", !.t = [t EXCEPT !.captured = FALSE, !.done = t.done, !.error = TRUE]]
          BY <1>2, <3>2 DEF Operations, Handles
        <4>2. QED
          BY <4>1
      <3>3. QED
        BY <1>7, <3>1, <3>2 DEF Trash
    <2>1. PICK d, e : op' = [op EXCEPT !.pc = q, !.t = [t EXCEPT !.captured = FALSE, !.done = d, !.error = e]]
      BY <2>0
    <2> DEFINE h == [t EXCEPT !.captured = FALSE, !.done = d, !.error = e]
    <2>2. h.ino = t.ino /\ h.expected = t.expected
      BY <1>2 DEF Handles
    <2>3. q \in Working
      BY DEF Working
    <2> HIDE DEF h
    <2>4. op' = [op EXCEPT !.pc = q, !.t = h]
      BY <2>1 DEF h
    <2>5. QED
      BY <1>1, <1>3, <2>2, <2>3, <2>4
  <1>8. CASE Publish /\ ~Fail
    <2> DEFINE h == [t EXCEPT !.captured = FALSE, !.done = Moved(t.ino)]
    <2>1. op' = [op EXCEPT !.pc = "change", !.t = h] /\ "change" \in Working
      BY <1>2, <1>8 DEF Publish, Operations, Working
    <2>2. h.ino = t.ino /\ h.expected = t.expected
      BY <1>2 DEF Handles
    <2> HIDE DEF h
    <2>3. /\ op'.rows = op.rows /\ op'.action = op.action /\ op'.undo = op.undo /\ op'.i = op.i
          /\ op'.pc = "change" /\ t' = h /\ row' = row /\ CaptureAt' = CaptureAt /\ CopyAt' = CopyAt
      BY <1>3, <2>1, Zenon
    <2>4. QED
      BY <1>1, <2>1, <2>2, <2>3
  <1>9. CASE Copy /\ ~Fail
    <2> DEFINE h == [t EXCEPT !.output = TRUE]
    <2>1. op' = [op EXCEPT !.pc = "publish_copy", !.t = h] /\ "publish_copy" \in Working /\ op.pc = "copy"
      BY <1>2, <1>9 DEF Copy, Operations, Working
    <2>2. h.ino = t.ino /\ h.expected = t.expected /\ h.captured = t.captured
      BY <1>2 DEF Handles
    <2> HIDE DEF h
    <2>3. QED
      BY <1>1, <1>3, <2>1, <2>2
  <1>10. CASE PublishCopy /\ ~Fail
    <2> DEFINE h == [t EXCEPT !.output = FALSE, !.done = Moved(fs[CopyAt])]
               q == IF t.captured THEN "remove" ELSE "change"
    <2>1. op' = [op EXCEPT !.pc = q, !.t = h] /\ q \in Working /\ op.pc = "publish_copy"
      BY <1>2, <1>10 DEF PublishCopy, Operations, Working
    <2>2. h.ino = t.ino /\ h.expected = t.expected /\ h.captured = t.captured
      BY <1>2 DEF Handles
    <2>3. q \in {"remove", "change"} /\ (q = "remove" => t.captured)
      OBVIOUS
    <2> HIDE DEF h, q
    <2>4. QED
      BY <1>1, <1>3, <2>1, <2>2, <2>3
  <1>11. CASE RemoveCaptured /\ ~Fail
    <2> DEFINE h == [t EXCEPT !.captured = FALSE]
    <2>1. op' = [op EXCEPT !.pc = "change", !.t = h] /\ "change" \in Working
      BY <1>2, <1>11 DEF RemoveCaptured, Operations, Working
    <2>2. h.ino = t.ino /\ h.expected = t.expected
      BY <1>2 DEF Handles
    <2> HIDE DEF h
    <2>3. /\ op'.rows = op.rows /\ op'.action = op.action /\ op'.undo = op.undo /\ op'.i = op.i
          /\ op'.pc = "change" /\ t' = h /\ row' = row /\ CaptureAt' = CaptureAt /\ CopyAt' = CopyAt
      BY <1>3, <2>1, Zenon
    <2>4. QED
      BY <1>1, <2>1, <2>2, <2>3
  <1>12. CASE Restore
    <2> DEFINE g == [t EXCEPT !.captured = FALSE]
    <2>1. /\ op' = [op EXCEPT !.pc = "change", !.t = g] \/ op' = [op EXCEPT !.pc = "change", !.t = t]
          /\ "change" \in Working
      BY <1>2, <1>12 DEF Restore, Goto, Operations, Working
    <2>2. g.ino = t.ino /\ g.expected = t.expected
      BY <1>2 DEF Handles
    <2> HIDE DEF g
    <2>3. PICK h \in {g, t} : op' = [op EXCEPT !.pc = "change", !.t = h]
      BY <2>1
    <2>4. /\ op'.rows = op.rows /\ op'.action = op.action /\ op'.undo = op.undo /\ op'.i = op.i
          /\ op'.pc = "change" /\ t' = h /\ row' = row /\ CaptureAt' = CaptureAt /\ CopyAt' = CopyAt
      BY <1>3, <2>1, <2>3, Zenon
    <2>5. QED
      BY <1>1, <2>1, <2>2, <2>3, <2>4
  <1>13. QED
    BY <1>4, <1>5, <1>6, <1>7, <1>8, <1>9, <1>10, <1>11, <1>12 DEF Transfer

LEMMA TransferNames ==
    ASSUME MoveInv, NamesAreDurable, Transfer
    PROVE  NamesAreDurable'
  <1>1. /\ op.pc \in Working /\ op.pc \in Pinning /\ op.pc \in Started /\ UNCHANGED <<journal, synced>>
        /\ op'.rows = op.rows /\ op'.action = op.action /\ op'.undo = op.undo
    BY TransferIsQuiet DEF Pinning, Started
  <1>2. /\ TypeOK /\ Control /\ op.i \in DOMAIN op.rows /\ t.dst = row.dst
        /\ t.ino \in DOMAIN node /\ t.ino # None
    BY <1>1, PinnedFacts
  <1>3. /\ {CaptureAt, CopyAt, row.src, row.dst} \subseteq Slots
        /\ row.src # CaptureAt /\ row.dst \notin {CaptureAt, CopyAt}
        /\ \A s \in Slots : s[1] = "capture" \/ s[1] = "copy" => s \notin {row.src, row.dst}
    BY <1>2, OwnSlots
  <1>4. /\ op.action # "copy" => CaptureAt \in Durable
        /\ (IF op.undo = None THEN op.action # "trash" ELSE row.device # row.to) => CopyAt \in Durable
    BY <1>1, <1>2 DEF NamesAreDurable, CaptureAt, CopyAt, row
  <1>5. \A s \in Slots : s[1] \in {"capture", "copy"} /\ fs'[s] # None => fs[s] # None \/ s \in Durable
    <2>1. CASE fs' = fs
      BY <2>1
    <2>2. CASE op.pc = "capture" /\ CanRename(row.src, CaptureAt) /\ Rename(row.src, CaptureAt)
      <3>1. \A x \in Slots : x \notin {row.src, CaptureAt} => fs'[x] = fs[x]
        BY <1>2, <1>3, <2>2, Renaming DEF CanRename
      <3>2. CaptureAt \in Durable
        BY <1>1, <1>4, <2>2 DEF MoveInv, Captured
      <3>3. QED
        BY <1>3, <3>1, <3>2
    <2>3. CASE op.pc = "copy" /\ fs' = [fs EXCEPT ![CopyAt] = Len(node) + 1]
      <3>1. CopyAt \in Durable
        BY <1>1, <1>2, <1>4, <2>3 DEF MoveInv, Captured, Control
      <3>2. QED
        BY <1>2, <1>3, <2>3, <3>1, Typed
    <2>4. CASE op.pc = "publish_copy" /\ CanRename(CopyAt, t.dst) /\ Rename(CopyAt, t.dst)
      <3>1. fs'[CopyAt] = None /\ \A x \in Slots : x \notin {row.dst, CopyAt} => fs'[x] = fs[x]
        BY <1>2, <1>3, <2>4, Renaming DEF CanRename
      <3>2. QED
        BY <1>3, <3>1
    <2>5. CASE op.pc \in {"trash", "publish"} /\ Rename(CaptureAt, t.dst)
      <3>1. fs[CaptureAt] # None
        BY <1>1, <1>2, <2>5 DEF MoveInv, Captured
      <3>2. fs'[CaptureAt] = None /\ \A x \in Slots : x \notin {row.dst, CaptureAt} => fs'[x] = fs[x]
        BY <1>2, <1>3, <2>5, <3>1, Renaming
      <3>3. QED
        BY <1>3, <3>2
    <2>6. CASE CanRename(CaptureAt, row.src) /\ Rename(CaptureAt, row.src)
      <3>1. fs'[CaptureAt] = None /\ \A x \in Slots : x \notin {row.src, CaptureAt} => fs'[x] = fs[x]
        BY <1>2, <1>3, <2>6, Renaming DEF CanRename
      <3>2. QED
        BY <1>3, <3>1
    <2>7. CASE fs' = [fs EXCEPT ![CaptureAt] = None]
      BY <1>2, <1>3, <2>7, Typed
    <2>8. QED
      BY <2>1, <2>2, <2>3, <2>4, <2>5, <2>6, <2>7, Zenon
         DEF Transfer, Capture, Authorize, Trash, Publish, Copy, PublishCopy, RemoveCaptured, Restore, disk
  <1>6. Durable \subseteq Durable'
    BY <1>1, SameDurable
  <1>7. QED
    BY <1>1, <1>5, <1>6, NamesStay

LEMMA IntentsNames ==
    ASSUME MoveInv, MoveInv', NamesAreDurable, Intents
    PROVE  NamesAreDurable'
  <1>1. TypeOK /\ TypeOK' /\ Control /\ op \in Operations /\ synced \in 0 .. Len(journal)
        /\ Len(journal) \in Nat /\ op.pc = "intents" /\ UNCHANGED fs /\ op.undo = None
    BY Typed DEF MoveInv, TypeOK, Intents, Control, disk
  <1>2. ASSUME NEW n \in 0 .. Len(op.rows), journal' = journal \o [i \in 1 .. n |-> Intent(op.rows[i])],
               synced' \in {synced, Len(journal')}
        PROVE  Durable \subseteq Durable'
    <2> DEFINE r == [i \in 1 .. n |-> Intent(op.rows[i])]
    <2>1. r \in Seq(Records)
      BY <1>1, IntentsTyped
    <2> HIDE DEF r
    <2>2. journal' = journal \o r
      BY <1>2 DEF r
    <2>3. DOMAIN journal \subseteq DOMAIN journal' /\ \A j \in DOMAIN journal : journal'[j] = journal[j]
          /\ Len(journal') = Len(journal) + Len(r) /\ Len(r) \in Nat
      BY <1>1, <2>1, <2>2, Joining
    <2>4. synced <= synced' /\ \A j \in 1 .. synced : journal'[j] = journal[j]
      BY <1>1, <1>2, <2>3, Typed
    <2>5. QED
      BY <1>1, <2>4, DurableGrows
  <1>3. CASE End
    <2>1. op'.pc \notin Started
      BY <1>3 DEF End, Idle, Started, Working
    <2>2. Durable \subseteq Durable'
      <3>1. Len(op.rows) \in 0 .. Len(op.rows) /\ DOMAIN op.rows = 1 .. Len(op.rows)
        BY <1>1, Typed
      <3>2. PICK n \in 0 .. Len(op.rows) :
              /\ journal' = journal \o [i \in 1 .. n |-> Intent(op.rows[i])]
              /\ synced' \in {synced, Len(journal')}
        BY <3>1, Zenon DEF Intents, Sync
      <3>3. QED
        BY <1>2, <3>2
    <2>3. QED
      BY <1>1, <2>1, <2>2, NamesStay
  <1>4. CASE /\ journal' = journal \o [i \in DOMAIN op.rows |-> Intent(op.rows[i])] /\ Sync /\ Goto("row")
    <2> DEFINE r == [i \in DOMAIN op.rows |-> Intent(op.rows[i])]
    <2>1. DOMAIN op.rows = 1 .. Len(op.rows) /\ Len(op.rows) \in 0 .. Len(op.rows)
      BY <1>1, Typed
    <2>2. Durable \subseteq Durable'
      BY <1>2, <1>4, <2>1 DEF Sync
    <2>3. op'.rows = op.rows /\ op'.action = op.action /\ op'.undo = None
      BY <1>1, <1>4 DEF Goto, Operations
    <2>4. ASSUME NEW j \in DOMAIN op.rows PROVE Intent(op.rows[j]).paths \subseteq Durable'
      <3>1. r \in Seq(Records) /\ DOMAIN r = DOMAIN op.rows /\ r[j] = Intent(op.rows[j])
        BY <1>1, <2>1, IntentsTyped
      <3> HIDE DEF r
      <3>2. journal' = journal \o r
        BY <1>4 DEF r
      <3>3. /\ Len(journal) + j \in DOMAIN journal' /\ journal'[Len(journal) + j] = r[j]
            /\ DOMAIN journal' = 1 .. Len(journal')
        BY <1>1, <3>1, <3>2, Joining
      <3>4. Len(journal) + j \in 1 .. synced' /\ journal'[Len(journal) + j].paths = Intent(op.rows[j]).paths
        BY <1>4, <3>1, <3>3 DEF Sync
      <3>5. QED
        BY <3>4 DEF Durable
    <2>5. ASSUME NEW j \in DOMAIN op.rows
          PROVE  /\ op.action # "copy" => CaptureSlot(op.rows[j].id) \in Durable'
                 /\ op.action # "trash" => CopySlot(op.rows[j].id) \in Durable'
      <3>1. op.rows[j] \in Rows
        BY <1>1, Typed
      <3>2. QED
        BY <1>1, <2>4, <3>1, IntentTyped
    <2>6. \A s \in Slots : s[1] \in {"capture", "copy"} /\ fs'[s] # None => s \in Durable'
      BY <1>1, <2>2 DEF NamesAreDurable
    <2>7. QED
      BY <2>3, <2>5, <2>6 DEF NamesAreDurable
  <1>5. QED
    BY <1>3, <1>4, Zenon DEF Intents

LEMMA UndoIntentNames ==
    ASSUME MoveInv, MoveInv', NamesAreDurable, UndoIntent
    PROVE  NamesAreDurable'
  <1>1. op.pc = "undo_intent" /\ op.pc \in Pinning /\ UNCHANGED fs
    BY DEF UndoIntent, Pinning, disk
  <1>2. /\ TypeOK /\ TypeOK' /\ Control /\ op \in Operations /\ op.i \in DOMAIN op.rows /\ Len(journal) \in Nat
        /\ synced \in 0 .. Len(journal) /\ op.undo \in Nat
    BY <1>1, PinnedFacts, Typed DEF MoveInv, TypeOK, Operations
  <1>3. DOMAIN op.rows = {op.i} /\ op.undo # None
    BY <1>1, <1>2 DEF Control
  <1> DEFINE names == {CaptureAt} \cup (IF row.device = row.to THEN {} ELSE {CopyAt})
             r == [Record("undo_intent", op.undo) EXCEPT !.paths = names]
  <1>4. CASE journal' = Append(journal, r) /\ Sync /\ Goto("capture")
    <2>1. names \in SUBSET Slots
      BY <1>2, OwnSlots
    <2>2. Record("undo_intent", op.undo) \in Records
      BY <1>2, RecordTyped
    <2>3. r \in Records /\ r.paths = names
      BY <2>1, <2>2 DEF Records
    <2> HIDE DEF r
    <2>4. /\ Len(journal') = Len(journal) + 1 /\ journal'[Len(journal) + 1] = r
          /\ \A j \in DOMAIN journal : journal'[j] = journal[j]
      BY <1>2, <1>4, <2>3, Appending
    <2>5. synced' = Len(journal) + 1 /\ synced <= synced' /\ Len(journal) + 1 \in 1 .. synced'
          /\ \A j \in 1 .. synced : journal'[j] = journal[j]
      BY <1>2, <1>4, <2>4, Typed DEF Sync
    <2>6. Durable \subseteq Durable' /\ names \subseteq Durable'
      <3>1. Durable \subseteq Durable'
        BY <1>2, <2>5, DurableGrows
      <3>2. journal'[Len(journal) + 1].paths = names
        BY <2>3, <2>4
      <3>3. QED
        BY <2>5, <3>1, <3>2 DEF Durable
    <2>7. op'.rows = op.rows /\ op'.action = op.action /\ op'.undo = op.undo
      BY <1>2, <1>4 DEF Goto, Operations
    <2>8. CaptureAt \in Durable' /\ (row.device # row.to => CopyAt \in Durable')
      BY <2>6
    <2>9. \A s \in Slots : s[1] \in {"capture", "copy"} /\ fs'[s] # None => s \in Durable'
      BY <1>1, <2>6 DEF NamesAreDurable
    <2>10. QED
      BY <1>3, <2>7, <2>8, <2>9 DEF NamesAreDurable, CaptureAt, CopyAt, row
  <1>5. CASE End /\ UNCHANGED log
    <2>1. op'.pc \notin Started
      BY <1>5 DEF End, Idle, Started, Working
    <2>2. Durable \subseteq Durable'
      BY <1>5, SameDurable DEF log
    <2>3. QED
      BY <1>1, <2>1, <2>2, NamesStay
  <1>6. QED
    BY <1>4, <1>5, Zenon DEF UndoIntent

\* The other steps fill no private name and forget no synchronized record.
LEMMA OtherNames ==
    ASSUME MoveInv, MoveInv', NamesAreDurable,
           \A s \in Slots : s[1] \in {"capture", "copy"} => fs'[s] = fs[s],
           op'.pc \in Started => /\ op.pc \in Started /\ op'.rows = op.rows
                                 /\ op'.action = op.action /\ op'.undo = op.undo,
           synced <= synced', \A j \in 1 .. synced : journal'[j] = journal[j]
    PROVE  NamesAreDurable'
  <1>1. Durable \subseteq Durable'
    BY DurableGrows DEF MoveInv
  <1>2. QED
    BY <1>1, NamesStay

LEMMA BatchKeepsJournal ==
    ASSUME MoveInv, MoveInv',
           Skip \/ StartRow \/ RecordChange \/ RecordResult \/ Finish \/ RecordUndo \/ Preview \/ Cancel
             \/ Crash \/ Undo
    PROVE  /\ UNCHANGED fs /\ synced <= synced' /\ \A j \in 1 .. synced : journal'[j] = journal[j]
           /\ op'.pc \in Started => /\ op.pc \in Started /\ op'.rows = op.rows
                                    /\ op'.action = op.action /\ op'.undo = op.undo
  <1>1. /\ TypeOK /\ TypeOK' /\ journal \in Seq(Records) /\ Len(journal) \in Nat /\ DOMAIN journal = 1 .. Len(journal)
        /\ synced \in 0 .. Len(journal) /\ op \in Operations
    BY Typed DEF MoveInv, TypeOK
  <1>2. UNCHANGED fs
    BY DEF Skip, StartRow, RecordChange, RecordResult, Finish, RecordUndo, Preview, Cancel, Crash, Undo, disk
  <1>3. op'.pc \in Started => /\ op.pc \in Started /\ op'.rows = op.rows
                              /\ op'.action = op.action /\ op'.undo = op.undo
    <2>1. CASE End
      BY <2>1 DEF End, Idle, Started, Working
    <2>2. CASE Cancel
      BY <2>2 DEF Cancel
    <2>3. CASE Undo
      <3>1. op'.pc = "undo_intent"
        BY <2>3 DEF Undo, Idle
      <3>2. QED
        BY <3>1 DEF Started, Working
    <2>4. CASE Preview /\ ~End
      <3>1. op'.pc = "intents"
        BY <1>1, <2>4 DEF Preview, Operations
      <3>2. QED
        BY <3>1 DEF Started, Working
    <2>5. CASE Skip \/ StartRow \/ RecordChange \/ RecordResult
      <3>1. op.pc \in Started
        BY <2>5 DEF Skip, StartRow, RecordChange, RecordResult, Started, Working
      <3>2. CASE Skip
        BY <1>1, <3>1, <3>2 DEF Skip, Operations
      <3>3. CASE StartRow
        BY <1>1, <3>1, <3>3 DEF StartRow, Operations
      <3>4. CASE RecordChange
        BY <1>1, <3>1, <3>4 DEF RecordChange, Operations, Goto
      <3>5. CASE RecordResult
        BY <1>1, <3>1, <3>5 DEF RecordResult, Operations
      <3>6. QED
        BY <2>5, <3>2, <3>3, <3>4, <3>5
    <2>6. QED
      BY <2>1, <2>2, <2>3, <2>4, <2>5 DEF Finish, RecordUndo, Crash
  <1>4. CASE UNCHANGED <<journal, synced>>
    BY <1>1, <1>2, <1>3, <1>4
  <1>5. CASE UNCHANGED journal /\ synced' = Len(journal)
    BY <1>1, <1>2, <1>3, <1>5
  <1>6. CASE \E r : journal' = Append(journal, r) /\ synced' \in {synced, Len(journal')}
    <2>1. PICK r : journal' = Append(journal, r) /\ synced' \in {synced, Len(journal')}
      BY <1>6
    <2>2. Len(journal') = Len(journal) + 1 /\ \A j \in 1 .. Len(journal) : journal'[j] = journal[j]
      BY <1>1, <2>1
    <2>3. synced <= synced' /\ \A j \in 1 .. synced : journal'[j] = journal[j]
      BY <1>1, <2>1, <2>2
    <2>4. QED
      BY <1>2, <1>3, <2>3
  <1>7. CASE Crash
    <2>1. PICK n \in synced .. Len(journal) : journal' = SubSeq(journal, 1, n) /\ synced' = n
      BY <1>7 DEF Crash
    <2>2. n \in 0 .. Len(journal)
      BY <1>1
    <2>3. DOMAIN journal' = 1 .. n /\ \A j \in DOMAIN journal' : journal'[j] = journal[j]
      BY <1>1, <2>1, <2>2, Cutting
    <2>4. synced <= n /\ \A j \in 1 .. synced : j \in 1 .. n
      BY <1>1, <2>1, <2>2
    <2>5. QED
      BY <1>2, <1>3, <2>1, <2>3, <2>4
  <1>8. QED
    <2>1. Skip \/ RecordChange \/ RecordResult =>
            \/ UNCHANGED <<journal, synced>>
            \/ \E r : journal' = Append(journal, r) /\ synced' \in {synced, Len(journal')}
      BY Zenon DEF Skip, RecordChange, RecordResult, Append1, log
    <2>2. StartRow \/ Preview \/ Cancel \/ Undo => UNCHANGED <<journal, synced>>
      BY DEF StartRow, Preview, Cancel, Undo, log
    <2>3. Finish => UNCHANGED journal /\ synced' = Len(journal)
      BY DEF Finish
    <2>4. RecordUndo => \/ UNCHANGED <<journal, synced>>
                        \/ UNCHANGED journal /\ synced' = Len(journal)
                        \/ \E r : journal' = Append(journal, r) /\ synced' \in {synced, Len(journal')}
      BY DEF RecordUndo, Sync, log
    <2>5. QED
      BY <1>4, <1>5, <1>6, <1>7, <2>1, <2>2, <2>3, <2>4

-----------------------------------------------------------------------------
\* Data that no step loses

LEMMA KeptRename ==
    ASSUME TypeOK, NEW from \in Slots, NEW to \in Slots, from # to, fs[from] # None, fs[to] = None,
           Rename(from, to), UNCHANGED gone, NEW x, NEW c, x # to, Kept(x, c)
    PROVE  Kept(x, c)'
  <1>1. /\ DOMAIN node' = DOMAIN node /\ fs'[to] = fs[from]
        /\ \A s \in Slots : s \notin {from, to} => fs'[s] = fs[s]
        /\ \A m \in DOMAIN node : node'[m].data = node[m].data
    BY Renaming
  <1>2. \A s \in Slots : fs[s] # None => fs[s] \in DOMAIN node
    BY Typed
  <1>3. ASSUME NEW m \in DOMAIN node \ {c}, node[m].data \notin gone \cup {Partial}
        PROVE  \E s \in Slots \ {x} : fs'[s] \notin {None, c} /\ node'[fs'[s]].data = node'[m].data
    <2>1. PICK s \in Slots \ {x} : fs[s] \notin {None, c} /\ node[fs[s]].data = node[m].data
      BY <1>3 DEF Kept
    <2>2. CASE s = from
      BY <1>1, <1>2, <2>1, <2>2
    <2>3. CASE s # from
      BY <1>1, <1>2, <2>1, <2>3
    <2>4. QED
      BY <2>2, <2>3
  <1>4. QED
    BY <1>1, <1>3 DEF Kept

LEMMA KeptUnchanged ==
    ASSUME UNCHANGED <<fs, node, gone>>, NEW x, NEW c, Kept(x, c)
    PROVE  Kept(x, c)'
  BY DEF Kept

\* A copy takes the place of the object it was made from.
LEMMA KeptCopy ==
    ASSUME TypeOK, NEW y \in Slots, fs[y] = None, NEW d \in Nat,
           node' = Append(node, [data |-> d, ctime |-> 0]), fs' = [fs EXCEPT ![y] = Len(node) + 1],
           UNCHANGED gone, Kept(<<"none", None>>, None), NEW x \in Slots, x # y,
           NEW c \in DOMAIN node, fs[x] = c, node[c].data = d
    PROVE  Kept(<<"none", None>>, None)' /\ Kept(x, None)' /\ Kept(x, c)'
  <1>1. /\ DOMAIN node' = DOMAIN node \cup {Len(node) + 1} /\ Len(node) + 1 \notin DOMAIN node
        /\ \A m \in DOMAIN node : node'[m] = node[m]
        /\ node'[Len(node) + 1].data = d
        /\ fs'[y] = Len(node) + 1 /\ fs'[y] # None
        /\ \A s \in Slots : s # y => fs'[s] = fs[s]
    BY Growing
  <1>2. \A s \in Slots : fs[s] # None => fs[s] \in DOMAIN node
    BY Typed
  <1>3. ASSUME NEW m \in DOMAIN node', node'[m].data \notin gone \cup {Partial}
        PROVE  \/ node'[m].data = d
               \/ \E s \in Slots : s \notin {x, y} /\ fs'[s] \notin {None, c} /\ node'[fs'[s]].data = node'[m].data
    <2>1. CASE m = Len(node) + 1
      BY <1>1, <2>1
    <2>2. CASE m # Len(node) + 1
      <3>1. m \in DOMAIN node /\ node'[m] = node[m] /\ m # None
        BY <1>1, <2>2, Typed DEF None
      <3>2. PICK s \in Slots : fs[s] # None /\ node[fs[s]].data = node[m].data
        BY <1>3, <3>1 DEF Kept
      <3>3. s # y /\ fs'[s] = fs[s] /\ node'[fs[s]] = node[fs[s]]
        BY <1>1, <1>2, <3>2
      <3>4. CASE fs[s] = c
        BY <3>1, <3>2, <3>4
      <3>5. CASE fs[s] # c
        BY <3>1, <3>2, <3>3, <3>5
      <3>6. QED
        BY <3>4, <3>5
    <2>3. QED
      BY <2>1, <2>2
  <1>4. y # <<"none", None>> /\ x # <<"none", None>> /\ fs'[y] \notin {None, c} /\ node'[fs'[y]].data = d
    BY <1>1, NoSlot
  <1>5. ASSUME NEW z \in {x, <<"none", None>>}, NEW e \in {None, c} PROVE Kept(z, e)'
    <2>1. SUFFICES ASSUME NEW m \in DOMAIN node' \ {e}, node'[m].data \notin gone' \cup {Partial}
                   PROVE  \E s \in Slots \ {z} : fs'[s] \notin {None, e} /\ node'[fs'[s]].data = node'[m].data
      BY DEF Kept
    <2>2. CASE node'[m].data = d
      <3>1. y \in Slots \ {z} /\ fs'[y] \notin {None, e} /\ node'[fs'[y]].data = node'[m].data
        BY <1>1, <1>4, <1>5, <2>2
      <3>2. QED
        BY <3>1, Zenon
    <2>3. CASE node'[m].data # d
      <3>1. PICK s \in Slots : s \notin {x, y} /\ fs'[s] \notin {None, c} /\ node'[fs'[s]].data = node'[m].data
        BY <1>3, <2>1, <2>3
      <3>2. s \in Slots \ {z} /\ fs'[s] \notin {None, e}
        BY <1>5, <3>1, NoSlot
      <3>3. QED
        BY <3>1, <3>2, Zenon
    <2>4. QED
      BY <2>2, <2>3
  <1>6. QED
    BY <1>5

\* A copy that nothing depends on yet.
LEMMA KeptOutput ==
    ASSUME TypeOK, NEW y \in Slots, fs[y] = None, NEW d \in Nat,
           node' = Append(node, [data |-> d, ctime |-> 0]), fs' = [fs EXCEPT ![y] = Len(node) + 1],
           UNCHANGED gone, Kept(<<"none", None>>, None)
    PROVE  Kept(<<"none", None>>, None)'
  <1>1. /\ DOMAIN node' = DOMAIN node \cup {Len(node) + 1} /\ Len(node) + 1 \notin DOMAIN node
        /\ \A m \in DOMAIN node : node'[m] = node[m]
        /\ fs'[y] = Len(node) + 1 /\ fs'[y] # None
        /\ \A s \in Slots : s # y => fs'[s] = fs[s]
    BY Growing
  <1>2. \A s \in Slots : fs[s] # None => fs[s] \in DOMAIN node
    BY Typed
  <1>3. y # <<"none", None>>
    BY NoSlot
  <1>4. ASSUME NEW m \in DOMAIN node', node'[m].data \notin gone \cup {Partial}, m # None
        PROVE  \E s \in Slots \ {<<"none", None>>} : fs'[s] # None /\ node'[fs'[s]].data = node'[m].data
    <2>1. CASE m = Len(node) + 1
      BY <1>1, <1>3, <2>1
    <2>2. CASE m # Len(node) + 1
      <3>1. m \in DOMAIN node /\ node'[m] = node[m]
        BY <1>1, <2>2
      <3>2. PICK s \in Slots \ {<<"none", None>>} : fs[s] # None /\ node[fs[s]].data = node[m].data
        BY <1>4, <3>1 DEF Kept
      <3>3. s # y /\ fs'[s] = fs[s] /\ node'[fs[s]] = node[fs[s]]
        BY <1>1, <1>2, <3>2
      <3>4. QED
        BY <3>1, <3>2, <3>3
    <2>3. QED
      BY <2>1, <2>2
  <1>5. QED
    BY <1>4, ZenonT(40) DEF Kept

LEMMA KeptByOthers ==
    ASSUME TypeOK, NEW p \in Paths, Others(p), NEW x, NEW c, x # PathSlot(p), c \in DOMAIN node \cup {None},
           Kept(x, c)
    PROVE  Kept(x, c)'
  <1> DEFINE s0 == PathSlot(p)
             f == fs[s0]
  <1>1. /\ gone \subseteq gone' /\ DOMAIN node \subseteq DOMAIN node' /\ s0 \in Slots
        /\ \A s \in Slots : s # s0 => fs'[s] = fs[s]
        /\ \A m \in DOMAIN node : m # f => node'[m] = node[m]
        /\ \A m \in DOMAIN node : node'[m].data = node[m].data \/ fs'[s0] = m
        /\ \A m \in DOMAIN node' \ DOMAIN node : m = fs'[s0]
        /\ f # None => node[f].data \in gone' \/ (fs' = fs /\ node'[f].data = node[f].data)
    BY SlotKinds DEF Others
  <1>2. (\A s \in Slots : fs[s] # None => fs[s] \in DOMAIN node)
        /\ None \notin DOMAIN node
    BY Typed DEF None
  <1>3. None \notin DOMAIN node'
    <2>1. node' \in Seq(Nodes)
      BY DEF Others
    <2>2. QED
      BY <2>1 DEF None
  <1> HIDE DEF s0
  <1>4. s0 # x
    BY DEF s0
  <1>5. ASSUME NEW m \in DOMAIN node' \ {c}, node'[m].data \notin gone' \cup {Partial}
        PROVE  \E s \in Slots \ {x} : fs'[s] \notin {None, c} /\ node'[fs'[s]].data = node'[m].data
    <2>1. CASE m = fs'[s0]
      BY <1>1, <1>3, <1>4, <1>5, <2>1
    <2>2. CASE m # fs'[s0]
      <3>1. m \in DOMAIN node /\ node'[m].data = node[m].data
        BY <1>1, <2>2
      <3>2. PICK s \in Slots \ {x} : fs[s] \notin {None, c} /\ node[fs[s]].data = node[m].data
        BY <1>1, <1>5, <3>1 DEF Kept
      <3>3. fs[s] \in DOMAIN node
        BY <1>2, <3>2
      <3>4. CASE fs[s] # f
        BY <1>1, <3>1, <3>2, <3>3, <3>4
      <3>5. CASE fs[s] = f
        <4>1. node[f].data \notin gone'
          BY <1>5, <3>1, <3>2, <3>5
        <4>2. fs' = fs /\ node'[f].data = node[f].data
          BY <1>1, <1>2, <3>2, <3>5, <4>1
        <4>3. QED
          BY <3>1, <3>2, <3>5, <4>2
      <3>6. QED
        BY <3>4, <3>5
    <2>3. QED
      BY <2>1, <2>2
  <1>6. QED
    BY <1>5 DEF Kept

LEMMA KeptFor ==
    ASSUME NEW x, NEW c, CaptureAt' = x, t'.ino = c, Kept(<<"none", None>>, None)',
           op'.pc \in {"publish_copy", "remove"} /\ t'.captured => Kept(x, None)' /\ Kept(x, c)'
    PROVE  DataIsKept'
  <1>1. CASE op'.pc \in {"publish_copy", "remove"} /\ t'.captured
    BY <1>1 DEF DataIsKept, Kept
  <1>2. CASE ~(op'.pc \in {"publish_copy", "remove"} /\ t'.captured)
    BY <1>2 DEF DataIsKept
  <1>3. QED
    BY <1>1, <1>2

LEMMA TransferKeeps ==
    ASSUME MoveInv, DataIsKept, Transfer
    PROVE  DataIsKept'
  <1>1. /\ op.pc \in Working /\ op.pc \in Pinning /\ UNCHANGED gone
        /\ CaptureAt' = CaptureAt /\ t'.ino = t.ino
        /\ op'.pc = "publish_copy" => op.pc = "copy" /\ t'.captured = t.captured
        /\ op'.pc = "remove" => op.pc = "publish_copy" /\ t'.captured = t.captured /\ t.captured
    BY TransferIsQuiet DEF Pinning
  <1>2. /\ TypeOK /\ Control /\ op.i \in DOMAIN op.rows /\ t.dst = row.dst
        /\ t.ino \in DOMAIN node /\ t.ino # None
    BY <1>1, PinnedFacts
  <1>3. PICK x : x = CaptureAt
    OBVIOUS
  <1>4. PICK c : c = t.ino
    OBVIOUS
  <1> DEFINE none == <<"none", None>>
  <1>5. /\ x \in Slots /\ CopyAt \in Slots /\ row.src \in Slots /\ row.dst \in Slots
        /\ row.src # x /\ row.dst \notin {x, CopyAt} /\ x # CopyAt
        /\ none \notin Slots
    BY <1>2, <1>3, OwnSlots, NoSlot
  <1>6. /\ Kept(none, None)
        /\ op.pc \in {"publish_copy", "remove"} /\ t.captured => Kept(x, None) /\ Kept(x, c)
    BY <1>3, <1>4 DEF DataIsKept
  <1> HIDE DEF none
  <1>7. Fail => op'.pc = "restore"
    BY <1>2, Typed DEF Fail, Operations
  <1>8. CASE UNCHANGED disk /\ op'.pc \notin {"publish_copy", "remove"}
    <2>1. UNCHANGED <<fs, node, gone>>
      BY <1>1, <1>8 DEF disk
    <2>2. QED
      BY <1>1, <1>3, <1>4, <1>6, <1>8, <2>1, KeptUnchanged, KeptFor DEF none
  <1>9. ASSUME NEW from \in Slots, NEW to \in Slots, from # to, fs[from] # None, fs[to] = None,
               Rename(from, to), op'.pc \notin {"publish_copy", "remove"}
        PROVE  DataIsKept'
    <2>1. Kept(none, None)'
      BY <1>1, <1>2, <1>5, <1>6, <1>9, KeptRename
    <2>2. QED
      BY <1>1, <1>3, <1>4, <1>9, <2>1, KeptFor DEF none
  <1>10. CASE Capture
    <2>1. op.pc = "capture" /\ op'.pc \notin {"publish_copy", "remove"}
      BY <1>1, <1>10 DEF Capture
    <2>2. CASE CanRename(row.src, CaptureAt) /\ Rename(row.src, CaptureAt)
      BY <1>3, <1>5, <1>9, <2>1, <2>2 DEF CanRename
    <2>3. QED
      BY <1>8, <1>10, <2>1, <2>2 DEF Capture
  <1>11. CASE Authorize
    BY <1>1, <1>8, <1>11 DEF Authorize
  <1>12. CASE Trash \/ Publish
    <2>1. op.pc \in {"trash", "publish"} /\ op'.pc \notin {"publish_copy", "remove"}
      BY <1>1, <1>12 DEF Trash, Publish
    <2>2. fs[CaptureAt] = t.ino /\ (op.pc = "trash" => op.action = "trash")
      BY <1>1, <2>1 DEF MoveInv, Captured
    <2>3. CASE Rename(CaptureAt, t.dst) /\ fs[t.dst] = None
      BY <1>2, <1>3, <1>5, <1>9, <2>1, <2>2, <2>3
    <2>4. op.pc = "trash" => fs[t.dst] = None
      <3>1. op.pc = "trash" => row.dst = TrashSlot(row.id)
        BY <1>2, <2>2 DEF Control, row
      <3>2. QED
        BY <1>2, <3>1 DEF MoveInv, NamesAreFree
    <2>5. QED
      BY <1>8, <1>12, <2>1, <2>3, <2>4 DEF Trash, Publish, CanRename
  <1>13. CASE Restore
    <2>1. op.pc = "restore" /\ op'.pc \notin {"publish_copy", "remove"}
      BY <1>1, <1>13 DEF Restore
    <2>2. CASE CanRename(CaptureAt, row.src) /\ Rename(CaptureAt, row.src)
      BY <1>3, <1>5, <1>9, <2>1, <2>2 DEF CanRename
    <2>3. QED
      BY <1>8, <1>13, <2>1, <2>2 DEF Restore
  <1>14. CASE PublishCopy
    <2>1. op.pc = "publish_copy"
      BY <1>14 DEF PublishCopy
    <2>2. CASE CanRename(CopyAt, t.dst) /\ Rename(CopyAt, t.dst)
      <3>1. Kept(none, None)'
        BY <1>1, <1>2, <1>5, <1>6, <2>2, KeptRename DEF CanRename
      <3>2. op'.pc \in {"publish_copy", "remove"} => t.captured /\ t'.captured = t.captured
        BY <1>1, <2>1
      <3>3. t.captured => Kept(x, None)' /\ Kept(x, c)'
        <4>1. SUFFICES ASSUME t.captured PROVE Kept(x, None)' /\ Kept(x, c)'
          OBVIOUS
        <4>2. Kept(x, None) /\ Kept(x, c)
          BY <1>6, <2>1, <4>1
        <4>3. QED
          BY <1>1, <1>2, <1>5, <2>2, <4>2, KeptRename DEF CanRename
      <3>4. QED
        BY <1>1, <1>3, <1>4, <3>1, <3>2, <3>3, KeptFor DEF none
    <2>3. CASE Fail /\ UNCHANGED disk
      BY <1>7, <1>8, <2>3
    <2>4. QED
      BY <1>14, <2>2, <2>3 DEF PublishCopy
  <1>15. CASE Copy
    <2>1. op.pc = "copy"
      BY <1>15 DEF Copy
    <2>2. fs[CopyAt] = None /\ (t.captured => fs[x] = c)
      BY <1>1, <1>3, <1>4, <2>1 DEF MoveInv, Captured, NamesAreFree
    <2>3. Pinned.data \in Nat /\ Pinned.data = node[c].data
      BY <1>2, <1>4, IdentityTyped DEF Pinned, Identities
    <2>4. CASE /\ node' = Append(node, [data |-> Pinned.data, ctime |-> 0])
               /\ fs' = [fs EXCEPT ![CopyAt] = Len(node) + 1]
      <3>1. Kept(none, None)'
        BY <1>1, <1>2, <1>5, <1>6, <2>2, <2>3, <2>4, KeptOutput DEF none
      <3>2. t.captured => Kept(x, None)' /\ Kept(x, c)'
        <4>1. SUFFICES ASSUME t.captured PROVE Kept(x, None)' /\ Kept(x, c)'
          OBVIOUS
        <4>2. fs[x] = c /\ c \in DOMAIN node
          BY <1>2, <1>4, <2>2, <4>1
        <4>3. QED
          BY <1>1, <1>2, <1>5, <1>6, <2>2, <2>3, <2>4, <4>2, KeptCopy DEF none
      <3>3. QED
        BY <1>1, <1>3, <1>4, <2>1, <3>1, <3>2, KeptFor DEF none
    <2>5. CASE /\ Fail /\ node' = Append(node, [data |-> Partial, ctime |-> 0])
               /\ fs' = [fs EXCEPT ![CopyAt] = Len(node) + 1]
      <3>1. Partial \in Nat
        BY DEF Partial
      <3>2. Kept(none, None)'
        BY <1>1, <1>2, <1>5, <1>6, <2>2, <2>5, <3>1, KeptOutput DEF none
      <3>3. QED
        BY <1>1, <1>3, <1>4, <1>7, <2>5, <3>2, KeptFor DEF none
    <2>6. CASE Fail /\ UNCHANGED disk
      BY <1>7, <1>8, <2>6
    <2>7. QED
      BY <1>15, <2>4, <2>5, <2>6, Zenon DEF Copy
  <1>16. CASE RemoveCaptured
    <2>1. op.pc = "remove" /\ op'.pc \notin {"publish_copy", "remove"}
      BY <1>1, <1>16 DEF RemoveCaptured
    <2>2. fs[x] = c /\ c \in DOMAIN node /\ c # None /\ Kept(x, None) /\ Kept(x, c)
      BY <1>1, <1>2, <1>3, <1>4, <1>6, <2>1 DEF MoveInv, Captured
    <2>3. \A s \in Slots : fs[s] # None => fs[s] \in DOMAIN node
      BY <1>2, Typed
    <2>4. Kept(none, None)'
      <3>1. CASE fs' = [fs EXCEPT ![x] = None] /\ node' = Touched(node, c)
        <4>1. DOMAIN node' = DOMAIN node /\ \A m \in DOMAIN node : node'[m].data = node[m].data
          BY <1>2, <2>2, <3>1, Touching
        <4>2. \A s \in Slots \ {x} : fs'[s] = fs[s]
          BY <1>2, <3>1, Typed
        <4>3. QED
          BY <1>1, <1>5, <2>2, <2>3, <4>1, <4>2 DEF Kept
      <3>2. CASE UNCHANGED <<fs, node>>
        BY <1>1, <1>6, <3>2, KeptUnchanged
      <3>3. CASE fs' = fs /\ node' = [node EXCEPT ![c] = [data |-> Partial, ctime |-> node[c].ctime + 1]]
        <4>1. /\ DOMAIN node' = DOMAIN node /\ node'[c].data = Partial
              /\ \A m \in DOMAIN node : m # c => node'[m] = node[m]
          BY <1>2, <2>2, <3>3, Typed
        <4>2. QED
          BY <1>1, <1>5, <2>2, <2>3, <3>3, <4>1 DEF Kept
      <3>4. QED
        BY <1>3, <1>16, <2>2, <3>1, <3>2, <3>3 DEF RemoveCaptured
    <2>5. QED
      BY <1>1, <1>3, <1>4, <2>1, <2>4, KeptFor DEF none
  <1>17. QED
    BY <1>10, <1>11, <1>12, <1>13, <1>14, <1>15, <1>16 DEF Transfer

\* Steps that change neither the disk nor what others destroyed.
LEMMA RestKeeps ==
    ASSUME DataIsKept, UNCHANGED <<fs, node, gone>>,
           op' = op \/ op'.pc \notin {"publish_copy", "remove"}
    PROVE  DataIsKept'
  <1>1. Kept(<<"none", None>>, None)'
    BY KeptUnchanged DEF DataIsKept
  <1>2. CASE op' = op
    <2>1. CaptureAt' = CaptureAt /\ t' = t
      BY <1>2 DEF CaptureAt, row, t
    <2>2. QED
      BY <1>1, <1>2, <2>1 DEF DataIsKept, Kept
  <1>3. CASE op'.pc \notin {"publish_copy", "remove"}
    BY <1>1, <1>3 DEF DataIsKept
  <1>4. QED
    BY <1>2, <1>3

LEMMA OthersKeep ==
    ASSUME MoveInv, DataIsKept, NEW p \in Paths, Others(p)
    PROVE  DataIsKept'
  <1>1. TypeOK /\ UNCHANGED op
    BY DEF MoveInv, Others
  <1>2. CaptureAt' = CaptureAt /\ t' = t /\ op' = op
    BY <1>1 DEF CaptureAt, row, t
  <1>3. PathSlot(p) # <<"none", None>> /\ None \in DOMAIN node \cup {None}
    BY SlotKinds, NoSlot
  <1>4. Kept(<<"none", None>>, None)'
    BY <1>1, <1>3, KeptByOthers DEF DataIsKept
  <1>5. CASE op.pc \in {"publish_copy", "remove"} /\ t.captured
    <2>1. PICK x : x = CaptureAt
      OBVIOUS
    <2>2. PICK c : c = t.ino
      OBVIOUS
    <2>3. op.pc \in Pinning
      BY <1>5 DEF Pinning, Working
    <2>4. c \in DOMAIN node \cup {None}
      BY <2>2, <2>3, PinnedFacts
    <2>5. x # PathSlot(p)
      BY <2>1, SlotKinds, SlotsApart DEF CaptureAt
    <2>6. Kept(x, None) /\ Kept(x, c)
      BY <1>5, <2>1, <2>2 DEF DataIsKept
    <2>7. Kept(x, None)' /\ Kept(x, c)'
      BY <1>1, <1>3, <2>4, <2>5, <2>6, KeptByOthers
    <2>8. CaptureAt' = x /\ t'.ino = c
      BY <1>2, <2>1, <2>2
    <2>9. QED
      BY <1>4, <2>7, <2>8, KeptFor
  <1>6. CASE ~(op.pc \in {"publish_copy", "remove"} /\ t.captured)
    BY <1>2, <1>4, <1>6 DEF DataIsKept
  <1>7. QED
    BY <1>5, <1>6

LEMMA InitKeeps ==
    ASSUME Init
    PROVE  LossInv
  <1>1. MoveInv /\ TypeOK /\ op = Idle /\ op.pc = "idle"
    BY InitFits DEF Init, Idle, MoveInv
  <1>2. /\ \A m \in DOMAIN node : \E s \in PathSlots : fs[s] = m
        /\ \A s \in Slots : s \notin PathSlots => fs[s] = None
    BY InitDisk
  <1>3. \A s \in Slots : s[1] \in {"capture", "copy"} => fs[s] = None
    BY <1>2, SlotKinds
  <1>4. NamesAreDurable
    BY <1>1, <1>3 DEF NamesAreDurable, Started, Working
  <1>5. Kept(<<"none", None>>, None)
    <2>1. None \notin DOMAIN node
      BY <1>1, Typed DEF None
    <2>2. \A s \in PathSlots : s \in Slots /\ s # <<"none", None>>
      BY SlotKinds, NoSlot
    <2>3. QED
      BY <1>2, <2>1, <2>2 DEF Kept
  <1>6. DataIsKept
    BY <1>1, <1>5 DEF DataIsKept
  <1>7. QED
    BY <1>1, <1>4, <1>6 DEF LossInv

LEMMA LossStep ==
    ASSUME LossInv, [Next]_vars
    PROVE  LossInv'
  <1>1. MoveInv /\ MoveInv' /\ NamesAreDurable /\ DataIsKept
    BY StepFits DEF LossInv
  <1>2. TypeOK /\ op \in Operations /\ synced \in Nat
    BY <1>1, Typed, SMTT(40) DEF MoveInv, TypeOK
  <1>3. CASE Transfer
    BY <1>1, <1>3, TransferNames, TransferKeeps DEF LossInv
  <1>4. ASSUME NEW p \in Paths, ReplaceFile(p) \/ RemoveFile(p) \/ ModifyFile(p) \/ TouchFile(p)
        PROVE  LossInv'
    <2>1. Others(p)
      BY <1>2, <1>4, OthersAct
    <2>2. DataIsKept'
      BY <1>1, <2>1, OthersKeep
    <2>3. UNCHANGED <<op, journal, synced>> /\ \A s \in Slots : s # PathSlot(p) => fs'[s] = fs[s]
      BY <2>1 DEF Others
    <2>4. \A s \in Slots : s[1] \in {"capture", "copy"} => fs'[s] = fs[s]
      BY <2>3, SlotKinds
    <2>5. NamesAreDurable'
      BY <1>1, <1>2, <2>3, <2>4, OtherNames
    <2>6. QED
      BY <1>1, <2>2, <2>5 DEF LossInv
  <1>5. ASSUME Skip \/ StartRow \/ RecordChange \/ RecordResult \/ Finish \/ RecordUndo \/ Preview \/ Cancel
                 \/ Crash \/ Undo
        PROVE  LossInv'
    <2>1. NamesAreDurable'
      BY <1>1, <1>5, BatchKeepsJournal, OtherNames
    <2>2. UNCHANGED <<fs, node, gone>>
      BY <1>5 DEF Skip, StartRow, RecordChange, RecordResult, Finish, RecordUndo, Preview, Cancel, Crash, Undo,
                  disk, seen
    <2>3. op' = op \/ op'.pc \notin {"publish_copy", "remove"}
      <3>1. End => op'.pc = "idle"
        BY DEF End, Idle
      <3>2. Undo => op'.pc = "undo_intent"
        BY DEF Undo, Idle
      <3>3. Preview /\ ~End => op'.pc = "intents"
        BY <1>2 DEF Preview, Operations
      <3>4. Skip => op'.pc = "row"
        BY <1>2 DEF Skip, Operations
      <3>5. StartRow => op'.pc \in {"copy", "capture", "record"}
        BY <1>2 DEF StartRow, Operations
      <3>6. RecordChange => op'.pc = "record"
        BY <1>2 DEF RecordChange, Goto, Operations
      <3>7. RecordResult => op'.pc = "row"
        BY <1>2 DEF RecordResult, Operations
      <3>8. QED
        BY <1>5, <3>1, <3>2, <3>3, <3>4, <3>5, <3>6, <3>7 DEF Finish, RecordUndo, Crash, Cancel
    <2>4. DataIsKept'
      BY <1>1, <2>2, <2>3, RestKeeps
    <2>5. QED
      BY <1>1, <2>1, <2>4 DEF LossInv
  <1>6. CASE Intents \/ UndoIntent
    <2>1. NamesAreDurable'
      BY <1>1, <1>6, IntentsNames, UndoIntentNames
    <2>2. UNCHANGED <<fs, node, gone>> /\ op'.pc \in {"row", "capture", "idle"}
      BY <1>2, <1>6 DEF Intents, UndoIntent, disk, seen, End, Idle, Goto, Operations
    <2>3. DataIsKept'
      BY <1>1, <2>2, RestKeeps
    <2>4. QED
      BY <1>1, <2>1, <2>3 DEF LossInv
  <1>7. ASSUME NEW action, NEW policy, NEW batch, NEW keeper, Request(action, policy, batch, keeper)
        PROVE  LossInv'
    <2>1. UNCHANGED <<fs, node, gone, journal, synced>> /\ op'.pc = "preview"
      BY <1>7 DEF Request, disk, seen, log, Idle
    <2>2. NamesAreDurable'
      <3>1. op'.pc \notin Started
        BY <2>1 DEF Started, Working
      <3>2. QED
        BY <1>1, <1>2, <2>1, <3>1, OtherNames
    <2>3. DataIsKept'
      BY <1>1, <2>1, RestKeeps
    <2>4. QED
      BY <1>1, <2>2, <2>3 DEF LossInv
  <1>8. CASE UNCHANGED vars
    <2>1. UNCHANGED <<fs, node, gone, journal, synced, op>>
      BY <1>8 DEF vars
    <2>2. NamesAreDurable' /\ DataIsKept'
      BY <1>1, <1>2, <2>1, OtherNames, RestKeeps
    <2>3. QED
      BY <1>1, <2>2 DEF LossInv
  <1>9. QED
    BY <1>3, <1>4, <1>5, <1>6, <1>7, <1>8, Steps, Zenon

LEMMA LossInvKept == Spec => []LossInv
  <1>1. Init => LossInv
    BY InitKeeps
  <1>2. LossInv /\ [Next]_vars => LossInv'
    BY LossStep
  <1>3. QED
    BY <1>1, <1>2, PTL DEF Spec

\* Whatever step a crash, a failure or another program strikes, data that no
\* other program destroyed is at a path, in the Trash, or in private storage
\* at a place that the synchronized journal names (OperationTransfer.perform).
THEOREM NothingIsLost == Spec => []NothingLost
  <1>1. LossInv => NothingLost
    <2> SUFFICES ASSUME LossInv, NEW d \in AllData \ gone
                 PROVE  \E s \in Slots : /\ fs[s] # None /\ node[fs[s]].data = d
                                         /\ s[1] \in {"capture", "copy"} => s \in Named
      BY DEF NothingLost
    <2>1. TypeOK /\ NamesAreDurable /\ Kept(<<"none", None>>, None)
      BY DEF LossInv, MoveInv, DataIsKept
    <2>2. PICK m \in DOMAIN node : node[m].data = d /\ d # Partial
      BY DEF AllData
    <2>3. m # None
      BY <2>1, Typed DEF None
    <2>4. PICK s \in Slots : fs[s] # None /\ node[fs[s]].data = d
      BY <2>1, <2>2, <2>3 DEF Kept
    <2>5. Durable \subseteq Named
      BY <2>1, Typed DEF Durable, Named, TypeOK
    <2>6. QED
      BY <2>1, <2>4, <2>5 DEF NamesAreDurable
  <1>2. QED
    BY <1>1, LossInvKept, PTL

-----------------------------------------------------------------------------
\* Longer journals lead to the same identity, or to the one a change added

\* The chain of ks is that of js, within S, until js is at its end b, and then at a.
LEMMA Lead ==
    ASSUME NEW js, NEW ks, NEW S, NEW x \in S, NEW a, NEW b,
           Len(js) \in Nat, Len(ks) \in Nat, Len(js) <= Len(ks),
           CurrentIn(js, x) = b, FollowingIn(js, b) = b,
           FollowingIn(ks, b) = a, FollowingIn(ks, a) = a,
           \A y \in S : FollowingIn(js, y) \in S,
           \A y \in S : y # b => FollowingIn(ks, y) = FollowingIn(js, y),
           Len(js) < Len(ks) \/ a = b
    PROVE  CurrentIn(ks, x) = a
  <1>1. PICK f : /\ f = [n \in 0 .. Len(js) |-> IF n = 0 THEN x ELSE FollowingIn(js, f[n - 1])]
                 /\ CurrentIn(js, x) = f[Len(js)]
    BY Chain
  <1>2. PICK g : /\ g = [n \in 0 .. Len(ks) |-> IF n = 0 THEN x ELSE FollowingIn(ks, g[n - 1])]
                 /\ CurrentIn(ks, x) = g[Len(ks)]
    BY Chain
  <1>3. f[0] = x /\ \A n \in 0 .. Len(js) : n # 0 => f[n] = FollowingIn(js, f[n - 1])
    BY <1>1, SMTT(40)
  <1>4. g[0] = x /\ \A n \in 0 .. Len(ks) : n # 0 => g[n] = FollowingIn(ks, g[n - 1])
    BY <1>2
  <1> DEFINE T == {n \in 0 .. Len(js) : ~(f[n] \in S /\ (g[n] = f[n] \/ (g[n] = a /\ f[n] = b)))}
  <1>5. T = {}
    <2>1. SUFFICES ASSUME T # {} PROVE FALSE
      OBVIOUS
    <2>2. T \subseteq Nat
      OBVIOUS
    <2>3. PICK n \in T : \A m \in T : n <= m
      BY <2>1, <2>2, LeastNatural, Zenon
    <2>4. n \in 0 .. Len(js) /\ n # 0 /\ n \in 0 .. Len(ks)
      BY <1>3, <1>4, <2>3
    <2>5. n - 1 \in 0 .. Len(js) /\ n - 1 \notin T
      BY <2>3, <2>4
    <2>6. f[n - 1] \in S /\ (g[n - 1] = f[n - 1] \/ (g[n - 1] = a /\ f[n - 1] = b))
      BY <2>5, Zenon
    <2>7. f[n] = FollowingIn(js, f[n - 1]) /\ g[n] = FollowingIn(ks, g[n - 1])
      BY <1>3, <1>4, <2>4
    <2>8. f[n] \in S /\ (g[n] = f[n] \/ (g[n] = a /\ f[n] = b))
      BY <2>6, <2>7, Zenon
    <2>9. QED
      BY <2>3, <2>8, Zenon
  <1>6. g[Len(js)] \in {a, b}
    <2>1. Len(js) \in 0 .. Len(js) /\ Len(js) \notin T
      BY <1>5
    <2>2. QED
      BY <1>1, <2>1, Zenon
  <1> HIDE DEF T
  <1> DEFINE W == {n \in 0 .. Len(ks) : n > Len(js) /\ g[n] # a}
  <1>7. W = {}
    <2>1. SUFFICES ASSUME W # {} PROVE FALSE
      OBVIOUS
    <2>2. W \subseteq Nat
      OBVIOUS
    <2>3. PICK n \in W : \A m \in W : n <= m
      BY <2>1, <2>2, LeastNatural, Zenon
    <2>4. n \in 0 .. Len(ks) /\ n > Len(js) /\ n # 0 /\ g[n] # a
      BY <2>3
    <2>5. n - 1 \in 0 .. Len(ks) /\ n - 1 \notin W
      BY <2>3, <2>4
    <2>6. g[n - 1] \in {a, b}
      <3>1. CASE n - 1 = Len(js)
        BY <1>6, <3>1
      <3>2. CASE n - 1 # Len(js)
        BY <2>4, <2>5, <3>2
      <3>3. QED
        BY <3>1, <3>2
    <2>7. g[n] = FollowingIn(ks, g[n - 1])
      BY <1>4, <2>4
    <2>8. QED
      BY <2>4, <2>6, <2>7
  <1>8. QED
    <2>1. CASE Len(js) < Len(ks)
      <3>1. Len(ks) \in 0 .. Len(ks) /\ Len(ks) \notin W /\ Len(ks) > Len(js)
        BY <1>7, <2>1
      <3>2. QED
        BY <1>2, <3>1
    <2>2. CASE Len(js) = Len(ks) /\ a = b
      BY <1>2, <1>6, <2>2
    <2>3. QED
      BY <2>1, <2>2

\* An identity that nothing follows leads to itself.
LEMMA Fixed ==
    ASSUME NEW js, Len(js) \in Nat, NEW x, FollowingIn(js, x) = x
    PROVE  CurrentIn(js, x) = x
  <1>1. PICK f : /\ f = [n \in 0 .. Len(js) |-> IF n = 0 THEN x ELSE FollowingIn(js, f[n - 1])]
                 /\ CurrentIn(js, x) = f[Len(js)]
    BY Chain
  <1>2. f[0] = x /\ \A n \in 0 .. Len(js) : n # 0 => f[n] = FollowingIn(js, f[n - 1])
    <2>1. 0 \in 0 .. Len(js) /\ \A n \in 0 .. Len(js) : n # 0 => n \in 0 .. Len(js)
      OBVIOUS
    <2>2. \A n \in 0 .. Len(js) : f[n] = IF n = 0 THEN x ELSE FollowingIn(js, f[n - 1])
      BY <1>1, Zenon
    <2>3. QED
      BY <2>1, <2>2, Zenon
  <1> DEFINE T == {n \in 0 .. Len(js) : f[n] # x}
  <1>3. T = {}
    <2>1. SUFFICES ASSUME T # {} PROVE FALSE
      OBVIOUS
    <2>2. T \subseteq Nat
      OBVIOUS
    <2>3. PICK n \in T : \A m \in T : n <= m
      BY <2>1, <2>2, LeastNatural, Zenon
    <2>4. n \in 0 .. Len(js) /\ n # 0 /\ f[n] # x
      BY <1>2, <2>3
    <2>5. n - 1 \in 0 .. Len(js) /\ n - 1 \notin T
      BY <2>3, <2>4
    <2>6. QED
      BY <1>2, <2>4, <2>5
  <1>4. Len(js) \in 0 .. Len(js) /\ Len(js) \notin T
    BY <1>3
  <1>5. QED
    BY <1>1, <1>4

\* Records that do not change y leave what follows it.
LEMMA FollowingSame ==
    ASSUME NEW js, NEW ks, NEW y, DOMAIN js \subseteq DOMAIN ks,
           \A i \in DOMAIN js : ks[i] = js[i],
           \A i \in DOMAIN ks \ DOMAIN js : ks[i].kind = "identity_change" => ks[i].before # y,
           DOMAIN js \subseteq Nat, NEW n \in Nat, \A i \in DOMAIN js : i <= n
    PROVE  FollowingIn(ks, y) = FollowingIn(js, y)
  <1> DEFINE J == {i \in DOMAIN js : js[i].kind = "identity_change" /\ js[i].before = y}
             K == {i \in DOMAIN ks : ks[i].kind = "identity_change" /\ ks[i].before = y}
  <1>1. J = K
    OBVIOUS
  <1>2. J # {} => Max(J) \in J
    BY MaxOfBounded
  <1>3. J # {} => ks[Max(J)] = js[Max(J)]
    BY <1>2
  <1>4. FollowingIn(ks, y) = (IF K = {} THEN y ELSE ks[Max(K)].after)
        /\ FollowingIn(js, y) = (IF J = {} THEN y ELSE js[Max(J)].after)
    BY DEF FollowingIn
  <1> HIDE DEF J, K
  <1>5. QED
    BY <1>1, <1>3, <1>4

LEMMA FollowingNone ==
    ASSUME NEW js, NEW y, \A i \in DOMAIN js : js[i].kind = "identity_change" => js[i].before # y
    PROVE  FollowingIn(js, y) = y
  BY DEF FollowingIn

\* An identity younger than every change of its inode is the last of its chain.
LEMMA LastIsFixed ==
    ASSUME NEW js \in Seq(Records), NEW x \in Identities,
           \A i \in DOMAIN js : js[i].kind = "identity_change" =>
             /\ js[i].before.ino = js[i].after.ino
             /\ js[i].before.ctime < js[i].after.ctime
             /\ js[i].after.ino = x.ino => js[i].after.ctime <= x.ctime
    PROVE  /\ FollowingIn(js, x) = x /\ CurrentIn(js, x) = x
           /\ \A i \in DOMAIN js : js[i].kind = "identity_change" => js[i].before # x
  <1>1. ASSUME NEW i \in DOMAIN js, js[i].kind = "identity_change", js[i].before = x
        PROVE  FALSE
    <2>1. js[i] \in Records
      BY ElementOfSeq
    <2>2. js[i].before.ctime \in Nat /\ js[i].after.ctime \in Nat
      BY <2>1 DEF Records, Identities
    <2>3. QED
      BY <1>1, <2>2
  <1>2. FollowingIn(js, x) = x
    BY <1>1, FollowingNone
  <1>3. Len(js) \in Nat
    OBVIOUS
  <1>4. QED
    BY <1>1, <1>2, <1>3, Fixed

\* The inodes the journal speaks of, and a journal that only adds other records.
Recorded == {journal[j].after.ino : j \in Changes \cup Completed}
Extended ==
  /\ journal' \in Seq(Records) /\ Len(journal) <= Len(journal') /\ DOMAIN journal \subseteq DOMAIN journal'
  /\ \A j \in DOMAIN journal : journal'[j] = journal[j]
  /\ \A j \in DOMAIN journal' \ DOMAIN journal : journal'[j].kind # "identity_change"

LEMMA BaseFits ==
    ASSUME UndoInv, NEW n \in DOMAIN node
    PROVE  /\ Base(n) \in Identities /\ Base(n).ino = n /\ Base(n).ctime \in Nat
           /\ FollowingIn(journal, Base(n)) = Base(n)
           /\ \A i \in Changes : journal[i].before # Base(n)
  <1>1. TypeOK /\ RecordsFit /\ RecordsAreDated
    BY DEF UndoInv, MoveInv
  <1>2. Base(n) \in Identities /\ Base(n).ino = n
    <2>1. CASE op.pc \in Pinning /\ n = t.ino
      <3>1. t.expected.ino = t.ino /\ t \in Handles
        BY <2>1, PinnedFacts DEF UndoInv
      <3>2. QED
        BY <2>1, <3>1 DEF Base, Handles
    <2>2. CASE ~(op.pc \in Pinning /\ n = t.ino)
      BY <1>1, <2>2, IdentityTyped DEF Base
    <2>3. QED
      BY <2>1, <2>2
  <1>3. journal \in Seq(Records)
    BY <1>1, Typed
  <1>4. \A i \in DOMAIN journal : journal[i].kind = "identity_change" =>
             /\ journal[i].before.ino = journal[i].after.ino
             /\ journal[i].before.ctime < journal[i].after.ctime
             /\ journal[i].after.ino = Base(n).ino => journal[i].after.ctime <= Base(n).ctime
    BY <1>1, <1>2 DEF RecordsFit, RecordsAreDated, Changes
  <1>5. /\ FollowingIn(journal, Base(n)) = Base(n)
        /\ \A i \in Changes : journal[i].before # Base(n)
    BY <1>2, <1>3, <1>4, LastIsFixed DEF Changes
  <1>6. QED
    BY <1>2, <1>5 DEF Identities

\* What the journal leads to stays, if the inodes it speaks of stay as they are.
LEMMA StillLeads ==
    ASSUME UndoInv, RecordsFit', Extended, DOMAIN node \subseteq DOMAIN node',
           \A n \in Recorded : Broken(n) => Broken(n)',
           \A n \in Recorded : Broken(n)' \/ Base(n)' = Base(n),
           \A n \in Recorded : Base(n)'.ctime \in Nat /\ Base(n)'.ctime >= Base(n).ctime,
           \A j \in DOMAIN journal' \ DOMAIN journal, x \in Identities :
             journal'[j].kind = "operation" /\ x = journal'[j].after =>
               x.ino \in DOMAIN node' /\ (Broken(x.ino)' \/ Base(x.ino)' = x)
    PROVE  RecordsAreDated' /\ ChainsLead'
  <1>1. TypeOK /\ RecordsFit /\ RecordsAreDated /\ ChainsLead
    BY DEF UndoInv, MoveInv
  <1>2. /\ journal \in Seq(Records) /\ Len(journal) \in Nat /\ DOMAIN journal = 1 .. Len(journal)
        /\ journal' \in Seq(Records) /\ Len(journal') \in Nat /\ DOMAIN journal' = 1 .. Len(journal')
        /\ Len(journal) <= Len(journal')
    BY <1>1, Typed DEF Extended
  <1>3. Changes' = Changes /\ \A j \in Changes : journal'[j] = journal[j]
    BY DEF Extended, Changes
  <1>4. \A j \in Completed : j \in DOMAIN journal /\ journal'[j] = journal[j] /\ journal[j].after.ino \in Recorded
                             /\ journal[j].after.ino \in DOMAIN node
    BY <1>1 DEF Extended, Completed, Recorded, RecordsAreDated
  <1>5. \A y : FollowingIn(journal', y) = FollowingIn(journal, y)
    <2>1. DOMAIN journal \subseteq Nat /\ \A i \in DOMAIN journal : i <= Len(journal)
      BY <1>2
    <2>2. QED
      BY <1>2, <2>1, FollowingSame DEF Extended
  <1>6. \A j \in Completed' : journal'[j].after \in Identities /\ (j \in Completed \/ j \in DOMAIN journal' \ DOMAIN journal)
    <2>1. \A j \in DOMAIN journal' : journal'[j] \in Records
      BY <1>2, ElementOfSeq
    <2>2. QED
      BY <2>1 DEF Completed, Extended, Records
  <1>7. RecordsAreDated'
    <2>1. \A j \in Completed' : journal'[j].after.ino \in DOMAIN node'
      BY <1>4, <1>6 DEF Completed
    <2>2. \A j \in Changes' : journal'[j].after.ino \in DOMAIN node' /\ journal'[j].before.ctime < journal'[j].after.ctime
      BY <1>1, <1>3 DEF RecordsAreDated
    <2>3. ASSUME NEW j \in Changes, NEW n, journal[j].after.ino = n
          PROVE  journal[j].after.ctime <= Base(n)'.ctime
      <3>1. n \in DOMAIN node /\ journal[j].after.ctime <= Base(n).ctime /\ n \in Recorded
        BY <1>1, <2>3 DEF RecordsAreDated, Recorded
      <3>2. journal[j].after.ctime \in Nat
        BY <1>1, Typed DEF Changes, Records, Identities
      <3>3. Base(n).ctime \in Nat
        BY <3>1, BaseFits
      <3>4. Base(n)'.ctime \in Nat /\ Base(n)'.ctime >= Base(n).ctime
        BY <3>1
      <3>5. QED
        BY <3>1, <3>2, <3>3, <3>4
    <2>4. QED
      BY <1>3, <2>1, <2>2, <2>3 DEF RecordsAreDated
  <1>8. ASSUME NEW j \in Completed', NEW x \in Identities, x = journal'[j].after
        PROVE  Broken(x.ino)' \/ CurrentIn(journal', x) = Base(x.ino)'
    <2> DEFINE n == x.ino
    <2>1. CASE j \in Completed
      <3>1. journal[j].after = x /\ n \in Recorded /\ n \in DOMAIN node
        BY <1>4, <1>8, <2>1
      <3>2. Broken(n) \/ CurrentIn(journal, x) = Base(n)
        BY <1>1, <2>1, <3>1, InJournal DEF ChainsLead
      <3>3. FollowingIn(journal, Base(n)) = Base(n)
        BY <3>1, BaseFits
      <3> HIDE DEF n
      <3>4. ASSUME CurrentIn(journal, x) = Base(n) PROVE CurrentIn(journal', x) = Base(n)
        <4>1. \A y \in Identities : FollowingIn(journal, y) \in Identities
          BY <1>1, FollowingFits, InJournal
        <4>2. QED
          BY <1>2, <1>5, <3>3, <3>4, <4>1, Lead
      <3>5. Broken(n)' \/ CurrentIn(journal', x) = Base(n)'
        BY <3>1, <3>2, <3>4
      <3>6. QED
        BY <3>5 DEF n
    <2>2. CASE j \in DOMAIN journal' \ DOMAIN journal
      <3>1. journal'[j].kind = "operation"
        BY DEF Completed
      <3>2. n \in DOMAIN node' /\ (Broken(n)' \/ Base(n)' = x)
        BY <1>8, <2>2, <3>1
      <3>3. CASE Base(n)' = x
        <4>1. \A i \in DOMAIN journal' : journal'[i].kind = "identity_change" =>
                 /\ journal'[i].before.ino = journal'[i].after.ino
                 /\ journal'[i].before.ctime < journal'[i].after.ctime
                 /\ journal'[i].after.ino = n => journal'[i].after.ctime <= Base(n)'.ctime
          BY <1>7, <3>2 DEF RecordsAreDated, RecordsFit, Changes
        <4>2. CurrentIn(journal', x) = x
          BY <1>2, <3>3, <4>1, LastIsFixed
        <4>3. QED
          BY <3>3, <4>2
      <3>4. QED
        BY <3>2, <3>3
    <2>3. QED
      BY <1>6, <2>1, <2>2
  <1>9. ChainsLead'
    <2>1. \A x \in {journal'[j].after : j \in Completed'} : x \in Identities /\ (Broken(x.ino)' \/ Current(x)' = Base(x.ino)')
      BY <1>6, <1>8, InJournal
    <2>2. QED
      BY <2>1 DEF ChainsLead
  <1>10. QED
    BY <1>7, <1>9
\* No change and no result was added.
Annotated == Extended /\ \A j \in DOMAIN journal' \ DOMAIN journal : journal'[j].kind # "operation"

LEMMA NothingAdded ==
    ASSUME TypeOK, UNCHANGED journal
    PROVE  Annotated
  BY Typed DEF Annotated, Extended

LEMMA OneAdded ==
    ASSUME TypeOK, NEW r \in Records, journal' = Append(journal, r), r.kind # "identity_change"
    PROVE  /\ Extended /\ \A j \in DOMAIN journal' \ DOMAIN journal : journal'[j] = r
           /\ r.kind # "operation" => Annotated
  BY Appending, Typed DEF Extended, Annotated

LEMMA SomeAdded ==
    ASSUME TypeOK, NEW r \in Seq(Records), journal' = journal \o r,
           \A k \in DOMAIN r : r[k].kind \notin {"identity_change", "operation"}
    PROVE  Annotated
  <1>1. Len(r) \in Nat /\ Len(journal) \in Nat
    BY Typed
  <1>2. QED
    BY <1>1, Joining DEF Extended, Annotated

LEMMA RecordedInodes ==
    ASSUME UndoInv
    PROVE  Recorded \subseteq DOMAIN node
  BY DEF UndoInv, RecordsAreDated, Recorded

\* The steps between two rows, and those of a request that has not begun.
LEMMA BetweenRows ==
    ASSUME UndoInv, MoveInv', Extended, UNCHANGED <<node, foreign>>, op.pc \notin Pinning,
           op'.pc \in {"idle", "preview", "intents", "row", "record"}, op'.pc = "record" => t'.error,
           \A j \in DOMAIN journal' \ DOMAIN journal, x \in Identities :
             journal'[j].kind = "operation" /\ x = journal'[j].after =>
               x.ino \in DOMAIN node /\ (Broken(x.ino) \/ Identity(x.ino) = x)
    PROVE  UndoInv'
  <1>1. op'.pc \notin Pinning
    BY DEF Pinning, Working
  <1>2. \A n : (Broken(n)' <=> Broken(n)) /\ Base(n)' = Base(n) /\ Base(n)' = Identity(n)
    BY <1>1 DEF Broken, Base, Identity
  <1>3. \A n \in Recorded : Base(n)'.ctime \in Nat /\ Base(n)'.ctime >= Base(n).ctime
    BY <1>2, RecordedInodes, BaseFits
  <1>4. \A j \in DOMAIN journal' \ DOMAIN journal, x \in Identities :
             journal'[j].kind = "operation" /\ x = journal'[j].after =>
               x.ino \in DOMAIN node' /\ (Broken(x.ino)' \/ Base(x.ino)' = x)
    BY <1>2
  <1>5. RecordsAreDated' /\ ChainsLead'
    BY <1>2, <1>3, <1>4, StillLeads DEF MoveInv
  <1>6. PinIsDated' /\ CopyIsNew' /\ ResultIsCurrent'
    BY <1>1 DEF PinIsDated, CopyIsNew, ResultIsCurrent
  <1>7. QED
    BY <1>5, <1>6 DEF UndoInv

LEMMA BetweenRowsQuietly ==
    ASSUME UndoInv, MoveInv', Annotated, UNCHANGED <<node, foreign>>, op.pc \notin Pinning,
           op'.pc \in {"idle", "preview", "intents", "row", "record"}, op'.pc = "record" => t'.error
    PROVE  UndoInv'
  BY BetweenRows DEF Annotated

\* A row pins its object as it is.
LEMMA Pins ==
    ASSUME UndoInv, MoveInv', UNCHANGED <<node, journal, foreign>>, op.pc \notin Pinning,
           op'.pc \in {"undo_intent", "capture", "copy"}, t'.expected = Identity(t'.ino)
    PROVE  UndoInv'
  <1>1. op'.pc \in Pinning /\ op'.pc \notin {"publish_copy", "restore", "remove", "change", "record"}
    BY DEF Pinning, Working
  <1>2. t'.ino \in DOMAIN node' /\ TypeOK /\ TypeOK'
    BY <1>1 DEF MoveInv, Captured, UndoInv
  <1>3. \A n : (Broken(n)' <=> Broken(n)) /\ Base(n)' = Base(n)
    BY <1>1 DEF Broken, Base, Identity
  <1>4. \A n \in Recorded : Base(n)'.ctime \in Nat /\ Base(n)'.ctime >= Base(n).ctime
    BY <1>3, RecordedInodes, BaseFits
  <1>5. Extended /\ DOMAIN journal' \ DOMAIN journal = {}
    BY <1>2, NothingAdded DEF Annotated
  <1>6. RecordsAreDated' /\ ChainsLead'
    BY <1>3, <1>4, <1>5, StillLeads DEF MoveInv
  <1>7. PinIsDated'
    <2>1. /\ t'.expected.ctime = node'[t'.ino].ctime /\ t'.expected.data = node'[t'.ino].data
          /\ Pinned' = t'.expected
      BY DEF Identity, Pinned
    <2>2. node'[t'.ino].ctime \in Nat
      <3>1. node \in Seq(Nodes) /\ node' = node
        BY <1>2, Typed
      <3>2. node'[t'.ino] \in Nodes
        BY <1>2, <3>1, ElementOfSeq
      <3>3. QED
        BY <3>2 DEF Nodes
    <2>3. QED
      BY <2>1, <2>2 DEF PinIsDated
  <1>8. CopyIsNew' /\ ResultIsCurrent'
    BY <1>1 DEF CopyIsNew, ResultIsCurrent
  <1>9. QED
    BY <1>6, <1>7, <1>8 DEF UndoInv

LEMMA StartRowLeads ==
    ASSUME UndoInv, MoveInv', StartRow
    PROVE  UndoInv'
  <1>1. TypeOK /\ Control /\ op \in Operations /\ op.pc = "row" /\ op.pc \notin Pinning
    BY DEF UndoInv, MoveInv, TypeOK, StartRow, Pinning, Working
  <1>2. UNCHANGED <<node, journal, foreign>>
    BY DEF StartRow, disk, log, seen
  <1>3. row.src \in Slots
    <2>1. op.i \in DOMAIN op.rows
      <3>1. op.i \in 1 .. Len(op.rows) + 1 /\ op.i <= Len(op.rows)
        BY <1>1 DEF StartRow, Control
      <3>2. QED
        BY <1>1, <3>1, Typed
    <2>2. QED
      BY <1>1, <2>1, RowTyped
  <1>4. CASE op'.pc = "record" /\ t'.error
    <2>1. Annotated
      BY <1>1, <1>2, NothingAdded
    <2>2. QED
      BY <1>1, <1>2, <1>4, <2>1, BetweenRowsQuietly
  <1>5. CASE op'.pc \in {"copy", "capture"} /\ t'.ino = fs[row.src] /\ t'.expected = IdentityAt(row.src)
    <2>1. op'.pc \in Pinning
      BY <1>5 DEF Pinning, Working
    <2>2. t'.ino \in DOMAIN node'
      BY <2>1 DEF MoveInv, Captured
    <2>3. t'.ino # None
      BY <1>1, <1>2, <2>2, Typed DEF None
    <2>4. t'.expected = Identity(t'.ino)
      BY <1>5, <2>3 DEF IdentityAt
    <2>5. QED
      BY <1>1, <1>2, <1>5, <2>4, Pins
  <1> DEFINE expected == Current(row.expected)
             pinned == [NoHandle EXCEPT !.ino = fs[row.src], !.expected = expected, !.dst = row.dst]
             q == IF op.action = "copy" THEN "copy" ELSE "capture"
             refusal == [NoHandle EXCEPT !.error = TRUE]
  <1>6. /\ pinned.ino = fs[row.src] /\ pinned.expected = expected /\ refusal.error
        /\ q \in {"copy", "capture"}
    BY DEF NoHandle
  <1>7. \/ IdentityAt(row.src) = expected /\ op' = [op EXCEPT !.pc = q, !.t = pinned]
        \/ op' = [op EXCEPT !.pc = "record", !.t = refusal]
    BY Zenon DEF StartRow
  <1> HIDE DEF expected, pinned, q, refusal
  <1>8. CASE IdentityAt(row.src) = expected /\ op' = [op EXCEPT !.pc = q, !.t = pinned]
    <2>1. op'.pc = q /\ t' = pinned
      BY <1>1, <1>8 DEF Operations, t
    <2>2. QED
      BY <1>5, <1>6, <1>8, <2>1
  <1>9. CASE op' = [op EXCEPT !.pc = "record", !.t = refusal]
    <2>1. op'.pc = "record" /\ t' = refusal
      BY <1>1, <1>9 DEF Operations, t
    <2>2. QED
      BY <1>4, <1>6, <2>1
  <1>10. QED
    BY <1>7, <1>8, <1>9

LEMMA UndoLeads ==
    ASSUME UndoInv, MoveInv', Undo
    PROVE  UndoInv'
  <1>1. op.pc \notin Pinning /\ UNCHANGED <<node, journal, foreign>>
    BY DEF Undo, Pinning, Working, disk, log, seen
  <1>2. \E d : fs[d] # None /\ op'.pc = "undo_intent" /\ t'.ino = fs[d] /\ t'.expected = IdentityAt(d)
    <2>1. fs[Row(Max(Undoable)).dst] # None
      BY DEF Undo
    <2>2. /\ op'.pc = "undo_intent" /\ t'.ino = fs[Row(Max(Undoable)).dst]
          /\ t'.expected = IdentityAt(Row(Max(Undoable)).dst)
      BY DEF Undo, Idle, NoHandle, t
    <2>3. QED
      BY <2>1, <2>2
  <1>3. op'.pc = "undo_intent" /\ t'.expected = Identity(t'.ino)
    BY <1>2 DEF IdentityAt
  <1>4. QED
    BY <1>1, <1>3, Pins

LEMMA EndsIdle ==
    ASSUME End
    PROVE  op'.pc = "idle"
  BY DEF End, Idle

LEMMA RequestLeads ==
    ASSUME UndoInv, MoveInv', NEW action, NEW policy, NEW batch, NEW keeper,
           Request(action, policy, batch, keeper)
    PROVE  UndoInv'
  <1>1. op.pc \notin Pinning /\ UNCHANGED <<node, journal, foreign>> /\ op'.pc = "preview"
    BY DEF Request, Pinning, Working, disk, log, seen, Idle
  <1>2. Annotated
    BY <1>1, NothingAdded DEF UndoInv, MoveInv
  <1>3. QED
    BY <1>1, <1>2, BetweenRowsQuietly

LEMMA PreviewLeads ==
    ASSUME UndoInv, MoveInv', Preview
    PROVE  UndoInv'
  <1>1. op.pc \notin Pinning /\ UNCHANGED <<node, journal, foreign>> /\ op \in Operations
    BY DEF Preview, Pinning, Working, disk, log, seen, UndoInv, MoveInv, TypeOK
  <1>2. End \/ \E rows : op' = [op EXCEPT !.pc = "intents", !.rows = rows]
    BY Zenon DEF Preview
  <1>3. op'.pc \in {"idle", "intents"}
    BY <1>1, <1>2, EndsIdle DEF Operations
  <1>4. Annotated
    BY <1>1, NothingAdded DEF UndoInv, MoveInv
  <1>5. QED
    BY <1>1, <1>3, <1>4, BetweenRowsQuietly

LEMMA IntentsLead ==
    ASSUME UndoInv, MoveInv', Intents
    PROVE  UndoInv'
  <1>1. op.pc \notin Pinning /\ UNCHANGED <<node, foreign>> /\ TypeOK /\ op \in Operations
    BY DEF Intents, Pinning, Working, disk, seen, UndoInv, MoveInv, TypeOK
  <1>2. op'.pc \in {"idle", "row"}
    BY <1>1, EndsIdle DEF Intents, Goto, Operations
  <1>3. Len(op.rows) \in Nat /\ DOMAIN op.rows = 1 .. Len(op.rows)
    BY <1>1, Typed
  <1>4. PICK n \in 0 .. Len(op.rows) : journal' = journal \o [i \in 1 .. n |-> Intent(op.rows[i])]
    <2>1. Len(op.rows) \in 0 .. Len(op.rows)
      BY <1>3
    <2>2. CASE journal' = journal \o [i \in DOMAIN op.rows |-> Intent(op.rows[i])]
      BY <1>3, <2>1, <2>2
    <2>3. QED
      BY <2>2, Zenon DEF Intents
  <1> DEFINE r == [i \in 1 .. n |-> Intent(op.rows[i])]
  <1>5. r \in Seq(Records) /\ DOMAIN r = 1 .. n /\ \A k \in 1 .. n : r[k].kind = "intent"
    BY <1>1, IntentsTyped
  <1> HIDE DEF r
  <1>6. journal' = journal \o r
    BY <1>4 DEF r
  <1>7. Annotated
    BY <1>1, <1>5, <1>6, SomeAdded
  <1>8. QED
    BY <1>1, <1>2, <1>7, BetweenRowsQuietly

LEMMA SkipLeads ==
    ASSUME UndoInv, MoveInv', Skip
    PROVE  UndoInv'
  <1>1. /\ op.pc = "row" /\ op.pc \notin Pinning /\ UNCHANGED <<node, foreign>> /\ TypeOK /\ Control
        /\ op \in Operations
    BY DEF Skip, Pinning, Working, disk, seen, UndoInv, MoveInv, TypeOK
  <1>2. op'.pc = "row"
    BY <1>1 DEF Skip, Operations
  <1>3. row.id \in Nat /\ row.src \in Slots /\ row.dst \in Slots
    <2>1. op.i \in DOMAIN op.rows
      <3>1. op.i \in 1 .. Len(op.rows) + 1 /\ op.i <= Len(op.rows)
        BY <1>1 DEF Skip, Control
      <3>2. QED
        BY <1>1, <3>1, Typed
    <2>2. QED
      BY <1>1, <2>1, RowTyped, IdsAreNatural
  <1> DEFINE r == [Record("not_started", row.id) EXCEPT !.src = row.src, !.dst = row.dst]
  <1>4. r \in Records /\ r.kind = "not_started"
    <2>1. Record("not_started", row.id) \in Records /\ Record("not_started", row.id).kind = "not_started"
      BY <1>3, RecordTyped DEF RowKinds
    <2>2. QED
      BY <1>3, <2>1 DEF Records
  <1>5. journal' = Append(journal, r) \/ UNCHANGED journal
    BY DEF Skip, Append1, log
  <1> HIDE DEF r
  <1>6. Annotated
    BY <1>1, <1>4, <1>5, OneAdded, NothingAdded
  <1>7. QED
    BY <1>1, <1>2, <1>6, BetweenRowsQuietly

LEMMA FinishLeads ==
    ASSUME UndoInv, MoveInv', Finish
    PROVE  UndoInv'
  <1>1. op.pc \notin Pinning /\ UNCHANGED <<node, journal, foreign>> /\ op'.pc = "idle"
    BY EndsIdle DEF Finish, Pinning, Working, disk, seen
  <1>2. Annotated
    BY <1>1, NothingAdded DEF UndoInv, MoveInv
  <1>3. QED
    BY <1>1, <1>2, BetweenRowsQuietly

LEMMA RecordUndoLeads ==
    ASSUME UndoInv, MoveInv', RecordUndo
    PROVE  UndoInv'
  <1>1. /\ op.pc \notin Pinning /\ UNCHANGED <<node, foreign>> /\ op'.pc = "idle" /\ TypeOK
        /\ op.undo \in Nat
    BY EndsIdle DEF RecordUndo, Pinning, Working, disk, seen, UndoInv, MoveInv, TypeOK, Operations
  <1> DEFINE r == Record("undo", op.undo)
  <1>2. r \in Records /\ r.kind = "undo"
    BY <1>1, RecordTyped
  <1>3. journal' = Append(journal, r) \/ UNCHANGED journal
    BY DEF RecordUndo, log
  <1> HIDE DEF r
  <1>4. Annotated
    BY <1>1, <1>2, <1>3, OneAdded, NothingAdded
  <1>5. QED
    BY <1>1, <1>4, BetweenRowsQuietly

\* A result that is recorded is the object as it is.
LEMMA RecordResultLeads ==
    ASSUME UndoInv, MoveInv', RecordResult
    PROVE  UndoInv'
  <1>1. /\ op.pc = "record" /\ op.pc \notin Pinning /\ UNCHANGED <<node, foreign>> /\ TypeOK
        /\ op \in Operations /\ MoveInv
    BY DEF RecordResult, Pinning, Working, disk, seen, UndoInv, MoveInv, TypeOK
  <1>2. op'.pc = "row"
    BY <1>1 DEF RecordResult, Operations
  <1>3. CASE journal' = Append(journal, Result)
    <2>1. Result \in Records /\ Result.kind # "identity_change"
          /\ (Result.kind = "operation" => ~t.error /\ Result.after = t.done)
      BY <1>1, ResultFits
    <2>2. Extended /\ \A j \in DOMAIN journal' \ DOMAIN journal : journal'[j] = Result
      BY <1>1, <1>3, <2>1, OneAdded
    <2>3. ~t.error => t.done.ino \in DOMAIN node /\ (Broken(t.done.ino) \/ Identity(t.done.ino) = t.done)
      BY <1>1 DEF UndoInv, ResultIsCurrent
    <2>4. QED
      BY <1>1, <1>2, <2>1, <2>2, <2>3, BetweenRows
  <1>4. CASE UNCHANGED journal
    BY <1>1, <1>2, <1>4, NothingAdded, BetweenRowsQuietly
  <1>5. QED
    BY <1>3, <1>4 DEF RecordResult, Append1, log

\* A row that lets go of its object leaves it as the journal says, or broken.
LEMMA Unpins ==
    ASSUME UndoInv, MoveInv', Annotated, UNCHANGED node, foreign \subseteq foreign', op.pc \in Pinning,
           op'.pc \in {"idle", "record"}, ResultIsCurrent',
           Pinned = t.expected \/ node[t.ino].data = Partial \/ t.ino \in foreign'
    PROVE  UndoInv'
  <1>1. op'.pc \notin Pinning /\ op'.pc # "publish_copy"
    BY DEF Pinning, Working
  <1>2. TypeOK /\ t.ino \in DOMAIN node /\ t \in Handles
    BY PinnedFacts DEF UndoInv
  <1>3. \A n : Broken(n) => Broken(n)'
    BY DEF Broken
  <1>4. \A n : Base(n)' = Identity(n) /\ (n # t.ino => Base(n) = Identity(n))
    BY <1>1 DEF Base, Identity
  <1>5. Base(t.ino) = t.expected /\ Pinned = Identity(t.ino)
    BY DEF Base, Pinned
  <1>6. \A n : Broken(n)' \/ Base(n)' = Base(n)
    BY <1>4, <1>5 DEF Broken
  <1>7. \A n \in Recorded : Base(n)'.ctime \in Nat /\ Base(n)'.ctime >= Base(n).ctime
    <2>1. SUFFICES ASSUME NEW n \in DOMAIN node
                   PROVE  Base(n)'.ctime \in Nat /\ Base(n)'.ctime >= Base(n).ctime
      BY RecordedInodes
    <2>2. Base(n)'.ctime = node[n].ctime /\ node[n].ctime \in Nat
      BY <1>2, <1>4, IdentityTyped, Typed DEF Nodes
    <2>3. CASE n = t.ino
      <3>1. t.expected.ctime <= node[t.ino].ctime
        BY DEF UndoInv, PinIsDated
      <3>2. QED
        BY <1>5, <2>2, <2>3, <3>1, <1>2 DEF Handles, Identities
    <2>4. CASE n # t.ino
      BY <1>4, <2>2, <2>4
    <2>5. QED
      BY <2>3, <2>4
  <1>8. RecordsAreDated' /\ ChainsLead'
    BY <1>3, <1>6, <1>7, StillLeads DEF MoveInv, Annotated
  <1>9. PinIsDated' /\ CopyIsNew'
    BY <1>1 DEF PinIsDated, CopyIsNew
  <1>10. QED
    BY <1>8, <1>9 DEF UndoInv

LEMMA UndoIntentLeads ==
    ASSUME UndoInv, MoveInv', UndoIntent
    PROVE  UndoInv'
  <1>1. op.pc = "undo_intent" /\ op.pc \in Pinning /\ UNCHANGED <<node, foreign>>
    BY DEF UndoIntent, Pinning, disk, seen
  <1>2. /\ TypeOK /\ Control /\ op \in Operations /\ t \in Handles /\ t = op.t /\ op.i \in DOMAIN op.rows
        /\ op.undo # None /\ op.action # "copy"
    BY <1>1, PinnedFacts DEF UndoInv, Control
  <1> DEFINE names == {CaptureAt} \cup (IF row.device = row.to THEN {} ELSE {CopyAt})
             r == [Record("undo_intent", op.undo) EXCEPT !.paths = names]
  <1>3. CASE journal' = Append(journal, r) /\ Goto("capture")
    <2>1. names \in SUBSET Slots
      BY <1>2, OwnSlots
    <2>2. Record("undo_intent", op.undo) \in Records /\ Record("undo_intent", op.undo).kind = "undo_intent"
      BY <1>2, RecordTyped DEF Operations
    <2>3. r \in Records /\ r.kind = "undo_intent"
      BY <2>1, <2>2 DEF Records
    <2> HIDE DEF r
    <2>4. Annotated
      BY <1>2, <1>3, <2>3, OneAdded
    <2>5. op'.pc = "capture" /\ op'.pc \in Pinning /\ t' = t /\ op'.action = op.action
      BY <1>2, <1>3 DEF Goto, Operations, t, Pinning, Working
    <2>6. \A n : (Broken(n)' <=> Broken(n)) /\ Base(n)' = Base(n)
      BY <1>1, <2>5 DEF Broken, Base, Identity
    <2>7. \A n \in Recorded : Base(n)'.ctime \in Nat /\ Base(n)'.ctime >= Base(n).ctime
      BY <2>6, RecordedInodes, BaseFits
    <2>8. RecordsAreDated' /\ ChainsLead'
      BY <1>1, <2>4, <2>6, <2>7, StillLeads DEF MoveInv, Annotated
    <2>9. PinIsDated' /\ CopyIsNew' /\ ResultIsCurrent'
      BY <1>1, <1>2, <2>5 DEF UndoInv, PinIsDated, CopyIsNew, ResultIsCurrent, Broken
    <2>10. QED
      BY <2>8, <2>9 DEF UndoInv
  <1>4. CASE End /\ UNCHANGED log
    <2>1. op'.pc = "idle" /\ UNCHANGED journal
      BY <1>4, EndsIdle DEF log
    <2>2. Annotated
      BY <1>2, <2>1, NothingAdded
    <2>3. Pinned = t.expected \/ t.ino \in foreign
      BY <1>1 DEF UndoInv, PinIsDated
    <2>4. ResultIsCurrent'
      BY <2>1 DEF ResultIsCurrent
    <2>5. QED
      BY <1>1, <2>1, <2>2, <2>3, <2>4, Unpins
  <1>5. QED
    BY <1>3, <1>4 DEF UndoIntent

LEMMA CrashLeads ==
    ASSUME UndoInv, MoveInv', Crash
    PROVE  UndoInv'
  <1>1. TypeOK /\ RecordsAreDated /\ PinIsDated
    BY DEF UndoInv, MoveInv
  <1>2. UNCHANGED node /\ foreign' = DOMAIN node /\ op'.pc = "idle" /\ op'.pc \notin Pinning
    BY EndsIdle DEF Crash, disk, Pinning, Working
  <1>3. PICK n \in synced .. Len(journal) : journal' = SubSeq(journal, 1, n) /\ synced' = n
    BY DEF Crash
  <1>4. n \in 0 .. Len(journal)
    BY <1>1 DEF TypeOK
  <1>5. DOMAIN journal' \subseteq DOMAIN journal /\ \A j \in DOMAIN journal' : journal'[j] = journal[j]
    BY <1>1, <1>3, <1>4, Cutting
  <1>6. /\ Changes' \subseteq Changes /\ Completed' \subseteq Completed
        /\ \A j \in Changes' \cup Completed' : journal'[j] = journal[j]
    BY <1>5 DEF Changes, Completed
  <1>7. ASSUME NEW m \in DOMAIN node
        PROVE  Broken(m)' /\ Base(m)'.ctime \in Nat /\ Base(m)'.ctime >= Base(m).ctime /\ Base(m).ctime \in Nat
    <2>1. Broken(m)' /\ Base(m)' = Identity(m)
      BY <1>2 DEF Broken, Base, Identity
    <2>2. Base(m)'.ctime = node[m].ctime /\ node[m].ctime \in Nat /\ Base(m).ctime \in Nat
      BY <1>1, <2>1, IdentityTyped, Typed, BaseFits DEF Nodes
    <2>3. Base(m).ctime <= node[m].ctime
      <3>1. CASE op.pc \in Pinning /\ m = t.ino
        BY <1>1, <3>1 DEF PinIsDated, Base
      <3>2. CASE ~(op.pc \in Pinning /\ m = t.ino)
        BY <1>1, <2>2, <3>2, IdentityTyped DEF Base
      <3>3. QED
        BY <3>1, <3>2
    <2>4. QED
      BY <2>1, <2>2, <2>3
  <1>8. RecordsAreDated'
    <2>1. ASSUME NEW m \in DOMAIN node, NEW j \in Changes, journal[j].after.ino = m
          PROVE  journal[j].after.ctime <= Base(m)'.ctime
      <3>1. journal[j].after.ctime <= Base(m).ctime
        BY <1>1, <2>1 DEF RecordsAreDated
      <3>2. journal[j].after.ctime \in Nat
        BY <1>1, Typed DEF Changes, Records, Identities
      <3>3. QED
        BY <1>7, <3>1, <3>2
    <2>2. QED
      BY <1>1, <1>2, <1>6, <2>1 DEF RecordsAreDated
  <1>9. ChainsLead'
    <2>1. \A x \in {journal'[j].after : j \in Completed'} : Broken(x.ino)'
      BY <1>1, <1>6, <1>7 DEF RecordsAreDated
    <2>2. QED
      BY <2>1 DEF ChainsLead
  <1>10. PinIsDated' /\ CopyIsNew' /\ ResultIsCurrent'
    BY <1>2 DEF PinIsDated, CopyIsNew, ResultIsCurrent
  <1>11. QED
    BY <1>8, <1>9, <1>10 DEF UndoInv

LEMMA OthersLead ==
    ASSUME UndoInv, MoveInv', NEW p \in Paths, Others(p)
    PROVE  UndoInv'
  <1>1. TypeOK /\ RecordsAreDated /\ PinIsDated
    BY DEF UndoInv, MoveInv
  <1>2. /\ UNCHANGED <<op, journal>> /\ t' = t /\ row' = row /\ CopyAt' = CopyAt
        /\ DOMAIN node \subseteq DOMAIN node' /\ node' \in Seq(Nodes)
    BY DEF Others, t, row, CopyAt
  <1>3. ASSUME NEW n \in DOMAIN node
        PROVE  /\ n \in foreign' \/ node'[n] = node[n]
               /\ n \in foreign => n \in foreign'
               /\ node'[n].ctime \in Nat /\ node[n].ctime \in Nat /\ node'[n].ctime >= node[n].ctime
    <2>1. node'[n] \in Nodes /\ node[n] \in Nodes
      <3>1. n \in DOMAIN node'
        BY <1>2
      <3>2. QED
        BY <1>1, <1>2, <3>1, Typed, ElementOfSeq
    <2>2. QED
      BY <2>1 DEF Others, Nodes
  <1>4. ASSUME NEW n \in DOMAIN node
        PROVE  /\ Broken(n) => Broken(n)'
               /\ Broken(n)' \/ Base(n)' = Base(n)
               /\ Base(n)'.ctime \in Nat /\ Base(n)'.ctime >= Base(n).ctime
    <2>1. Broken(n) => Broken(n)'
      BY <1>3 DEF Broken
    <2>2. Broken(n)' \/ Base(n)' = Base(n)
      BY <1>2, <1>3 DEF Broken, Base, Identity
    <2>3. CASE op.pc \in Pinning /\ n = t.ino
      <3>1. Base(n)' = Base(n)
        BY <1>2, <2>3 DEF Base
      <3>2. QED
        BY <2>1, <3>1, BaseFits
    <2>4. CASE ~(op.pc \in Pinning /\ n = t.ino)
      <3>1. Base(n)'.ctime = node'[n].ctime /\ Base(n).ctime = node[n].ctime
        BY <1>2, <2>4 DEF Base, Identity
      <3>2. QED
        BY <1>3, <2>1, <2>2, <3>1
    <2>5. QED
      BY <2>3, <2>4
  <1>5. Extended /\ DOMAIN journal' \ DOMAIN journal = {}
    BY <1>1, <1>2, NothingAdded DEF Annotated
  <1>6. RecordsAreDated' /\ ChainsLead'
    BY <1>2, <1>4, <1>5, RecordedInodes, StillLeads DEF MoveInv
  <1>7. PinIsDated'
    <2>1. SUFFICES ASSUME op.pc \in Pinning
                   PROVE  /\ t.expected.ctime <= node'[t.ino].ctime
                          /\ node'[t.ino].data = t.expected.data \/ t.ino \in foreign' \/ node'[t.ino].data = Partial
                          /\ op.pc = "undo_intent" \/ op.action = "copy" =>
                               [ino |-> t.ino, data |-> node'[t.ino].data, ctime |-> node'[t.ino].ctime] = t.expected \/ t.ino \in foreign'
      BY <1>2 DEF PinIsDated, Broken, Pinned, Identity
    <2>2. t.ino \in DOMAIN node /\ t.expected.ctime \in Nat
      BY <2>1, PinnedFacts DEF UndoInv, Handles, Identities
    <2>3. t.expected.ctime <= node[t.ino].ctime
      BY <1>1, <2>1 DEF PinIsDated
    <2>4. t.expected.ctime <= node'[t.ino].ctime
      BY <1>3, <2>2, <2>3
    <2>5. QED
      BY <1>1, <1>3, <2>1, <2>2, <2>4 DEF PinIsDated, Broken, Pinned, Identity
  <1>8. CopyIsNew'
    <2>1. SUFFICES ASSUME op.pc = "publish_copy" PROVE fs'[CopyAt] = fs[CopyAt]
      BY <1>2 DEF CopyIsNew, UndoInv, Completed, Changes
    <2>2. op.pc \in Pinning
      BY <2>1 DEF Pinning, Working
    <2>3. CopyAt \in Slots /\ CopyAt[1] = "copy"
      BY <2>2, PinnedFacts, OwnSlots DEF UndoInv
    <2>4. CopyAt # PathSlot(p)
      BY <2>3, SlotKinds
    <2>5. QED
      BY <2>3, <2>4 DEF Others
  <1>9. ResultIsCurrent'
    <2>1. SUFFICES ASSUME op.pc \in {"remove", "change", "record"}, ~t.error
                   PROVE  /\ t.done.ino \in DOMAIN node' /\ (op.pc = "remove" => t.done.ino # t.ino)
                          /\ Broken(t.done.ino)' \/ Identity(t.done.ino)' = t.done
      BY <1>2 DEF ResultIsCurrent, UndoInv
    <2>2. /\ t.done.ino \in DOMAIN node /\ (op.pc = "remove" => t.done.ino # t.ino)
          /\ Broken(t.done.ino) \/ Identity(t.done.ino) = t.done
      BY <2>1 DEF UndoInv, ResultIsCurrent
    <2>3. QED
      BY <1>2, <1>3, <2>2 DEF Broken, Identity
  <1>10. QED
    BY <1>6, <1>7, <1>8, <1>9 DEF UndoInv


\* A change that is recorded takes the chains of its inode on to what it is now.
LEMMA ChangeLeads ==
    ASSUME UndoInv, MoveInv', op.pc = "change", OwnChange,
           UNCHANGED <<node, foreign>>, op'.pc = "record", t' = t,
           NEW a, NEW b, NEW k \in Nat, NEW r \in Records,
           a = Pinned, b = t.expected, k = Len(journal) + 1,
           r.kind = "identity_change", r.before = b, r.after = a,
           journal' \in Seq(Records), Len(journal') = Len(journal) + 1,
           DOMAIN journal' = DOMAIN journal \cup {k}, k \notin DOMAIN journal,
           \A j \in DOMAIN journal : journal'[j] = journal[j], journal'[k] = r
    PROVE  UndoInv'
  <1>1. op.pc \in Pinning /\ op'.pc \notin Pinning
    BY DEF Pinning, Working
  <1>2. /\ TypeOK /\ Control /\ RecordsFit /\ RecordsFit' /\ RecordsAreDated /\ t \in Handles /\ t.ino \in DOMAIN node
        /\ t.expected.ino = t.ino
    BY <1>1, PinnedFacts DEF UndoInv, MoveInv
  <1>3. /\ a \in Identities /\ b \in Identities /\ a.ino = t.ino /\ b.ino = t.ino /\ a = Identity(t.ino)
        /\ a.ctime = node[t.ino].ctime /\ a.ctime \in Nat /\ b.ctime \in Nat
    BY <1>2, IdentityTyped DEF Pinned, Handles, Identities
  <1>4. b.ctime < a.ctime
    <2>1. b.ctime <= a.ctime
      BY <1>1, <1>3 DEF UndoInv, PinIsDated
    <2>2. a # b /\ a.ino = b.ino /\ a.data = b.data
      BY DEF OwnChange, hasSamePayload
    <2>3. a.ctime # b.ctime
      BY <1>3, <2>2 DEF Identities
    <2>4. QED
      BY <1>3, <2>1, <2>3
  <1>5. /\ Len(journal) \in Nat /\ journal \in Seq(Records) /\ DOMAIN journal = 1 .. Len(journal)
        /\ Len(journal') \in Nat /\ Len(journal) < Len(journal') /\ Len(journal) <= Len(journal')
    BY <1>2, Typed
  <1>6. /\ Changes' = Changes \cup {k} /\ Completed' = Completed
        /\ \A j \in Changes \cup Completed : j # k /\ journal'[j] = journal[j]
    BY <1>5 DEF Changes, Completed
  <1>7. /\ \A n : (Broken(n)' <=> Broken(n)) /\ Base(n)' = Identity(n) /\ (n # t.ino => Base(n) = Identity(n))
        /\ Base(t.ino) = b
    BY <1>1 DEF Broken, Base, Identity
  <1>8. RecordsAreDated'
    <2>1. ASSUME NEW n \in DOMAIN node, NEW j \in Changes', journal'[j].after.ino = n
          PROVE  journal'[j].after.ctime <= Base(n)'.ctime
      <3>1. CASE j = k
        BY <1>3, <1>5, <1>7, <2>1, <3>1
      <3>2. CASE j \in Changes
        <4>1. journal[j].after.ino = n /\ journal[j].after.ctime <= Base(n).ctime
          BY <1>2, <1>6, <2>1, <3>2 DEF RecordsAreDated
        <4>2. journal[j].after.ctime \in Nat
          BY <1>2, <3>2, Typed DEF Changes, Records, Identities
        <4>3. CASE n = t.ino
          <5>1. Base(n)' = a /\ Base(n) = b
            BY <1>3, <1>7, <4>3
          <5>2. QED
            BY <1>3, <1>4, <1>6, <3>2, <4>1, <4>2, <5>1
        <4>4. CASE n # t.ino
          BY <1>6, <1>7, <3>2, <4>1, <4>4
        <4>5. QED
          BY <4>3, <4>4
      <3>3. QED
        BY <1>6, <3>1, <3>2
    <2>2. \A j \in Changes' : journal'[j].after.ino \in DOMAIN node /\ journal'[j].before.ctime < journal'[j].after.ctime
      BY <1>2, <1>3, <1>4, <1>5, <1>6 DEF RecordsAreDated
    <2>3. QED
      BY <1>2, <1>6, <2>1, <2>2 DEF RecordsAreDated
  <1>9. ASSUME NEW y, y # b PROVE FollowingIn(journal', y) = FollowingIn(journal, y)
    <2>1. DOMAIN journal \subseteq Nat /\ \A i \in DOMAIN journal : i <= Len(journal)
      BY <1>5
    <2>2. \A i \in DOMAIN journal' \ DOMAIN journal : journal'[i].kind = "identity_change" => journal'[i].before # y
      BY <1>5, <1>9
    <2>3. QED
      BY <1>5, <2>1, <2>2, FollowingSame
  <1>10. FollowingIn(journal', b) = a
    <2> DEFINE L == {i \in DOMAIN journal' : journal'[i].kind = "identity_change" /\ journal'[i].before = b}
    <2>1. \A i \in Changes : journal[i].before # b
      BY <1>2, <1>7, BaseFits
    <2>2. L = {k}
      BY <1>5, <2>1 DEF Changes
    <2>3. Max(L) = k
      <3>1. L \subseteq Nat /\ L # {} /\ \A i \in L : i <= k
        BY <2>2
      <3>2. Max(L) \in L
        <4> HIDE DEF L
        <4>1. QED
          BY <3>1, MaxOfBounded
      <3>3. QED
        BY <2>2, <3>2
    <2>4. QED
      BY <1>5, <2>2, <2>3 DEF FollowingIn
  <1>11. FollowingIn(journal, b) = b
    BY <1>2, <1>7, BaseFits
  <1>12. FollowingIn(journal', a) = a
    <2>1. a # b
      BY <1>3, <1>4
    <2>2. \A i \in DOMAIN journal' : journal'[i].kind = "identity_change" =>
             /\ journal'[i].before.ino = journal'[i].after.ino
             /\ journal'[i].before.ctime < journal'[i].after.ctime
             /\ journal'[i].after.ino = a.ino => journal'[i].after.ctime <= a.ctime
      <3>1. \A n \in DOMAIN node, j \in Changes' : journal'[j].after.ino = n => journal'[j].after.ctime <= Identity(n).ctime
        BY <1>7, <1>8 DEF RecordsAreDated
      <3>2. QED
        BY <1>2, <1>3, <1>8, <3>1 DEF RecordsAreDated, RecordsFit, Changes
    <2>3. QED
      BY <1>3, <1>5, <2>2, LastIsFixed
  <1>13. ChainsLead'
    <2>1. SUFFICES ASSUME NEW j \in Completed, NEW x, x = journal[j].after
                   PROVE  Broken(x.ino)' \/ CurrentIn(journal', x) = Base(x.ino)'
      <3>1. \A x \in {journal[j].after : j \in Completed} :
              Broken(x.ino)' \/ CurrentIn(journal', x) = Base(x.ino)'
        BY <2>1
      <3>2. \A x \in {journal'[j].after : j \in Completed'} : Broken(x.ino)' \/ Current(x)' = Base(x.ino)'
        BY <1>6, <3>1, InJournal
      <3>3. QED
        BY <3>2 DEF ChainsLead
    <2> DEFINE n == x.ino
               S == {y \in Identities : y.ino = n}
    <2>2. x \in Identities /\ n \in DOMAIN node /\ x \in S
      BY <1>2, <2>1, Typed DEF Completed, Records, RecordsAreDated
    <2>3. Broken(n) \/ CurrentIn(journal, x) = Base(n)
      BY <2>1, InJournal DEF UndoInv, ChainsLead
    <2>4. \A y \in S : FollowingIn(journal, y) \in S
      BY <1>2, FollowingFits, InJournal
    <2> HIDE DEF n, S
    <2>5. ASSUME CurrentIn(journal, x) = Base(n) PROVE CurrentIn(journal', x) = Base(n)'
      <3>1. CASE n = t.ino
        <4>1. Base(n) = b /\ Base(n)' = a
          BY <1>3, <1>7, <3>1
        <4>2. \A y \in S : y # b => FollowingIn(journal', y) = FollowingIn(journal, y)
          BY <1>9
        <4>3. CurrentIn(journal', x) = a
          BY <1>5, <1>10, <1>11, <1>12, <2>2, <2>4, <2>5, <4>1, <4>2, Lead
        <4>4. QED
          BY <4>1, <4>3
      <3>2. CASE n # t.ino
        <4>1. Base(n)' = Base(n) /\ FollowingIn(journal, Base(n)) = Base(n) /\ Base(n).ino = n
          BY <1>7, <2>2, <3>2, BaseFits
        <4>2. b \notin S /\ Base(n) # b
          BY <1>3, <3>2, <4>1 DEF S
        <4>3. FollowingIn(journal', Base(n)) = Base(n) /\ \A y \in S : FollowingIn(journal', y) = FollowingIn(journal, y)
          BY <1>9, <4>1, <4>2
        <4>4. CurrentIn(journal', x) = Base(n)
          BY <1>5, <2>2, <2>4, <2>5, <4>1, <4>3, Lead
        <4>5. QED
          BY <4>1, <4>4
      <3>3. QED
        BY <3>1, <3>2
    <2>6. Broken(n)' \/ CurrentIn(journal', x) = Base(n)'
      BY <1>7, <2>3, <2>5
    <2>7. QED
      BY <2>6 DEF n
  <1>14. PinIsDated' /\ CopyIsNew'
    BY <1>1 DEF PinIsDated, CopyIsNew
  <1>15. ResultIsCurrent'
    BY DEF UndoInv, ResultIsCurrent, Broken, Identity
  <1>16. QED
    BY <1>8, <1>13, <1>14, <1>15 DEF UndoInv

LEMMA RecordChangeLeads ==
    ASSUME UndoInv, MoveInv', RecordChange
    PROVE  UndoInv'
  <1>1. op.pc = "change" /\ op.pc \in Pinning /\ UNCHANGED node
    BY DEF RecordChange, Pinning, Working, disk
  <1>2. TypeOK /\ op \in Operations /\ t \in Handles /\ t = op.t /\ t.ino \in DOMAIN node /\ t.expected.ino = t.ino
    BY <1>1, PinnedFacts DEF UndoInv
  <1>3. ASSUME Goto("record") PROVE op'.pc = "record" /\ t' = t
    BY <1>2, <1>3 DEF Goto, Operations, t
  <1>4. CASE OwnChange /\ Append1(Change) /\ Goto("record") /\ UNCHANGED foreign
    <2> DEFINE r == Change
               k == Len(journal) + 1
    <2>1. r \in Records /\ r.kind = "identity_change" /\ r.before = t.expected /\ r.after = Pinned
      <3>1. row.id \in Nat /\ t.expected \in Identities /\ Pinned \in Identities
        BY <1>1, <1>2, PinnedFacts, OwnSlots, IdsAreNatural, IdentityTyped DEF UndoInv, Handles, Pinned
      <3>2. Record("identity_change", row.id) \in Records /\ Record("identity_change", row.id).kind = "identity_change"
        BY <3>1, RecordTyped
      <3>3. QED
        BY <3>1, <3>2 DEF Change, Records
    <2>2. journal' = Append(journal, r)
      BY <1>4 DEF Append1
    <2> HIDE DEF r
    <2>3. /\ journal' \in Seq(Records) /\ Len(journal') = Len(journal) + 1 /\ k \in Nat
          /\ DOMAIN journal' = DOMAIN journal \cup {k} /\ k \notin DOMAIN journal
          /\ \A j \in DOMAIN journal : journal'[j] = journal[j]
          /\ journal'[k] = r /\ k = Len(journal) + 1
      BY <1>2, <2>1, <2>2, Appending, Typed
    <2> HIDE DEF k
    <2>4. QED
      BY <1>1, <1>3, <1>4, <2>1, <2>3, ChangeLeads
  <1>5. CASE ~OwnChange /\ UNCHANGED log /\ Goto("record") /\ UNCHANGED foreign
    <2>1. Annotated
      BY <1>2, <1>5, NothingAdded DEF log
    <2>2. Pinned = t.expected \/ node[t.ino].data = Partial \/ t.ino \in foreign
      <3>1. Pinned.ino = t.ino /\ Pinned.data = node[t.ino].data
        BY <1>2, IdentityTyped DEF Pinned
      <3>2. /\ node[t.ino].data = t.expected.data \/ Broken(t.ino)
            /\ op.action = "copy" => Pinned = t.expected \/ t.ino \in foreign
        BY <1>1 DEF UndoInv, PinIsDated
      <3>3. QED
        BY <1>2, <1>5, <3>1, <3>2 DEF OwnChange, hasSamePayload, Broken
    <2>3. ResultIsCurrent'
      BY <1>1, <1>3, <1>5 DEF UndoInv, ResultIsCurrent, Broken, Identity
    <2>4. QED
      BY <1>1, <1>3, <1>5, <2>1, <2>2, <2>3, Unpins
  <1>6. CASE /\ UNCHANGED log /\ foreign' = foreign \cup {t.ino}
             /\ op' = [op EXCEPT !.pc = "record", !.t.error = TRUE, !.t.named = FALSE]
    <2>1. Annotated
      BY <1>2, <1>6, NothingAdded DEF log
    <2>2. op'.pc = "record" /\ t'.error
      BY <1>2, <1>6 DEF Operations, Handles, t
    <2>3. ResultIsCurrent'
      BY <2>2 DEF ResultIsCurrent
    <2>4. QED
      BY <1>1, <1>6, <2>1, <2>2, <2>3, Unpins
  <1>7. QED
    BY <1>4, <1>5, <1>6 DEF RecordChange

-----------------------------------------------------------------------------
\* A transfer changes no recorded object but the pinned one and those that other
\* programs have changed

DiskFits ==
  /\ DOMAIN node \subseteq DOMAIN node'
  /\ \A n \in DOMAIN node : /\ node'[n].ctime \in Nat /\ node'[n].ctime >= node[n].ctime
                            /\ node'[n].data \in {node[n].data, Partial}
  /\ \A n \in Recorded : n \notin {t.ino} \cup foreign => node'[n] = node[n]
  /\ op.action = "copy" => node'[t.ino] = node[t.ino]

LEMMA DiskLeads ==
    ASSUME UndoInv, MoveInv', Transfer, DiskFits, CopyIsNew', ResultIsCurrent'
    PROVE  UndoInv'
  <1>1. /\ UNCHANGED <<journal, foreign>> /\ op.pc \in Working /\ op'.pc \in Working
        /\ op'.action = op.action /\ t'.ino = t.ino /\ t'.expected = t.expected
        /\ op'.pc # "undo_intent"
    BY TransferIsQuiet DEF UndoInv
  <1>2. op.pc \in Pinning /\ op'.pc \in Pinning /\ op.pc # "undo_intent"
    BY <1>1 DEF Pinning, Working
  <1>3. TypeOK /\ t \in Handles /\ t.ino \in DOMAIN node
    BY <1>2, PinnedFacts DEF UndoInv
  <1>4. \A n \in DOMAIN node : Broken(n) => Broken(n)'
    BY <1>1 DEF DiskFits, Broken
  <1>5. \A n \in Recorded : Broken(n)' \/ Base(n)' = Base(n)
    BY <1>1, <1>2 DEF DiskFits, Broken, Base, Identity
  <1>6. \A n \in DOMAIN node : Base(n)'.ctime \in Nat /\ Base(n)'.ctime >= Base(n).ctime
    <2>1. SUFFICES ASSUME NEW n \in DOMAIN node
                   PROVE  Base(n)'.ctime \in Nat /\ Base(n)'.ctime >= Base(n).ctime
      OBVIOUS
    <2>2. CASE n = t.ino
      <3>1. Base(n)' = Base(n)
        BY <1>1, <1>2, <2>2 DEF Base
      <3>2. QED
        BY <3>1, BaseFits
    <2>3. CASE n # t.ino
      <3>1. Base(n)'.ctime = node'[n].ctime /\ Base(n).ctime = node[n].ctime
        BY <1>1, <2>3 DEF Base, Identity
      <3>2. QED
        BY <3>1 DEF DiskFits
    <2>4. QED
      BY <2>2, <2>3
  <1>7. Extended /\ DOMAIN journal' \ DOMAIN journal = {}
    BY <1>1, <1>3, NothingAdded DEF Annotated
  <1>8. RecordsAreDated' /\ ChainsLead'
    BY <1>4, <1>5, <1>6, <1>7, RecordedInodes, StillLeads DEF MoveInv, DiskFits
  <1>9. PinIsDated'
    <2>1. /\ t.expected.ctime <= node[t.ino].ctime
          /\ node[t.ino].data = t.expected.data \/ t.ino \in foreign \/ node[t.ino].data = Partial
          /\ op.action = "copy" =>
               [ino |-> t.ino, data |-> node[t.ino].data, ctime |-> node[t.ino].ctime] = t.expected \/ t.ino \in foreign
      BY <1>2 DEF UndoInv, PinIsDated, Broken, Pinned, Identity
    <2>2. t.expected.ctime \in Nat /\ node[t.ino].ctime \in Nat
      BY <1>3, Typed DEF Handles, Identities, Nodes
    <2>3. t.expected.ctime <= node'[t.ino].ctime
      BY <1>3, <2>1, <2>2 DEF DiskFits
    <2>4. node'[t.ino].data = t.expected.data \/ t.ino \in foreign \/ node'[t.ino].data = Partial
      BY <1>3, <2>1 DEF DiskFits
    <2>5. op.action = "copy" =>
            [ino |-> t.ino, data |-> node'[t.ino].data, ctime |-> node'[t.ino].ctime] = t.expected \/ t.ino \in foreign
      BY <2>1 DEF DiskFits
    <2>6. QED
      BY <1>1, <2>3, <2>4, <2>5 DEF PinIsDated, Broken, Pinned, Identity
  <1>10. QED
    BY <1>8, <1>9 DEF UndoInv

LEMMA DiskStays ==
    ASSUME TypeOK, UNCHANGED node
    PROVE  DiskFits
  BY Typed DEF DiskFits, Nodes

LEMMA DiskTouched ==
    ASSUME TypeOK, NEW m \in DOMAIN node, node' = Touched(node, m),
           m \in {t.ino} \cup foreign \/ m \notin Recorded,
           op.action = "copy" => m # t.ino, t.ino \in DOMAIN node
    PROVE  DiskFits /\ node'[m].data = node[m].data /\ node'[m].ctime = node[m].ctime + 1
           /\ \A n \in DOMAIN node : n # m => node'[n] = node[n]
  <1>1. /\ DOMAIN node' = DOMAIN node
        /\ node'[m].data = node[m].data /\ node'[m].ctime = node[m].ctime + 1
        /\ \A n \in DOMAIN node : n # m => node'[n] = node[n]
    BY Touching
  <1>2. \A n \in DOMAIN node : node[n].ctime \in Nat
    BY Typed DEF Nodes
  <1>3. \A n \in DOMAIN node : /\ node'[n].ctime \in Nat /\ node'[n].ctime >= node[n].ctime
                               /\ node'[n].data \in {node[n].data, Partial}
    BY <1>1, <1>2
  <1>4. \A n \in Recorded : n \notin {t.ino} \cup foreign => node'[n] = node[n]
    <2>1. SUFFICES ASSUME NEW n \in Recorded, n \notin {t.ino} \cup foreign PROVE node'[n] = node[n]
      OBVIOUS
    <2>2. n # m
      BY <2>1
    <2>3. CASE n \in DOMAIN node
      BY <1>1, <2>2, <2>3
    <2>4. CASE n \notin DOMAIN node
      BY <2>2, <2>4 DEF Touched
    <2>5. QED
      BY <2>3, <2>4
  <1>5. QED
    BY <1>1, <1>3, <1>4 DEF DiskFits

LEMMA FailLeads ==
    ASSUME MoveInv, op.pc \in Pinning, Fail
    PROVE  CopyIsNew' /\ ResultIsCurrent'
  <1>1. op \in Operations /\ t \in Handles /\ t = op.t
    BY PinnedFacts
  <1>2. op'.pc = "restore" /\ t'.error
    BY <1>1 DEF Fail, Operations, Handles, t
  <1>3. QED
    BY <1>2 DEF CopyIsNew, ResultIsCurrent

LEMMA CaptureLeads ==
    ASSUME UndoInv, Capture
    PROVE  DiskFits /\ CopyIsNew' /\ ResultIsCurrent'
  <1>1. op.pc = "capture" /\ op.pc \in Pinning /\ MoveInv
    BY DEF Capture, Pinning, Working, UndoInv
  <1>2. /\ TypeOK /\ op \in Operations /\ t.ino \in DOMAIN node /\ row.src \in Slots
        /\ op.action # "copy" /\ fs[row.src] \in {None, t.ino} \cup foreign
    BY <1>1, PinnedFacts DEF MoveInv, Captured
  <1>3. CASE Fail /\ UNCHANGED disk
    BY <1>1, <1>2, <1>3, FailLeads, DiskStays DEF disk
  <1>4. CASE /\ CanRename(row.src, CaptureAt) /\ Rename(row.src, CaptureAt)
             /\ op' = [op EXCEPT !.pc = "authorize", !.t.captured = TRUE]
    <2>1. op'.pc = "authorize"
      BY <1>2, <1>4 DEF Operations
    <2>2. fs[row.src] # None /\ fs[row.src] \in DOMAIN node /\ node' = Touched(node, fs[row.src])
      BY <1>2, <1>4, Typed DEF CanRename, Rename
    <2>3. DiskFits
      BY <1>2, <2>2, DiskTouched
    <2>4. QED
      BY <2>1, <2>3 DEF CopyIsNew, ResultIsCurrent
  <1>5. QED
    BY <1>3, <1>4, Zenon DEF Capture

LEMMA AuthorizeLeads ==
    ASSUME UndoInv, Authorize
    PROVE  DiskFits /\ CopyIsNew' /\ ResultIsCurrent'
  <1>1. op.pc \in Pinning /\ MoveInv /\ TypeOK /\ op \in Operations /\ UNCHANGED node
    BY DEF Authorize, Pinning, Working, UndoInv, MoveInv, TypeOK, disk
  <1>2. CASE Fail
    BY <1>1, <1>2, FailLeads, DiskStays
  <1>3. CASE ~Fail
    <2>1. op'.pc \in {"trash", "publish", "copy"}
      BY <1>1, <1>3 DEF Authorize, Goto, Operations
    <2>2. QED
      BY <1>1, <2>1, DiskStays DEF CopyIsNew, ResultIsCurrent
  <1>4. QED
    BY <1>2, <1>3

\* The captured object under its new name.
LEMMA PutAwayLeads ==
    ASSUME UndoInv, op.pc \in {"trash", "publish"}, Rename(CaptureAt, t.dst)
    PROVE  /\ DiskFits /\ fs[CaptureAt] = t.ino /\ t.ino \in DOMAIN node /\ t.ino \in DOMAIN node'
           /\ Moved(t.ino).ino = t.ino
           /\ [ino |-> t.ino, data |-> node'[t.ino].data, ctime |-> node'[t.ino].ctime] = Moved(t.ino)
  <1>1. op.pc \in Pinning /\ MoveInv
    BY DEF Pinning, Working, UndoInv
  <1>2. TypeOK /\ t.ino \in DOMAIN node /\ fs[CaptureAt] = t.ino /\ op.action # "copy"
    BY <1>1, PinnedFacts DEF MoveInv, Captured
  <1>3. node' = Touched(node, t.ino)
    BY <1>2 DEF Rename
  <1>4. /\ DiskFits /\ node'[t.ino].data = node[t.ino].data /\ node'[t.ino].ctime = node[t.ino].ctime + 1
    BY <1>2, <1>3, DiskTouched
  <1>5. [ino |-> t.ino, data |-> node'[t.ino].data, ctime |-> node'[t.ino].ctime] = Moved(t.ino)
    BY <1>4 DEF Moved, Identity
  <1>6. QED
    BY <1>2, <1>4, <1>5, IdentityTyped DEF DiskFits

LEMMA TrashLeads ==
    ASSUME UndoInv, Trash
    PROVE  DiskFits /\ CopyIsNew' /\ ResultIsCurrent'
  <1>1. op.pc = "trash" /\ op.pc \in Pinning /\ MoveInv
    BY DEF Trash, Pinning, Working, UndoInv
  <1>2. TypeOK /\ op \in Operations /\ t \in Handles /\ t = op.t
    BY <1>1, PinnedFacts
  <1>3. CASE Fail /\ UNCHANGED disk
    BY <1>1, <1>2, <1>3, FailLeads, DiskStays DEF disk
  <1>4. CASE /\ Rename(CaptureAt, t.dst)
             /\ op' = [op EXCEPT !.pc = "change", !.t.captured = FALSE, !.t.done = Moved(fs[CaptureAt])]
    <2>1. op'.pc = "change" /\ t'.done = Moved(fs[CaptureAt])
      BY <1>2, <1>4 DEF Operations, Handles, t
    <2>2. QED
      BY <1>1, <1>4, <2>1, PutAwayLeads DEF CopyIsNew, ResultIsCurrent, Identity, Broken
  <1>5. CASE /\ Rename(CaptureAt, t.dst)
             /\ op' = [op EXCEPT !.pc = "restore", !.t.captured = FALSE, !.t.error = TRUE]
    <2>1. op'.pc = "restore" /\ t'.error
      BY <1>2, <1>5 DEF Operations, Handles, t
    <2>2. QED
      BY <1>1, <1>5, <2>1, PutAwayLeads DEF CopyIsNew, ResultIsCurrent
  <1>6. QED
    BY <1>3, <1>4, <1>5, Zenon DEF Trash

LEMMA PublishLeads ==
    ASSUME UndoInv, Publish
    PROVE  DiskFits /\ CopyIsNew' /\ ResultIsCurrent'
  <1>1. op.pc = "publish" /\ op.pc \in Pinning /\ MoveInv
    BY DEF Publish, Pinning, Working, UndoInv
  <1>2. TypeOK /\ op \in Operations /\ t \in Handles /\ t = op.t
    BY <1>1, PinnedFacts
  <1>3. CASE Fail /\ UNCHANGED disk
    BY <1>1, <1>2, <1>3, FailLeads, DiskStays DEF disk
  <1>4. CASE /\ Rename(CaptureAt, t.dst)
             /\ op' = [op EXCEPT !.pc = "change", !.t.captured = FALSE, !.t.done = Moved(t.ino)]
    <2>1. op'.pc = "change" /\ t'.done = Moved(t.ino)
      BY <1>2, <1>4 DEF Operations, Handles, t
    <2>2. QED
      BY <1>1, <1>4, <2>1, PutAwayLeads DEF CopyIsNew, ResultIsCurrent, Identity, Broken
  <1>5. QED
    BY <1>3, <1>4, Zenon DEF Publish

LEMMA CopyLeads ==
    ASSUME UndoInv, Copy
    PROVE  DiskFits /\ CopyIsNew' /\ ResultIsCurrent'
  <1>1. op.pc = "copy" /\ op.pc \in Pinning /\ MoveInv
    BY DEF Copy, Pinning, Working, UndoInv
  <1>2. /\ TypeOK /\ op \in Operations /\ t \in Handles /\ t = op.t /\ t.ino \in DOMAIN node /\ CopyAt \in Slots
        /\ foreign \subseteq Nat
    BY <1>1, PinnedFacts
  <1> DEFINE Output(data) == /\ node' = Append(node, [data |-> data, ctime |-> 0])
                             /\ fs' = [fs EXCEPT ![CopyAt] = Len(node) + 1]
  <1>3. ASSUME NEW d \in Nat, Output(d)
        PROVE  DiskFits /\ fs'[CopyAt] \notin DOMAIN node
    <2>1. /\ DOMAIN node \subseteq DOMAIN node' /\ \A m \in DOMAIN node : node'[m] = node[m]
          /\ fs'[CopyAt] = Len(node) + 1 /\ Len(node) + 1 \notin DOMAIN node
      BY <1>2, <1>3, Growing
    <2>2. \A n \in DOMAIN node : node[n].ctime \in Nat
      BY <1>2, Typed DEF Nodes
    <2>3. QED
      BY <1>2, <2>1, <2>2, RecordedInodes DEF DiskFits
  <1>4. CASE Fail
    <2>1. UNCHANGED node \/ Output(Partial)
      BY <1>2, <1>4 DEF Copy, Fail, disk, Operations
    <2>2. Partial \in Nat
      BY DEF Partial
    <2>3. DiskFits
      BY <1>2, <1>3, <2>1, <2>2, DiskStays
    <2>4. QED
      BY <1>1, <1>4, <2>3, FailLeads
  <1>5. CASE Output(Pinned.data) /\ op' = [op EXCEPT !.pc = "publish_copy", !.t.output = TRUE]
    <2>1. Pinned.data \in Nat
      BY <1>2, IdentityTyped DEF Pinned, Identities
    <2>2. DiskFits /\ fs'[CopyAt] \notin DOMAIN node
      BY <1>3, <1>5, <2>1
    <2>3. op'.pc = "publish_copy" /\ UNCHANGED journal /\ CopyAt' = CopyAt
      <3>1. op'.pc = "publish_copy" /\ op'.rows = op.rows /\ op'.i = op.i
        BY <1>2, <1>5 DEF Operations
      <3>2. QED
        BY <3>1 DEF Copy, log, CopyAt, row
    <2>4. CopyIsNew'
      BY <2>2, <2>3 DEF CopyIsNew, UndoInv, RecordsAreDated, Completed, Changes
    <2>5. ResultIsCurrent'
      BY <2>3 DEF ResultIsCurrent
    <2>6. QED
      BY <2>2, <2>4, <2>5
  <1>6. QED
    BY <1>4, <1>5 DEF Copy

LEMMA PublishCopyLeads ==
    ASSUME UndoInv, PublishCopy
    PROVE  DiskFits /\ CopyIsNew' /\ ResultIsCurrent'
  <1>1. op.pc = "publish_copy" /\ op.pc \in Pinning /\ MoveInv
    BY DEF PublishCopy, Pinning, Working, UndoInv
  <1>2. /\ TypeOK /\ op \in Operations /\ t \in Handles /\ t = op.t /\ t.ino \in DOMAIN node /\ CopyAt \in Slots
    BY <1>1, PinnedFacts
  <1>3. CASE Fail /\ UNCHANGED disk
    BY <1>1, <1>2, <1>3, FailLeads, DiskStays DEF disk
  <1> DEFINE m == fs[CopyAt]
             q == IF t.captured THEN "remove" ELSE "change"
  <1>4. CASE /\ Rename(CopyAt, t.dst)
             /\ op' = [op EXCEPT !.pc = q, !.t.output = FALSE, !.t.done = Moved(m)]
    <2>1. m \in DOMAIN node /\ m # t.ino /\ m \notin Recorded
      BY <1>1, <1>2, Typed DEF MoveInv, CopyIsOwn, UndoInv, CopyIsNew, Recorded
    <2>2. node' = Touched(node, m)
      BY <1>4 DEF Rename
    <2>3. DiskFits /\ node'[m].data = node[m].data /\ node'[m].ctime = node[m].ctime + 1
      BY <1>2, <2>1, <2>2, DiskTouched
    <2>4. op'.pc \in {"remove", "change"} /\ t'.done = Moved(m) /\ t'.ino = t.ino
      BY <1>2, <1>4 DEF Operations, Handles, t
    <2>5. [ino |-> m, data |-> node'[m].data, ctime |-> node'[m].ctime] = Moved(m) /\ Moved(m).ino = m
      BY <1>2, <2>1, <2>3, IdentityTyped DEF Moved, Identity
    <2>6. m \in DOMAIN node'
      BY <2>1, <2>3 DEF DiskFits
    <2> HIDE DEF m
    <2>7. ResultIsCurrent'
      BY <2>1, <2>4, <2>5, <2>6 DEF ResultIsCurrent, Identity, Broken
    <2>8. CopyIsNew'
      BY <2>4 DEF CopyIsNew
    <2>9. QED
      BY <2>3, <2>7, <2>8
  <1>5. QED
    BY <1>3, <1>4, Zenon DEF PublishCopy

LEMMA RemoveCapturedLeads ==
    ASSUME UndoInv, RemoveCaptured
    PROVE  DiskFits /\ CopyIsNew' /\ ResultIsCurrent'
  <1>1. op.pc = "remove" /\ op.pc \in Pinning /\ MoveInv
    BY DEF RemoveCaptured, Pinning, Working, UndoInv
  <1>2. /\ TypeOK /\ op \in Operations /\ t \in Handles /\ t = op.t /\ t.ino \in DOMAIN node
        /\ fs[CaptureAt] = t.ino /\ op.action # "copy"
    BY <1>1, PinnedFacts DEF MoveInv, Captured
  <1>3. CASE Fail
    <2>1. DiskFits
      <3>1. CASE UNCHANGED node
        BY <1>2, <3>1, DiskStays
      <3>2. CASE UNCHANGED fs /\ node' = [node EXCEPT ![fs[CaptureAt]] = [data |-> Partial, ctime |-> @.ctime + 1]]
        <4> DEFINE e == [data |-> Partial, ctime |-> node[t.ino].ctime + 1]
        <4>1. \A n \in DOMAIN node : node[n].ctime \in Nat
          BY <1>2, Typed DEF Nodes
        <4>2. e \in Nodes /\ e.data = Partial /\ e.ctime = node[t.ino].ctime + 1
          BY <1>2, <4>1 DEF Nodes, Partial
        <4>3. node' = [node EXCEPT ![t.ino] = e]
          BY <1>2, <3>2
        <4> HIDE DEF e
        <4>4. DOMAIN node' = DOMAIN node /\ node'[t.ino] = e /\ \A k \in DOMAIN node : k # t.ino => node'[k] = node[k]
          BY <1>2, <4>2, <4>3, Altering
        <4>5. QED
          BY <1>2, <4>1, <4>2, <4>4, RecordedInodes DEF DiskFits
      <3>3. CASE op' = [op EXCEPT !.pc = "change", !.t.captured = FALSE]
        BY <1>2, <1>3, <3>3 DEF Fail, Operations
      <3>4. QED
        BY <3>1, <3>2, <3>3 DEF RemoveCaptured
    <2>2. QED
      BY <1>1, <1>3, <2>1, FailLeads
  <1>4. CASE node' = Touched(node, fs[CaptureAt]) /\ op' = [op EXCEPT !.pc = "change", !.t.captured = FALSE]
    <2>1. node' = Touched(node, t.ino) /\ UNCHANGED foreign
      BY <1>2, <1>4 DEF RemoveCaptured, seen
    <2>2. DiskFits /\ \A n \in DOMAIN node : n # t.ino => node'[n] = node[n]
      BY <1>2, <2>1, DiskTouched
    <2>3. op'.pc = "change" /\ t'.done = t.done /\ t'.error = t.error
      BY <1>2, <1>4 DEF Operations, Handles, t
    <2>4. ~t.error => /\ t.done.ino \in DOMAIN node /\ t.done.ino # t.ino
                      /\ Broken(t.done.ino) \/ Identity(t.done.ino) = t.done
      BY <1>1 DEF UndoInv, ResultIsCurrent
    <2>5. ~t.error => t.done.ino \in DOMAIN node' /\ node'[t.done.ino] = node[t.done.ino]
      BY <2>2, <2>4 DEF DiskFits
    <2>6. ResultIsCurrent'
      BY <2>1, <2>3, <2>4, <2>5 DEF ResultIsCurrent, Broken, Identity
    <2>7. CopyIsNew'
      BY <2>3 DEF CopyIsNew
    <2>8. QED
      BY <2>2, <2>6, <2>7
  <1>5. QED
    BY <1>3, <1>4 DEF RemoveCaptured

LEMMA RestoreLeads ==
    ASSUME UndoInv, Restore
    PROVE  DiskFits /\ CopyIsNew' /\ ResultIsCurrent'
  <1>1. op.pc = "restore" /\ op.pc \in Pinning /\ MoveInv /\ t.error
    BY DEF Restore, Pinning, Working, UndoInv, ResultIsCurrent
  <1>2. TypeOK /\ op \in Operations /\ t \in Handles /\ t = op.t /\ t.ino \in DOMAIN node /\ CaptureAt \in Slots
    BY <1>1, PinnedFacts
  <1>3. op'.pc = "change" /\ t'.error
    <2>1. CASE op' = [op EXCEPT !.pc = "change", !.t.captured = FALSE]
      <3> DEFINE g == [t EXCEPT !.captured = FALSE]
      <3>1. g.error = t.error /\ op' = [op EXCEPT !.pc = "change", !.t = g]
        BY <1>2, <2>1 DEF Operations, Handles
      <3> HIDE DEF g
      <3>2. op'.pc = "change" /\ t' = g
        BY <1>2, <3>1 DEF Operations, t
      <3>3. QED
        BY <1>1, <3>1, <3>2
    <2>2. CASE Goto("change")
      <3>1. op'.pc = "change" /\ t' = t
        BY <1>2, <2>2 DEF Goto, Operations, t
      <3>2. QED
        BY <1>1, <3>1
    <2>3. QED
      BY <2>1, <2>2 DEF Restore
  <1>4. DiskFits
    <2>1. CASE t.captured /\ CanRename(CaptureAt, row.src) /\ Rename(CaptureAt, row.src)
      <3>1. fs[CaptureAt] \in {t.ino} \cup foreign /\ op.action # "copy"
        BY <1>1, <2>1 DEF MoveInv, Captured
      <3>2. fs[CaptureAt] \in DOMAIN node /\ node' = Touched(node, fs[CaptureAt])
        BY <1>2, <2>1, Typed DEF CanRename, Rename
      <3>3. QED
        BY <1>2, <3>1, <3>2, DiskTouched
    <2>2. CASE UNCHANGED disk
      BY <1>2, <2>2, DiskStays DEF disk
    <2>3. QED
      BY <2>1, <2>2 DEF Restore
  <1>5. QED
    BY <1>3, <1>4 DEF CopyIsNew, ResultIsCurrent

LEMMA TransferLeads ==
    ASSUME UndoInv, MoveInv', Transfer
    PROVE  UndoInv'
  <1>1. DiskFits /\ CopyIsNew' /\ ResultIsCurrent'
    BY CaptureLeads, AuthorizeLeads, TrashLeads, PublishLeads, CopyLeads, PublishCopyLeads,
       RemoveCapturedLeads, RestoreLeads, Zenon DEF Transfer
  <1>2. QED
    BY <1>1, DiskLeads

LEMMA StillLead ==
    ASSUME UndoInv, MoveInv', UNCHANGED <<fs, node, journal, op, foreign>>
    PROVE  UndoInv'
  <1>1. /\ \A n : (Broken(n)' <=> Broken(n)) /\ Base(n)' = Base(n) /\ Identity(n)' = Identity(n)
        /\ t' = t /\ row' = row /\ CopyAt' = CopyAt /\ Pinned' = Pinned
        /\ Changes' = Changes /\ Completed' = Completed
    BY DEF Broken, Base, Identity, t, row, CopyAt, Pinned, Changes, Completed
  <1>2. \A x : Current(x)' = Current(x)
    BY InJournal
  <1>3. RecordsAreDated' /\ CopyIsNew'
    BY <1>1 DEF UndoInv, RecordsAreDated, CopyIsNew
  <1>4. PinIsDated' /\ ResultIsCurrent'
    BY <1>1 DEF UndoInv, PinIsDated, ResultIsCurrent, Broken, Identity
  <1>5. ChainsLead'
    BY <1>1, <1>2 DEF UndoInv, ChainsLead
  <1>6. QED
    BY <1>3, <1>4, <1>5 DEF UndoInv

LEMMA InitLeads ==
    ASSUME Init
    PROVE  UndoInv
  <1>1. MoveInv
    BY InitFits
  <1>2. Changes = {} /\ Completed = {} /\ op.pc = "idle"
    BY DEF Init, Changes, Completed, Idle
  <1>3. RecordsAreDated /\ PinIsDated /\ CopyIsNew /\ ResultIsCurrent /\ ChainsLead
    BY <1>2 DEF RecordsAreDated, PinIsDated, CopyIsNew, ResultIsCurrent, ChainsLead, Pinning, Working
  <1>4. QED
    BY <1>1, <1>3 DEF UndoInv

LEMMA UndoStep ==
    ASSUME UndoInv, [Next]_vars
    PROVE  UndoInv'
  <1>1. MoveInv /\ MoveInv' /\ TypeOK
    BY StepFits DEF UndoInv, MoveInv
  <1>2. CASE Next
    <2>1. ASSUME NEW p \in Paths, ReplaceFile(p) \/ RemoveFile(p) \/ ModifyFile(p) \/ TouchFile(p)
          PROVE  UndoInv'
      BY <1>1, <2>1, OthersAct, OthersLead, Zenon
    <2>2. ASSUME NEW action \in {"move", "copy", "trash"}, NEW policy \in {"stop", "skip"},
                 NEW batch \in Batches, NEW keeper \in Paths \cup {None},
                 Request(action, policy, batch, keeper)
          PROVE  UndoInv'
      BY <1>1, <2>2, RequestLeads, Zenon
    <2>3. CASE Cancel
      BY <1>1, <2>3, StillLead DEF Cancel, disk, log, seen
    <2>4. QED
      BY <1>1, <1>2, <2>1, <2>2, <2>3, Steps, UndoLeads, CrashLeads, PreviewLeads, IntentsLead, SkipLeads,
         StartRowLeads, TransferLeads, RecordChangeLeads, RecordResultLeads, FinishLeads, UndoIntentLeads,
         RecordUndoLeads, Zenon
  <1>3. CASE UNCHANGED vars
    BY <1>1, <1>3, StillLead DEF vars
  <1>4. QED
    BY <1>2, <1>3

LEMMA UndoInvKept == Spec => []UndoInv
  <1>1. Init => UndoInv
    BY InitLeads
  <1>2. UndoInv /\ [Next]_vars => UndoInv'
    BY UndoStep
  <1>3. QED
    BY <1>1, <1>2, PTL DEF Spec

\* The service's own renames, failures put back and undos never make a completed
\* operation look changed by others: while only it has touched an inode, the journal
\* leads from the recorded identity to the present one (OperationIdentityChanges,
\* undoChecked), after any sequence of operations, faults and crashes.
THEOREM UndoIsAuthorized == Spec => []UndoStaysAuthorized
  <1>1. ASSUME UndoInv PROVE UndoStaysAuthorized
    <2>1. SUFFICES ASSUME op.pc = "idle", NEW id \in Undoable,
                          Row(id).after.ino \notin foreign, node[Row(id).after.ino].data # Partial
                   PROVE  Current(Row(id).after) = Identity(Row(id).after.ino)
      BY DEF UndoStaysAuthorized
    <2>2. PICK j \in Completed : Row(id) = journal[j]
      BY <1>1, RowIsRecord DEF UndoInv, MoveInv
    <2>3. Broken(Row(id).after.ino) \/ Current(Row(id).after) = Base(Row(id).after.ino)
      BY <1>1, <2>2 DEF UndoInv, ChainsLead
    <2>4. op.pc \notin Pinning
      BY <2>1 DEF Pinning, Working
    <2>5. QED
      BY <2>1, <2>3, <2>4 DEF Broken, Base
  <1>2. QED
    BY <1>1, UndoInvKept, PTL
=============================================================================
