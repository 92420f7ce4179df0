------------------------- MODULE DirectoryScanProofs -------------------------
(***************************************************************************)
(* Enumeration with any number of workers, any tree and capacities; and    *)
(* the aliases of hard-linked files, with any paths and objects.           *)
(***************************************************************************)
EXTENDS DirectoryScan, PreparedBatch, FiniteSetTheorems, SequenceTheorems,
        WellFoundedInduction, TLAPS

\* A message sent adds its entries to what is under way in its kind.
LEMMA AppendCarries ==
    ASSUME channel \in Seq(Messages), NEW m \in Messages, channel' = Append(channel, m)
    PROVE  \A kind : InFlight(kind)' = InFlight(kind) \cup (IF m.kind = kind THEN m.entries ELSE {})
  <1>1. /\ Len(channel') = Len(channel) + 1 /\ Len(channel) \in Nat
        /\ \A i \in 1 .. Len(channel) : channel'[i] = channel[i]
        /\ channel'[Len(channel) + 1] = m
    BY AppendProperties
  <1>2. \A i \in 1 .. Len(channel') : i \in 1 .. Len(channel) \/ i = Len(channel) + 1
    BY <1>1
  <1>3. /\ \A i \in 1 .. Len(channel) : i \in 1 .. Len(channel')
        /\ Len(channel) + 1 \in 1 .. Len(channel')
    BY <1>1
  <1>4. m.entries \subseteq DirEntries
    BY DEF Messages
  <1> TAKE kind
  <1>5. QED
    BY <1>1, <1>2, <1>3, <1>4, Zenon DEF InFlight

\* The head of the channel is all that a receive takes from it.
LEMMA TailCarries ==
    ASSUME channel \in Seq(Messages), channel # <<>>, channel' = Tail(channel)
    PROVE  \A kind : InFlight(kind) = InFlight(kind)'
                       \cup (IF Head(channel).kind = kind THEN Head(channel).entries ELSE {})
  <1>1. /\ Len(channel') = Len(channel) - 1 /\ Len(channel) \in Nat \ {0}
        /\ \A i \in 1 .. Len(channel') : channel'[i] = channel[i + 1]
        /\ Head(channel) = channel[1] /\ channel[1] \in Messages
    BY HeadTailProperties, EmptySeq
  <1>2. \A i \in 1 .. Len(channel) :
          i = 1 \/ (i - 1 \in 1 .. Len(channel') /\ channel'[i - 1] = channel[i])
    BY <1>1
  <1>3. /\ \A i \in 1 .. Len(channel') : i + 1 \in 1 .. Len(channel)
        /\ 1 \in 1 .. Len(channel)
    BY <1>1
  <1>4. Head(channel).entries \subseteq DirEntries
    BY <1>1 DEF Messages
  <1> TAKE kind
  <1> DEFINE first == IF Head(channel).kind = kind THEN Head(channel).entries ELSE {}
  <1>5. ASSUME NEW e \in InFlight(kind)
        PROVE  e \in InFlight(kind)' \/ e \in first
    <2>1. PICK i \in 1 .. Len(channel) : channel[i].kind = kind /\ e \in channel[i].entries
      BY DEF InFlight
    <2>2. CASE i = 1
      BY <1>1, <2>1, <2>2
    <2>3. CASE i # 1
      <3>1. i - 1 \in 1 .. Len(channel') /\ channel'[i - 1] = channel[i]
        BY <1>2, <2>3
      <3>2. e \in DirEntries
        BY DEF InFlight
      <3>3. QED
        BY <2>1, <3>1, <3>2, Zenon DEF InFlight
    <2>4. QED
      BY <2>2, <2>3
  <1>6. ASSUME NEW e \in InFlight(kind)'
        PROVE  e \in InFlight(kind)
    BY <1>1, <1>3 DEF InFlight
  <1>7. first \subseteq InFlight(kind)
    BY <1>1, <1>3, <1>4 DEF InFlight
  <1>8. QED
    BY <1>5, <1>6, <1>7

\* A step that neither sends nor gathers leaves what was seen and refused alone.
LEMMA QuietStep ==
    ASSUME UNCHANGED <<channel, unflushed, delivered, report>>,
           \A v \in Walkers : walker'[v].found = walker[v].found
    PROVE  Seen' = Seen /\ Refused' = Refused
  BY DEF Seen, Refused, InFlight, Gathered

\* Directories stay tracked when nothing seen or refused is forgotten, what is
\* newly seen is a child of somebody's directory, and a directory that leaves
\* the stack, a context or a worker's hands arrives somewhere else.
LEMMA TrackedStep ==
    ASSUME DirectoriesAreTracked, scanRequest' = scanRequest,
           scanCancelled => scanCancelled',
           Seen \subseteq Seen', Refused \subseteq Refused',
           \A d \in Seen' \cap Walkable : d \in Seen \/ Passed(d)',
           \A d \in Seen \cap Walkable : OnStack(d) \/ Passed(d) \/ Held(d) =>
             \/ scanCancelled' \/ OnStack(d)' \/ Passed(d)' \/ Held(d)'
             \/ d \in Refused' \/ Listed(d)',
           \A v \in Walkers :
             /\ walker'[v].pc = "list" =>
                  WantedIn(walker'[v].dir) \subseteq Seen' \cup Refused' \cup walker'[v].todo
             /\ walker'[v].pc = "flush" =>
                  /\ walker'[v].code = "ok" => WantedIn(walker'[v].dir) \subseteq Seen' \cup Refused'
                  /\ walker'[v].code = "reported" => walker'[v].dir \in Refused'
                  /\ walker'[v].code = "cancelled" => scanCancelled'
    PROVE  DirectoriesAreTracked'
  <1>1. Asked' = Asked
    BY DEF Asked, Allows
  <1>2. \A d : Listed(d) => Listed(d)'
    BY DEF Listed, WantedIn, Allows
  <1>3. (Asked \subseteq Seen \cup Refused)'
    BY <1>1 DEF DirectoriesAreTracked
  <1>4. ASSUME NEW d \in Seen' \cap Walkable
        PROVE  \/ scanCancelled' \/ OnStack(d)' \/ Passed(d)' \/ Held(d)'
               \/ d \in Refused' \/ Listed(d)'
    BY <1>2, <1>4 DEF DirectoriesAreTracked
  <1>5. ASSUME NEW v \in Walkers
        PROVE  (/\ walker[v].pc = "list" =>
                     WantedIn(walker[v].dir) \subseteq Seen \cup Refused \cup walker[v].todo
                /\ walker[v].pc = "flush" =>
                     CASE walker[v].code = "ok" -> Listed(walker[v].dir)
                       [] walker[v].code = "reported" -> walker[v].dir \in Refused
                       [] walker[v].code = "cancelled" -> scanCancelled
                       [] OTHER -> TRUE)'
    BY <1>5 DEF Listed, WantedIn, Allows
  <1>6. QED
    BY <1>3, <1>4, <1>5 DEF DirectoriesAreTracked

-----------------------------------------------------------------------------
(* The steps of a worker, by the part of the invariant they can disturb.   *)

\* A message of a worker that is not gone comes after everything it sent; only
\* the one that makes it gone is a Done.
LEMMA SendKeepsOrder ==
    ASSUME DoneIsLast, doneFrom \subseteq Walkers, NEW m \in Messages,
           channel \in Seq(Messages), channel' = Append(channel, m),
           doneFrom' = doneFrom, walker[m.from].pc # "gone",
           m.kind = "done" => walker'[m.from].pc = "gone",
           \A v \in Walkers : walker[v].pc = "gone" => walker'[v].pc = "gone"
    PROVE  DoneIsLast'
  <1>1. /\ Len(channel') = Len(channel) + 1 /\ Len(channel) \in Nat
        /\ \A i \in 1 .. Len(channel) : channel'[i] = channel[i] /\ channel[i] \in Messages
        /\ channel'[Len(channel) + 1] = m
    BY AppendProperties, ElementOfSeq
  <1>2. m.from \in Walkers /\ \A i \in 1 .. Len(channel) : channel[i].from \in Walkers
    BY <1>1 DEF Messages
  <1>3. \A v \in doneFrom' : walker'[v].pc = "gone"
    BY DEF DoneIsLast
  <1>4. ASSUME NEW i \in 1 .. Len(channel')
        PROVE  /\ channel'[i].from \notin doneFrom'
               /\ channel'[i].kind = "done" =>
                    /\ walker'[channel'[i].from].pc = "gone"
                    /\ \A j \in i + 1 .. Len(channel') : channel'[j].from # channel'[i].from
    <2>1. CASE i = Len(channel) + 1
      <3>1. channel'[i] = m /\ \A j \in i + 1 .. Len(channel') : FALSE
        BY <1>1, <2>1
      <3>2. m.from \notin doneFrom
        BY DEF DoneIsLast
      <3>3. QED
        BY <3>1, <3>2
    <2>2. CASE i # Len(channel) + 1
      <3>1. i \in 1 .. Len(channel) /\ channel'[i] = channel[i]
        BY <1>1, <2>2
      <3>2. \A j \in i + 1 .. Len(channel') :
              j = Len(channel) + 1 \/ (j \in i + 1 .. Len(channel) /\ channel'[j] = channel[j])
        BY <1>1, <3>1
      <3>3. channel[i].kind = "done" => channel[i].from # m.from
        BY <3>1 DEF DoneIsLast
      <3>4. QED
        BY <1>1, <1>2, <3>1, <3>2, <3>3 DEF DoneIsLast
    <2>3. QED
      BY <2>1, <2>2
  <1>5. QED
    BY <1>3, <1>4 DEF DoneIsLast

\* Nothing is sent and nobody who is gone comes back.
LEMMA QuietKeepsOrder ==
    ASSUME DoneIsLast, doneFrom \subseteq Walkers, channel \in Seq(Messages),
           UNCHANGED <<channel, doneFrom>>,
           \A v \in Walkers : walker[v].pc = "gone" => walker'[v].pc = "gone"
    PROVE  DoneIsLast'
  <1>1. \A i \in 1 .. Len(channel) : channel[i] \in Messages
    BY ElementOfSeq
  <1>2. \A i \in 1 .. Len(channel) : channel[i].from \in Walkers
    BY <1>1 DEF Messages
  <1>3. QED
    BY <1>2 DEF DoneIsLast

\* A worker that keeps its directory leaves the count and the sleepers alone.
LEMMA HolderStep ==
    ASSUME ScanInv, stage = "walk", NEW w \in Walkers,
           walker[w].pc \in Holding, walker'[w].pc \in Holding,
           \A v \in Walkers \ {w} : walker'[v] = walker[v],
           UNCHANGED <<work, outstanding, scanCancelled>>
    PROVE  /\ Holders' = Holders /\ WorkIsCounted' /\ SleepersHaveAWaker'
           /\ \A d : OnStack(d)' = OnStack(d)
           /\ \A v \in Walkers : walker[v].pc = "gone" => walker'[v].pc = "gone"
  <1>1. Holders' = Holders
    BY DEF Holders
  <1>2. w \in Holders
    BY DEF Holders
  <1>3. WorkIsCounted'
    BY <1>1 DEF WorkIsCounted, Holding, ScanInv
  <1>4. SleepersHaveAWaker'
    BY <1>1, <1>2 DEF SleepersHaveAWaker
  <1>5. \A d : OnStack(d)' = OnStack(d)
    BY DEF OnStack
  <1>6. QED
    BY <1>1, <1>3, <1>4, <1>5 DEF Holding
\* The parts of the invariant of a walk make up the whole.
LEMMA WalkParts ==
    ASSUME stage' = "walk", ScanTypeOK', WorkIsCounted', ContextsAreClean',
           DirectoriesAreTracked', DoneIsLast', SleepersHaveAWaker'
    PROVE  ScanInv'
  BY DEF ScanInv, ReportIsWhole

\* A worker's step that keeps its directory: what it leaves of the invariant to
\* show is what the worker knows of that directory.
LEMMA KeepingStep ==
    ASSUME ScanInv, NEW w \in Walkers, NEW c \in Contexts,
           stage = "walk", walker' = [walker EXCEPT ![w] = c],
           walker[w].pc \in Holding, c.pc \in Holding, c.dir = walker[w].dir,
           c.pc \in {"open", "list"} => c.code = "ok",
           UNCHANGED <<work, outstanding>>, CallerKeeps,
           \/ UNCHANGED channel
           \/ \E m \in Messages :
                m.from = w /\ m.kind # "done" /\ channel' = Append(channel, m),
           Seen \subseteq Seen', Refused \subseteq Refused',
           \A d \in Seen' \cap Walkable : d \in Seen \/ Passed(d)',
           \A i \in 1 .. Len(walker[w].children) :
             \E j \in 1 .. Len(c.children) : c.children[j] = walker[w].children[i],
           c.pc = "list" => WantedIn(c.dir) \subseteq Seen' \cup Refused' \cup c.todo,
           c.pc = "flush" =>
             /\ c.code = "ok" => WantedIn(c.dir) \subseteq Seen' \cup Refused'
             /\ c.code = "reported" => c.dir \in Refused'
             /\ c.code = "cancelled" => scanCancelled'
    PROVE  ScanInv'
  <1>1. /\ stage' = "walk"
        /\ UNCHANGED <<work, outstanding, scanRequest, scanCancelled, doneFrom, toStat,
                       unflushed, delivered, report>>
    BY DEF CallerKeeps
  <1>2. ScanTypeOK /\ ContextsAreClean /\ DirectoriesAreTracked /\ DoneIsLast
    BY DEF ScanInv
  <1>3. /\ walker'[w] = c /\ walker' \in [Walkers -> Contexts]
        /\ \A v \in Walkers \ {w} : walker'[v] = walker[v]
    BY <1>2 DEF ScanTypeOK
  <1>4. channel' \in Seq(Messages)
    BY <1>2, AppendProperties DEF ScanTypeOK
  <1>5. ScanTypeOK'
    BY <1>1, <1>2, <1>3, <1>4 DEF ScanTypeOK
  <1>6. /\ WorkIsCounted' /\ SleepersHaveAWaker' /\ \A d : OnStack(d)' = OnStack(d)
        /\ \A v \in Walkers : walker[v].pc = "gone" => walker'[v].pc = "gone"
    BY <1>1, <1>3, HolderStep
  <1>7. ContextsAreClean'
    BY <1>2, <1>3 DEF ContextsAreClean, Holding
  <1>8. DoneIsLast'
    <2>1. CASE UNCHANGED channel
      BY <1>1, <1>2, <1>6, <2>1, QuietKeepsOrder DEF ScanTypeOK
    <2>2. CASE \E m \in Messages : m.from = w /\ m.kind # "done" /\ channel' = Append(channel, m)
      <3>1. PICK m \in Messages : m.from = w /\ m.kind # "done" /\ channel' = Append(channel, m)
        BY <2>2
      <3>2. walker[w].pc # "gone"
        BY DEF Holding
      <3>3. QED
        BY <1>1, <1>2, <1>6, <3>1, <3>2, SendKeepsOrder DEF ScanTypeOK
    <2>3. QED
      BY <2>1, <2>2
  <1>9. \A d : (Passed(d) => Passed(d)') /\ (Held(d) => Held(d)')
    <2>1. ASSUME NEW d, NEW v \in Walkers, NEW i \in 1 .. Len(walker[v].children),
                 walker[v].children[i] = d
          PROVE  Passed(d)'
      BY <1>3, <2>1 DEF Passed
    <2>2. \A d : Passed(d) => Passed(d)'
      BY <2>1, SMTT(40) DEF Passed
    <2>3. \A d : Held(d) => Held(d)'
      BY <1>3 DEF Held
    <2>4. QED
      BY <2>2, <2>3
  <1>10. \A v \in Walkers :
           /\ walker'[v].pc = "list" =>
                WantedIn(walker'[v].dir) \subseteq Seen' \cup Refused' \cup walker'[v].todo
           /\ walker'[v].pc = "flush" =>
                /\ walker'[v].code = "ok" => WantedIn(walker'[v].dir) \subseteq Seen' \cup Refused'
                /\ walker'[v].code = "reported" => walker'[v].dir \in Refused'
                /\ walker'[v].code = "cancelled" => scanCancelled'
    BY <1>1, <1>2, <1>3 DEF DirectoriesAreTracked, Listed
  <1>11. DirectoriesAreTracked'
    BY <1>1, <1>2, <1>6, <1>9, <1>10, TrackedStep
  <1>12. QED
    BY <1>1, <1>5, <1>6, <1>7, <1>8, <1>11, WalkParts
LEMMA OpenStep ==
    ASSUME ScanInv, NEW w \in Walkers, Open(w)
    PROVE  ScanInv'
  <1> DEFINE c == [walker[w] EXCEPT !.pc = "list",
       !.todo = {e \in DirEntries : EntryParent[e] = walker[w].dir /\ Allows(e)}]
  <1>1. /\ stage = "walk" /\ walker \in [Walkers -> Contexts] /\ UNCHANGED channel
        /\ DirectoriesAreTracked /\ ContextsAreClean
        /\ UNCHANGED <<work, outstanding, channel>> /\ CallerKeeps
    BY DEF Open, ScanInv, ScanTypeOK
  <1>2. c \in Contexts /\ walker' = [walker EXCEPT ![w] = c]
    BY <1>1 DEF Open, Contexts
  <1>3. /\ c.dir = walker[w].dir /\ c.found = walker[w].found
        /\ c.children = walker[w].children
        /\ walker[w].pc \in Holding /\ c.pc = "list" /\ c.code = "ok"
        /\ c.todo = {e \in DirEntries : EntryParent[e] = walker[w].dir /\ Allows(e)}
    BY <1>1 DEF Open, Contexts, Holding, ContextsAreClean
  <1> HIDE DEF c
  <1>4. \A v \in Walkers : walker'[v].found = walker[v].found
    BY <1>1, <1>2, <1>3
  <1>5. Seen' = Seen /\ Refused' = Refused
    BY <1>1, <1>4, QuietStep DEF CallerKeeps
  <1>6. c.pc \in Holding /\ WantedIn(c.dir) \subseteq c.todo
    BY <1>3 DEF WantedIn, Holding
  <1>7. QED
    BY <1>1, <1>2, <1>3, <1>5, <1>6, KeepingStep

LEMMA FailStep ==
    ASSUME ScanInv, NEW w \in Walkers, FailDirectory(w)
    PROVE  ScanInv'
  <1> DEFINE c == [walker[w] EXCEPT !.pc = "flush", !.todo = {}, !.code = "error"]
  <1>1. /\ stage = "walk" /\ walker \in [Walkers -> Contexts] /\ UNCHANGED channel
        /\ DirectoriesAreTracked /\ ContextsAreClean
        /\ UNCHANGED <<work, outstanding, channel>> /\ CallerKeeps
    BY DEF FailDirectory, ScanInv, ScanTypeOK
  <1>2. c \in Contexts /\ walker' = [walker EXCEPT ![w] = c]
    BY <1>1 DEF FailDirectory, Contexts
  <1>3. /\ c.dir = walker[w].dir /\ c.found = walker[w].found
        /\ c.children = walker[w].children
        /\ walker[w].pc \in Holding /\ c.pc = "flush" /\ c.code = "error"
    BY <1>1 DEF FailDirectory, Contexts, Holding, ContextsAreClean
  <1> HIDE DEF c
  <1>4. \A v \in Walkers : walker'[v].found = walker[v].found
    BY <1>1, <1>2, <1>3
  <1>5. Seen' = Seen /\ Refused' = Refused
    BY <1>1, <1>4, QuietStep DEF CallerKeeps
  <1>6. c.pc \in Holding /\ c.pc # "list"
    BY <1>3 DEF Holding
  <1>7. QED
    BY <1>1, <1>2, <1>3, <1>5, <1>6, KeepingStep

LEMMA AbandonStep ==
    ASSUME ScanInv, NEW w \in Walkers, AbandonDirectory(w)
    PROVE  ScanInv'
  <1> DEFINE c == [walker[w] EXCEPT !.pc = "flush", !.todo = {}, !.code = "cancelled"]
  <1>1. /\ stage = "walk" /\ walker \in [Walkers -> Contexts] /\ UNCHANGED channel
        /\ DirectoriesAreTracked /\ ContextsAreClean
        /\ UNCHANGED <<work, outstanding, channel>> /\ CallerKeeps
    BY DEF AbandonDirectory, ScanInv, ScanTypeOK
  <1>2. c \in Contexts /\ walker' = [walker EXCEPT ![w] = c]
    BY <1>1 DEF AbandonDirectory, Contexts
  <1>3. /\ c.dir = walker[w].dir /\ c.found = walker[w].found
        /\ c.children = walker[w].children
        /\ walker[w].pc \in Holding /\ c.pc = "flush" /\ c.code = "cancelled"
    BY <1>1 DEF AbandonDirectory, Contexts, Holding, ContextsAreClean
  <1> HIDE DEF c
  <1>4. \A v \in Walkers : walker'[v].found = walker[v].found
    BY <1>1, <1>2, <1>3
  <1>5. Seen' = Seen /\ Refused' = Refused
    BY <1>1, <1>4, QuietStep DEF CallerKeeps
  <1>6. c.pc \in Holding /\ c.pc # "list" /\ scanCancelled'
    BY <1>1, <1>3 DEF Holding, AbandonDirectory, CallerKeeps
  <1>7. QED
    BY <1>1, <1>2, <1>3, <1>5, <1>6, KeepingStep

LEMMA ListDoneStep ==
    ASSUME ScanInv, NEW w \in Walkers, ListDone(w)
    PROVE  ScanInv'
  <1> DEFINE c == [walker[w] EXCEPT !.pc = "flush"]
  <1>1. /\ stage = "walk" /\ walker \in [Walkers -> Contexts] /\ UNCHANGED channel
        /\ DirectoriesAreTracked /\ ContextsAreClean
        /\ UNCHANGED <<work, outstanding, channel>> /\ CallerKeeps
    BY DEF ListDone, ScanInv, ScanTypeOK
  <1>2. c \in Contexts /\ walker' = [walker EXCEPT ![w] = c]
    BY <1>1 DEF ListDone, Contexts
  <1>3. /\ c.dir = walker[w].dir /\ c.found = walker[w].found
        /\ c.children = walker[w].children
        /\ walker[w].pc \in Holding /\ c.pc = "flush" /\ c.code = "ok"
    BY <1>1 DEF ListDone, Contexts, Holding, ContextsAreClean
  <1> HIDE DEF c
  <1>4. \A v \in Walkers : walker'[v].found = walker[v].found
    BY <1>1, <1>2, <1>3
  <1>5. Seen' = Seen /\ Refused' = Refused
    BY <1>1, <1>4, QuietStep DEF CallerKeeps
  <1>6. c.pc \in Holding /\ c.pc # "list" /\ WantedIn(c.dir) \subseteq Seen \cup Refused
    BY <1>1, <1>3 DEF Holding, ListDone, DirectoriesAreTracked
  <1>7. QED
    BY <1>1, <1>2, <1>3, <1>5, <1>6, KeepingStep
\* What a worker sends or gathers, and nobody else's rows.
LEMMA SendingStep ==
    ASSUME channel \in Seq(Messages), NEW w \in Walkers, NEW c \in Contexts, NEW m \in Messages,
           walker \in [Walkers -> Contexts], walker' = [walker EXCEPT ![w] = c],
           channel' = Append(channel, m), CallerKeeps
    PROVE  /\ Seen \subseteq Seen' \cup walker[w].found
           /\ Seen' \subseteq Seen \cup c.found \cup (IF m.kind = "batch" THEN m.entries ELSE {})
           /\ c.found \subseteq Seen' /\ (m.kind = "batch" => m.entries \subseteq Seen')
           /\ Refused' = Refused \cup (IF m.kind = "issue" THEN m.entries ELSE {})
  <1>1. /\ InFlight("batch")' = InFlight("batch") \cup (IF m.kind = "batch" THEN m.entries ELSE {})
        /\ InFlight("issue")' = InFlight("issue") \cup (IF m.kind = "issue" THEN m.entries ELSE {})
    BY AppendCarries
  <1>2. walker'[w] = c /\ \A v \in Walkers \ {w} : walker'[v] = walker[v]
    OBVIOUS
  <1>3. /\ Gathered \subseteq Gathered' \cup walker[w].found
        /\ Gathered' \subseteq Gathered \cup c.found
        /\ c.found \subseteq Gathered'
    BY <1>2 DEF Gathered, Contexts
  <1>4. QED
    BY <1>1, <1>3 DEF Seen, Refused, CallerKeeps

LEMMA SendRestStep ==
    ASSUME ScanInv, NEW w \in Walkers, SendRest(w)
    PROVE  ScanInv'
  <1> DEFINE c == [walker[w] EXCEPT !.found = {}]
             m == Message(w, "batch", walker[w].found)
  <1>1. /\ stage = "walk" /\ walker \in [Walkers -> Contexts] /\ channel \in Seq(Messages)
        /\ DirectoriesAreTracked /\ walker[w].pc = "flush"
        /\ UNCHANGED <<work, outstanding>> /\ CallerKeeps /\ channel' = Append(channel, m)
    BY DEF SendRest, ScanInv, ScanTypeOK
  <1>2. c \in Contexts /\ walker' = [walker EXCEPT ![w] = c]
    BY <1>1 DEF SendRest, Contexts
  <1>3. /\ c.dir = walker[w].dir /\ c.found = {} /\ c.pc = "flush" /\ c.code = walker[w].code
        /\ c.children = walker[w].children
    BY <1>1 DEF Contexts
  <1>4. m \in Messages /\ m.from = w /\ m.kind = "batch" /\ m.entries = walker[w].found
    BY <1>1 DEF Message, Messages, Contexts
  <1> HIDE DEF c, m
  <1>5. Seen' = Seen /\ Refused' = Refused
    <2>1. walker[w].found \subseteq Seen
      BY <1>1 DEF Seen, Gathered, Contexts
    <2>2. QED
      BY <1>1, <1>2, <1>3, <1>4, <2>1, SendingStep
  <1>6. /\ c.code = "ok" => WantedIn(c.dir) \subseteq Seen \cup Refused
        /\ c.code = "reported" => c.dir \in Refused
        /\ c.code = "cancelled" => scanCancelled'
    BY <1>1, <1>3 DEF DirectoriesAreTracked, Listed, CallerKeeps
  <1>7. QED
    BY <1>1, <1>2, <1>3, <1>4, <1>5, <1>6, KeepingStep DEF Holding

LEMMA SendIssueStep ==
    ASSUME ScanInv, NEW w \in Walkers, SendIssue(w)
    PROVE  ScanInv'
  <1> DEFINE c == [walker[w] EXCEPT !.code = "reported"]
             m == Message(w, "issue", {walker[w].dir})
  <1>1. /\ stage = "walk" /\ walker \in [Walkers -> Contexts] /\ channel \in Seq(Messages)
        /\ walker[w].pc = "flush" /\ walker[w].found = {} /\ walker[w].dir \in DirEntries
        /\ UNCHANGED <<work, outstanding>> /\ CallerKeeps /\ channel' = Append(channel, m)
    BY DEF SendIssue, ScanInv, ScanTypeOK, ContextsAreClean, Holding
  <1>2. c \in Contexts /\ walker' = [walker EXCEPT ![w] = c]
    BY <1>1 DEF SendIssue, Contexts
  <1>3. /\ c.dir = walker[w].dir /\ c.found = {} /\ c.pc = "flush" /\ c.code = "reported"
        /\ c.children = walker[w].children
    BY <1>1 DEF Contexts
  <1>4. m \in Messages /\ m.from = w /\ m.kind = "issue" /\ m.entries = {walker[w].dir}
    BY <1>1 DEF Message, Messages
  <1> HIDE DEF c, m
  <1>5. Seen' = Seen /\ Refused' = Refused \cup {walker[w].dir}
    <2>1. /\ Seen \subseteq Seen' \cup walker[w].found
          /\ Seen' \subseteq Seen \cup c.found \cup (IF m.kind = "batch" THEN m.entries ELSE {})
          /\ c.found \subseteq Seen' /\ (m.kind = "batch" => m.entries \subseteq Seen')
          /\ Refused' = Refused \cup (IF m.kind = "issue" THEN m.entries ELSE {})
      <3>1. /\ c \in Contexts /\ m \in Messages /\ channel \in Seq(Messages)
            /\ walker \in [Walkers -> Contexts] /\ walker' = [walker EXCEPT ![w] = c]
            /\ channel' = Append(channel, m) /\ CallerKeeps
        BY <1>1, <1>2, <1>4
      <3>2. QED
        BY <3>1, SendingStep, Zenon
    <2>2. QED
      BY <1>1, <1>3, <1>4, <2>1
  <1>6. QED
    BY <1>1, <1>2, <1>3, <1>4, <1>5, KeepingStep DEF Holding

\* Of an entry that is skipped, refused or kept, the listing owes nothing more.
LEMMA CollectStep ==
    ASSUME ScanInv, NEW w \in Walkers, NEW e \in DirEntries, CollectEntry(w, e)
    PROVE  ScanInv'
  <1>1. /\ stage = "walk" /\ walker \in [Walkers -> Contexts] /\ channel \in Seq(Messages)
        /\ DirectoriesAreTracked /\ ContextsAreClean /\ walker[w].pc = "list"
        /\ UNCHANGED <<work, outstanding>> /\ CallerKeeps
    BY DEF CollectEntry, ScanInv, ScanTypeOK
  <1>2. /\ WantedIn(walker[w].dir) \subseteq Seen \cup Refused \cup walker[w].todo
        /\ walker[w].code = "ok" /\ walker[w].pc \in Holding /\ walker[w] \in Contexts
    BY <1>1 DEF DirectoriesAreTracked, ContextsAreClean, Holding
  <1>3. CASE SkipEntry(w, e)
    <2> DEFINE c == [walker[w] EXCEPT !.todo = @ \ {e}]
    <2>1. c \in Contexts /\ walker' = [walker EXCEPT ![w] = c]
      BY <1>1, <1>3 DEF SkipEntry, Contexts
    <2>2. /\ c.dir = walker[w].dir /\ c.found = walker[w].found /\ c.pc = "list" /\ c.code = "ok"
          /\ c.children = walker[w].children /\ c.todo = walker[w].todo \ {e}
      BY <1>1, <1>2 DEF Contexts
    <2> HIDE DEF c
    <2>3. \A v \in Walkers : walker'[v].found = walker[v].found
      BY <1>1, <2>1, <2>2
    <2>4. Seen' = Seen /\ Refused' = Refused
      BY <1>1, <1>3, <2>3, QuietStep DEF CallerKeeps, SkipEntry
    <2>5. e \notin WantedIn(c.dir)
      BY <1>3 DEF SkipEntry, WantedIn
    <2>6. QED
      BY <1>1, <1>2, <1>3, <2>1, <2>2, <2>4, <2>5, KeepingStep, ZenonT(120) DEF SkipEntry, Holding
  <1>4. CASE RefuseEntry(w, e)
    <2> DEFINE c == [walker[w] EXCEPT !.todo = @ \ {e}]
               m == Message(w, "issue", {e})
    <2>1. /\ c \in Contexts /\ walker' = [walker EXCEPT ![w] = c]
          /\ channel' = Append(channel, m)
      BY <1>1, <1>4 DEF RefuseEntry, Contexts
    <2>2. /\ c.dir = walker[w].dir /\ c.found = walker[w].found /\ c.pc = "list" /\ c.code = "ok"
          /\ c.children = walker[w].children /\ c.todo = walker[w].todo \ {e}
      BY <1>1, <1>2 DEF Contexts
    <2>3. m \in Messages /\ m.from = w /\ m.kind = "issue" /\ m.entries = {e}
      BY DEF Message, Messages
    <2> HIDE DEF c, m
    <2>4. /\ Seen \subseteq Seen' /\ Seen' \subseteq Seen \cup walker[w].found
          /\ Refused' = Refused \cup {e}
      BY <1>1, <2>1, <2>2, <2>3, SendingStep, ZenonT(40)
    <2>5. walker[w].found \subseteq Seen
      BY <1>1 DEF Seen, Gathered, Contexts
    <2>6. QED
      BY <1>1, <1>2, <2>1, <2>2, <2>3, <2>4, <2>5, KeepingStep DEF Holding
  <1>5. CASE KeepEntry(w, e)
    <2> DEFINE found == walker[w].found \cup {e}
               full == Cardinality(found) >= FlushRows
               kids == IF e \in Walkable THEN Append(walker[w].children, e) ELSE walker[w].children
               c == [walker[w] EXCEPT !.todo = @ \ {e}, !.children = kids,
                                      !.found = IF full THEN {} ELSE found]
               m == Message(w, "batch", found)
    <2>1. kids \in Seq(DirEntries)
      BY <1>1, AppendProperties DEF Contexts
    <2>2. c \in Contexts
      BY <1>2, <2>1 DEF Contexts
    <2>3. walker' = [walker EXCEPT ![w] = c]
      BY <1>1, <1>5 DEF KeepEntry, Contexts
    <2>4. /\ c.dir = walker[w].dir /\ c.pc = "list" /\ c.code = "ok"
          /\ c.found = (IF full THEN {} ELSE found)
          /\ c.children = kids /\ c.todo = walker[w].todo \ {e}
      BY <1>1, <1>2 DEF Contexts
    <2>5. m \in Messages /\ m.from = w /\ m.kind = "batch" /\ m.entries = found
      BY <1>2 DEF Message, Messages, Contexts
    <2>6. IF full THEN channel' = Append(channel, m) ELSE UNCHANGED channel
      BY <1>5 DEF KeepEntry
    <2>7. /\ \A i \in 1 .. Len(walker[w].children) :
                \E j \in 1 .. Len(kids) : kids[j] = walker[w].children[i]
          /\ e \in Walkable => \E j \in 1 .. Len(kids) : kids[j] = e
      <3>1. CASE e \in Walkable
        <4>1. walker[w].children \in Seq(DirEntries) /\ kids = Append(walker[w].children, e)
          BY <1>2, <3>1 DEF Contexts
        <4>2. /\ Len(kids) = Len(walker[w].children) + 1 /\ Len(walker[w].children) \in Nat
              /\ kids[Len(kids)] = e
              /\ \A i \in 1 .. Len(walker[w].children) : kids[i] = walker[w].children[i]
          BY <4>1, AppendProperties
        <4>3. QED
          BY <4>2
      <3>2. CASE e \notin Walkable
        BY <3>2
      <3>3. QED
        BY <3>1, <3>2
    <2> HIDE DEF c, m, kids
    <2>8. Seen' = Seen \cup {e} /\ Refused' = Refused
      <3>1. walker[w].found \subseteq Seen
        BY <1>1 DEF Seen, Gathered, Contexts
      <3>2. CASE full
        <4>1. c.found = {} /\ channel' = Append(channel, m)
          BY <2>4, <2>6, <3>2
        <4>2. QED
          BY <1>1, <2>2, <2>3, <2>5, <3>1, <4>1, SendingStep
      <3>3. CASE ~full
        <4>1. c.found = found /\ UNCHANGED channel
          BY <2>4, <2>6, <3>3
        <4>2. walker'[w] = c /\ \A v \in Walkers \ {w} : walker'[v] = walker[v]
          BY <1>1, <2>3
        <4>3. Gathered' = Gathered \cup {e}
          BY <1>1, <4>1, <4>2 DEF Gathered, Contexts
        <4>4. QED
          BY <1>1, <4>1, <4>3 DEF Seen, Refused, InFlight, CallerKeeps
      <3>4. QED
        BY <3>2, <3>3
    <2>9. e \in Walkable => Passed(e)'
      <3>1. walker'[w] = c
        BY <1>1, <2>3
      <3>2. QED
        BY <2>4, <2>7, <3>1 DEF Passed
    <2>10. c.pc \in Holding /\ WantedIn(c.dir) \subseteq Seen' \cup Refused' \cup c.todo
      BY <1>2, <2>4, <2>8 DEF Holding
    <2>11. \/ UNCHANGED channel
           \/ \E mm \in Messages :
                mm.from = w /\ mm.kind # "done" /\ channel' = Append(channel, mm)
      BY <2>5, <2>6
    <2>12. QED
      BY <1>1, <1>2, <2>2, <2>3, <2>4, <2>7, <2>8, <2>9, <2>10, <2>11, KeepingStep, ZenonT(40)
  <1>6. QED
    BY <1>3, <1>4, <1>5 DEF CollectEntry
-----------------------------------------------------------------------------
(* Workers that take or put back directories, sleep and leave.             *)

LEMMA HoldersAreFinite == IsFiniteSet(Holders) /\ Cardinality(Holders) \in Nat
  <1>1. IsFiniteSet(Holders)
    BY ScanAssumption, FS_Subset DEF Holders
  <1>2. QED
    BY <1>1, FS_CardinalityType

\* A worker without a directory that only changes its place: "leave" and
\* "asleep" are chosen from "take", "gone" from "leave".
LEMMA IdleStep ==
    ASSUME ScanInv, NEW w \in Walkers, NEW place \in {"leave", "asleep", "gone"},
           stage = "walk", walker' = [walker EXCEPT ![w] = At(place)],
           walker[w].pc \in {"take", "leave"},
           place \in {"leave", "gone"} => scanCancelled \/ outstanding = 0,
           place = "asleep" => Holders # {},
           UNCHANGED <<work, outstanding>>, CallerKeeps, channel' \in Seq(Messages),
           DoneIsLast', InFlight("batch")' = InFlight("batch"), InFlight("issue")' = InFlight("issue")
    PROVE  ScanInv'
  <1>1. /\ stage' = "walk"
        /\ UNCHANGED <<work, outstanding, scanRequest, scanCancelled, doneFrom, toStat,
                       unflushed, delivered, report>>
    BY DEF CallerKeeps
  <1>2. ScanTypeOK /\ ContextsAreClean /\ DirectoriesAreTracked /\ WorkIsCounted /\ SleepersHaveAWaker
    BY DEF ScanInv
  <1>3. At(place) \in Contexts
    BY EmptySeq DEF At, Contexts
  <1>4. /\ walker'[w] = At(place) /\ walker' \in [Walkers -> Contexts]
        /\ \A v \in Walkers \ {w} : walker'[v] = walker[v]
    BY <1>2, <1>3 DEF ScanTypeOK
  <1>5. /\ walker'[w].pc = place /\ walker'[w].found = {} /\ walker'[w].children = <<>>
        /\ place \notin Holding /\ walker[w].pc \notin Holding
    BY <1>4 DEF At, Holding
  <1>6. walker[w].found = {} /\ walker[w].children = <<>>
    BY <1>2, <1>5 DEF ContextsAreClean
  <1>7. ScanTypeOK'
    BY <1>1, <1>2, <1>4 DEF ScanTypeOK
  <1>8. Holders' = Holders
    BY <1>4, <1>5 DEF Holders
  <1>9. WorkIsCounted'
    BY <1>1, <1>2, <1>4, <1>5, <1>8 DEF WorkIsCounted
  <1>10. SleepersHaveAWaker'
    BY <1>2, <1>4, <1>5, <1>8 DEF SleepersHaveAWaker
  <1>11. ContextsAreClean'
    BY <1>2, <1>4, <1>5 DEF ContextsAreClean, Holding
  <1>12. Gathered' = Gathered
    BY <1>4, <1>5, <1>6 DEF Gathered
  <1>13. Seen' = Seen /\ Refused' = Refused
    BY <1>1, <1>12 DEF Seen, Refused
  <1>14. \A d : (Passed(d) => Passed(d)') /\ (Held(d) => Held(d)') /\ (OnStack(d) => OnStack(d)')
    BY <1>1, <1>4, <1>5, <1>6 DEF Passed, Held, OnStack
  <1>15. \A v \in Walkers :
           /\ walker'[v].pc = "list" =>
                WantedIn(walker'[v].dir) \subseteq Seen' \cup Refused' \cup walker'[v].todo
           /\ walker'[v].pc = "flush" =>
                /\ walker'[v].code = "ok" => WantedIn(walker'[v].dir) \subseteq Seen' \cup Refused'
                /\ walker'[v].code = "reported" => walker'[v].dir \in Refused'
                /\ walker'[v].code = "cancelled" => scanCancelled'
    BY <1>1, <1>2, <1>4, <1>5, <1>13 DEF DirectoriesAreTracked, Listed, Holding
  <1>16. DirectoriesAreTracked'
    BY <1>1, <1>2, <1>13, <1>14, <1>15, TrackedStep
  <1>17. QED
    BY <1>1, <1>7, <1>9, <1>10, <1>11, <1>16, WalkParts

LEMMA LeaveStep ==
    ASSUME ScanInv, NEW w \in Walkers, Leave(w)
    PROVE  ScanInv'
  <1>1. /\ stage = "walk" /\ walker \in [Walkers -> Contexts] /\ channel \in Seq(Messages)
        /\ doneFrom \subseteq Walkers /\ DoneIsLast /\ UNCHANGED <<channel, doneFrom>>
        /\ walker[w].pc = "take" /\ walker' = [walker EXCEPT ![w] = At("leave")]
    BY DEF Leave, CallerKeeps, ScanInv, ScanTypeOK
  <1>2. DoneIsLast'
    BY <1>1, QuietKeepsOrder
  <1>3. \A kind : InFlight(kind)' = InFlight(kind)
    BY <1>1 DEF InFlight
  <1>4. QED
    BY <1>1, <1>2, <1>3, IdleStep DEF Leave

\* Directories are outstanding and none is on the stack, so somebody holds one.
LEMMA SleepStep ==
    ASSUME ScanInv, NEW w \in Walkers, Sleep(w)
    PROVE  ScanInv'
  <1>1. /\ stage = "walk" /\ walker \in [Walkers -> Contexts] /\ channel \in Seq(Messages)
        /\ doneFrom \subseteq Walkers /\ DoneIsLast /\ UNCHANGED <<channel, doneFrom>>
        /\ walker[w].pc = "take" /\ walker' = [walker EXCEPT ![w] = At("asleep")]
        /\ WorkIsCounted /\ work = <<>> /\ outstanding > 0
    BY DEF Sleep, CallerKeeps, ScanInv, ScanTypeOK
  <1>2. DoneIsLast'
    BY <1>1, QuietKeepsOrder
  <1>3. \A kind : InFlight(kind)' = InFlight(kind)
    BY <1>1 DEF InFlight
  <1>4. Holders # {}
    <2>1. SUFFICES ASSUME Holders = {} PROVE FALSE
      OBVIOUS
    <2>2. Cardinality(Holders) = 0 /\ Len(work) = 0
      BY <1>1, <2>1, FS_EmptySet
    <2>3. QED
      BY <1>1, <2>2 DEF WorkIsCounted
  <1>5. QED
    BY <1>1, <1>2, <1>3, <1>4, IdleStep DEF Sleep

LEMMA SendDoneStep ==
    ASSUME ScanInv, NEW w \in Walkers, SendDone(w)
    PROVE  ScanInv'
  <1> DEFINE m == Message(w, "done", {})
  <1>1. /\ stage = "walk" /\ walker \in [Walkers -> Contexts] /\ channel \in Seq(Messages)
        /\ doneFrom \subseteq Walkers /\ DoneIsLast /\ doneFrom' = doneFrom
        /\ walker[w].pc = "leave" /\ walker' = [walker EXCEPT ![w] = At("gone")]
        /\ channel' = Append(channel, m) /\ (scanCancelled \/ outstanding = 0)
    BY DEF SendDone, CallerKeeps, ScanInv, ScanTypeOK, WorkIsCounted
  <1>2. m \in Messages /\ m.from = w /\ m.kind = "done" /\ m.entries = {}
    BY DEF Message, Messages
  <1> HIDE DEF m
  <1>3. walker'[w].pc = "gone" /\ \A v \in Walkers : walker[v].pc = "gone" => walker'[v].pc = "gone"
    BY <1>1 DEF At
  <1>4. DoneIsLast'
    BY <1>1, <1>2, <1>3, SendKeepsOrder
  <1>5. InFlight("batch")' = InFlight("batch") /\ InFlight("issue")' = InFlight("issue")
    <2>1. \A kind : InFlight(kind)' = InFlight(kind) \cup (IF m.kind = kind THEN m.entries ELSE {})
      BY <1>1, <1>2, AppendCarries
    <2>2. \A kind : InFlight(kind)' = InFlight(kind)
      BY <1>2, <2>1
    <2>3. QED
      BY <2>2
  <1>6. channel' \in Seq(Messages)
    BY <1>1, <1>2, AppendProperties
  <1>7. QED
    BY <1>1, <1>4, <1>5, <1>6, IdleStep DEF SendDone
\* The popped directory passes from the stack into the worker's hands.
LEMMA PopStep ==
    ASSUME ScanInv, NEW w \in Walkers, Pop(w)
    PROVE  ScanInv'
  <1> DEFINE top == work[Len(work)]
             c == [At("open") EXCEPT !.dir = top]
  <1>1. /\ stage = "walk" /\ stage' = "walk" /\ walker[w].pc = "take" /\ work # <<>>
        /\ walker' = [walker EXCEPT ![w] = c] /\ work' = SubSeq(work, 1, Len(work) - 1)
        /\ outstanding > 0 /\ ~scanCancelled
        /\ UNCHANGED <<outstanding, channel, scanRequest, scanCancelled, doneFrom, toStat,
                       unflushed, delivered, report>>
    BY DEF Pop, CallerKeeps
  <1>2. /\ ScanTypeOK /\ ContextsAreClean /\ DirectoriesAreTracked /\ WorkIsCounted
        /\ SleepersHaveAWaker /\ DoneIsLast
    BY <1>1 DEF ScanInv
  <1>3. /\ work \in Seq(DirEntries) /\ Len(work) \in Nat \ {0}
        /\ top \in DirEntries
    BY <1>1, <1>2, EmptySeq DEF ScanTypeOK
  <1>4. /\ work' \in Seq(DirEntries) /\ Len(work') = Len(work) - 1
        /\ \A i \in 1 .. Len(work) - 1 : work'[i] = work[i]
    <2> DEFINE n == Len(work) - 1
    <2>1. n \in Nat /\ Len(work) = n + 1 /\ 1 \in Int
      BY <1>3
    <2>2. \A i \in 1 .. n : work[i] \in DirEntries
      BY <1>3, <2>1, ElementOfSeq
    <2>3. work' = SubSeq(work, 1, n)
      BY <1>1
    <2> HIDE DEF n
    <2>4. /\ work' \in Seq(DirEntries) /\ Len(work') = (IF 1 <= n THEN n - 1 + 1 ELSE 0)
          /\ \A i \in 1 .. n - 1 + 1 : work'[i] = work[1 + i - 1]
      BY <2>1, <2>2, <2>3, SubSeqProperties
    <2>5. /\ (IF 1 <= n THEN n - 1 + 1 ELSE 0) = n /\ 1 .. n - 1 + 1 = 1 .. n
          /\ \A i \in 1 .. n : 1 + i - 1 = i
      BY <2>1
    <2>6. work' \in Seq(DirEntries) /\ Len(work') = n /\ \A i \in 1 .. n : work'[i] = work[i]
      BY <2>4, <2>5
    <2>7. QED
      BY <2>6 DEF n
  <1>5. /\ c \in Contexts /\ c.pc = "open" /\ c.dir = top /\ c.found = {} /\ c.children = <<>>
        /\ c.code = "ok"
    BY <1>3, EmptySeq DEF At, Contexts
  <1> HIDE DEF c
  <1>6. /\ walker'[w] = c /\ walker' \in [Walkers -> Contexts]
        /\ \A v \in Walkers \ {w} : walker'[v] = walker[v]
    BY <1>1, <1>2, <1>5 DEF ScanTypeOK
  <1>7. walker[w].found = {} /\ walker[w].children = <<>>
    BY <1>1, <1>2 DEF ContextsAreClean, Holding
  <1>8. ScanTypeOK'
    BY <1>1, <1>2, <1>4, <1>6 DEF ScanTypeOK
  <1>9. Holders' = Holders \cup {w} /\ w \notin Holders
    BY <1>1, <1>5, <1>6 DEF Holders, Holding
  <1>10. Cardinality(Holders') = Cardinality(Holders) + 1
    BY <1>9, HoldersAreFinite, FS_AddElement
  <1>11. WorkIsCounted'
    <2>1. outstanding' = Len(work') + Cardinality(Holders')
      BY <1>1, <1>2, <1>3, <1>4, <1>10, HoldersAreFinite DEF WorkIsCounted
    <2>2. QED
      BY <1>1, <1>2, <1>5, <1>6, <2>1 DEF WorkIsCounted
  <1>12. SleepersHaveAWaker'
    BY <1>9 DEF SleepersHaveAWaker
  <1>13. ContextsAreClean'
    BY <1>2, <1>3, <1>5, <1>6 DEF ContextsAreClean, Holding
  <1>14. DoneIsLast'
    BY <1>1, <1>2, <1>6, QuietKeepsOrder DEF ScanTypeOK
  <1>15. Seen' = Seen /\ Refused' = Refused
    BY <1>1, <1>5, <1>6, <1>7, QuietStep
  <1>16. \A d : (Passed(d) => Passed(d)') /\ (Held(d) => Held(d)')
    BY <1>1, <1>6, <1>7 DEF Passed, Held, Holding
  <1>17. \A d : OnStack(d) => OnStack(d)' \/ Held(d)'
    <2>1. SUFFICES ASSUME NEW d, NEW i \in 1 .. Len(work), d = work[i]
                   PROVE  OnStack(d)' \/ Held(d)'
      BY DEF OnStack
    <2>2. CASE i = Len(work)
      BY <1>5, <1>6, <2>1, <2>2 DEF Held, Holding
    <2>3. CASE i # Len(work)
      <3>1. i \in 1 .. Len(work') /\ work'[i] = work[i]
        BY <1>3, <1>4, <2>3
      <3>2. QED
        BY <2>1, <3>1, Zenon DEF OnStack
    <2>4. QED
      BY <2>2, <2>3
  <1>18. \A v \in Walkers :
           /\ walker'[v].pc = "list" =>
                WantedIn(walker'[v].dir) \subseteq Seen' \cup Refused' \cup walker'[v].todo
           /\ walker'[v].pc = "flush" =>
                /\ walker'[v].code = "ok" => WantedIn(walker'[v].dir) \subseteq Seen' \cup Refused'
                /\ walker'[v].code = "reported" => walker'[v].dir \in Refused'
                /\ walker'[v].code = "cancelled" => scanCancelled'
    BY <1>1, <1>2, <1>5, <1>6, <1>15 DEF DirectoriesAreTracked, Listed
  <1>19. DirectoriesAreTracked'
    BY <1>1, <1>2, <1>15, <1>16, <1>17, <1>18, TrackedStep
  <1>20. QED
    BY <1>1, <1>8, <1>11, <1>12, <1>13, <1>14, <1>19, WalkParts

\* The directory is listed, refused or given up to a cancellation; its children
\* pass from the context to the stack.
LEMMA FinishStep ==
    ASSUME ScanInv, NEW w \in Walkers, FinishDirectory(w)
    PROVE  ScanInv'
  <1> DEFINE kids == walker[w].children
  <1>1. /\ stage = "walk" /\ stage' = "walk" /\ walker[w].pc = "flush" /\ walker[w].found = {}
        /\ walker[w].code # "error" /\ work' = work \o kids
        /\ outstanding' = outstanding - 1 + Len(kids)
        /\ walker' = [v \in Walkers |-> IF v = w THEN At("take") ELSE Woken(walker[v])]
        /\ UNCHANGED <<channel, scanRequest, scanCancelled, doneFrom, toStat,
                       unflushed, delivered, report>>
    BY DEF FinishDirectory, CallerKeeps
  <1>2. /\ ScanTypeOK /\ ContextsAreClean /\ DirectoriesAreTracked /\ WorkIsCounted
        /\ SleepersHaveAWaker /\ DoneIsLast
    BY <1>1 DEF ScanInv
  <1>3. /\ work \in Seq(DirEntries) /\ Len(work) \in Nat /\ kids \in Seq(DirEntries)
        /\ Len(kids) \in Nat /\ outstanding \in Nat
    BY <1>2 DEF ScanTypeOK, Contexts
  <1>4. /\ work' \in Seq(DirEntries) /\ Len(work') = Len(work) + Len(kids)
        /\ \A i \in 1 .. Len(work) : work'[i] = work[i]
        /\ \A i \in 1 .. Len(kids) : work'[Len(work) + i] = kids[i]
    BY <1>1, <1>3, ConcatProperties
  <1>5. /\ At("take") \in Contexts /\ At("take").pc = "take" /\ At("take").found = {}
        /\ At("take").children = <<>>
    BY EmptySeq DEF At, Contexts
  <1>6. /\ walker' \in [Walkers -> Contexts]
        /\ \A v \in Walkers : \/ walker'[v] = walker[v] /\ v # w
                              \/ walker'[v] = At("take") /\ (v = w \/ walker[v].pc = "asleep")
        /\ \A v \in Walkers : walker'[v].pc # "asleep"
        /\ walker'[w] = At("take")
    <2>1. \A v \in Walkers : walker[v] \in Contexts
      BY <1>2 DEF ScanTypeOK
    <2>2. /\ \A v \in Walkers : walker'[v] \in Contexts
          /\ \A v \in Walkers : \/ walker'[v] = walker[v] /\ v # w /\ walker[v].pc # "asleep"
                                \/ walker'[v] = At("take") /\ (v = w \/ walker[v].pc = "asleep")
      BY <1>1, <1>5, <2>1 DEF Woken
    <2>3. walker'[w] = At("take")
      BY <1>1
    <2>4. \A v \in Walkers : walker'[v].pc # "asleep"
      BY <1>5, <2>2
    <2>5. DOMAIN walker' = Walkers /\ walker' = [v \in Walkers |-> walker'[v]]
      BY <1>1
    <2>6. walker' \in [Walkers -> Contexts]
      BY <2>2, <2>5
    <2>7. QED
      BY <2>2, <2>3, <2>4, <2>6
  <1>7. \A v \in Walkers : walker[v].pc = "asleep" => walker[v].found = {} /\ walker[v].children = <<>>
    BY <1>2 DEF ContextsAreClean, Holding
  <1>8. Holders' = Holders \ {w} /\ w \in Holders
    BY <1>1, <1>5, <1>6 DEF Holders, Holding
  <1>9. Cardinality(Holders') = Cardinality(Holders) - 1
    BY <1>8, HoldersAreFinite, FS_RemoveElement
  <1>10. Cardinality(Holders) \in Nat \ {0}
    BY <1>8, HoldersAreFinite, FS_EmptySet
  <1>11. outstanding' \in Nat /\ outstanding' = Len(work') + Cardinality(Holders')
    <2>1. outstanding = Len(work) + Cardinality(Holders)
      BY <1>2 DEF WorkIsCounted
    <2>2. outstanding' = outstanding - 1 + Len(kids)
      BY <1>1
    <2>3. /\ Len(work) \in Nat /\ Len(kids) \in Nat /\ outstanding \in Nat
          /\ Len(work') = Len(work) + Len(kids)
      BY <1>3, <1>4
    <2> HIDE DEF kids
    <2>4. \A n, k \in Nat : \A h \in Nat \ {0} :
            /\ ((n + h) - 1) + k \in Nat /\ ((n + h) - 1) + k = (n + k) + (h - 1)
      OBVIOUS
    <2>5. outstanding' = ((Len(work) + Cardinality(Holders)) - 1) + Len(kids)
      BY <2>1, <2>2
    <2>6. /\ ((Len(work) + Cardinality(Holders)) - 1) + Len(kids) \in Nat
          /\ ((Len(work) + Cardinality(Holders)) - 1) + Len(kids)
               = (Len(work) + Len(kids)) + (Cardinality(Holders) - 1)
      BY <1>10, <2>3, <2>4
    <2>7. Len(work') + Cardinality(Holders') = (Len(work) + Len(kids)) + (Cardinality(Holders) - 1)
      BY <1>9, <2>3
    <2>8. QED
      BY <2>5, <2>6, <2>7
  <1>12. ScanTypeOK'
    BY <1>1, <1>2, <1>4, <1>6, <1>11 DEF ScanTypeOK
  <1>13. WorkIsCounted'
    <2>1. outstanding # 0
      BY <1>2, <1>3, <1>10 DEF WorkIsCounted
    <2>2. ASSUME NEW v \in Walkers, walker'[v].pc \in {"leave", "gone"}
          PROVE  scanCancelled'
      <3>1. walker'[v] = walker[v]
        BY <1>5, <1>6, <2>2
      <3>2. QED
        BY <1>1, <1>2, <2>1, <2>2, <3>1 DEF WorkIsCounted
    <2>3. QED
      BY <1>11, <2>2 DEF WorkIsCounted
  <1>14. SleepersHaveAWaker'
    BY <1>6 DEF SleepersHaveAWaker
  <1>15. ContextsAreClean'
    BY <1>2, <1>5, <1>6 DEF ContextsAreClean, Holding
  <1>16. \A v \in Walkers : walker[v].pc = "gone" => walker'[v].pc = "gone"
    BY <1>1, <1>6
  <1>17. DoneIsLast'
    BY <1>1, <1>2, <1>16, QuietKeepsOrder DEF ScanTypeOK
  <1>18. Seen' = Seen /\ Refused' = Refused
    BY <1>1, <1>5, <1>6, <1>7, QuietStep
  <1>19. \A d : OnStack(d) => OnStack(d)'
    <2>1. \A i \in 1 .. Len(work) : i \in 1 .. Len(work') /\ work'[i] = work[i]
      BY <1>3, <1>4
    <2>2. QED
      BY <2>1, Zenon DEF OnStack
  <1>20. \A d : Passed(d) => Passed(d)' \/ OnStack(d)'
    <2>1. SUFFICES ASSUME NEW d, NEW v \in Walkers, NEW i \in 1 .. Len(walker[v].children),
                          d = walker[v].children[i]
                   PROVE  Passed(d)' \/ OnStack(d)'
      BY DEF Passed
    <2>2. CASE v = w
      <3>1. Len(work) + i \in 1 .. Len(work') /\ work'[Len(work) + i] = kids[i]
        BY <1>3, <1>4, <2>2
      <3>2. QED
        BY <2>1, <2>2, <3>1, Zenon DEF OnStack
    <2>3. CASE v # w /\ walker'[v] = walker[v]
      BY <2>1, <2>3 DEF Passed
    <2>4. CASE walker[v].pc = "asleep"
      <3>1. walker[v].children = <<>>
        BY <1>7, <2>4
      <3>2. QED
        BY <3>1
    <2>5. QED
      BY <1>6, <2>2, <2>3, <2>4
  <1>21. \A d : Held(d) => Held(d)' \/ d = walker[w].dir
    BY <1>6 DEF Held, Holding
  <1>22. \A d : d = walker[w].dir => scanCancelled' \/ d \in Refused' \/ Listed(d)'
    <2>1. walker[w].code \in {"ok", "cancelled", "reported"}
      BY <1>1, <1>2 DEF ScanTypeOK, Contexts
    <2>2. scanCancelled \/ walker[w].dir \in Refused \/ Listed(walker[w].dir)
      BY <1>1, <1>2, <2>1 DEF DirectoriesAreTracked
    <2>3. \A d : Listed(d) => Listed(d)'
      BY <1>18 DEF Listed, WantedIn, Allows
    <2>4. QED
      BY <1>1, <1>18, <2>2, <2>3
  <1>23. \A v \in Walkers :
           /\ walker'[v].pc = "list" =>
                WantedIn(walker'[v].dir) \subseteq Seen' \cup Refused' \cup walker'[v].todo
           /\ walker'[v].pc = "flush" =>
                /\ walker'[v].code = "ok" => WantedIn(walker'[v].dir) \subseteq Seen' \cup Refused'
                /\ walker'[v].code = "reported" => walker'[v].dir \in Refused'
                /\ walker'[v].code = "cancelled" => scanCancelled'
    BY <1>1, <1>2, <1>5, <1>6, <1>18 DEF DirectoriesAreTracked, Listed
  <1>24. DirectoriesAreTracked'
    BY <1>1, <1>2, <1>18, <1>19, <1>20, <1>21, <1>22, <1>23, TrackedStep
  <1>25. QED
    BY <1>1, <1>12, <1>13, <1>14, <1>15, <1>17, <1>24, WalkParts
-----------------------------------------------------------------------------
(* The calling thread.                                                     *)

\* Rows committed or kept are together the rows there were.
LEMMA CommitKeeps ==
    ASSUME NEW pending, Commit(pending)
    PROVE  /\ delivered' \cup unflushed' = delivered \cup pending
           /\ unflushed' \subseteq pending
  BY DEF Commit

\* Steps that leave the workers alone and forget no row and no refusal.
LEMMA CallerStep ==
    ASSUME ScanInv, stage = "walk", stage' = "walk", ScanTypeOK',
           UNCHANGED <<scanRequest, work, outstanding, walker>>,
           scanCancelled => scanCancelled', Seen' = Seen, Refused' = Refused, DoneIsLast'
    PROVE  ScanInv'
  <1>1. /\ ContextsAreClean /\ DirectoriesAreTracked /\ WorkIsCounted /\ SleepersHaveAWaker
    BY DEF ScanInv
  <1>2. Holders' = Holders
    BY DEF Holders
  <1>3. WorkIsCounted' /\ SleepersHaveAWaker' /\ ContextsAreClean'
    BY <1>1, <1>2 DEF WorkIsCounted, SleepersHaveAWaker, ContextsAreClean
  <1>4. \A d : (Passed(d) => Passed(d)') /\ (Held(d) => Held(d)') /\ (OnStack(d) => OnStack(d)')
    BY DEF Passed, Held, OnStack
  <1>5. \A v \in Walkers :
           /\ walker'[v].pc = "list" =>
                WantedIn(walker'[v].dir) \subseteq Seen' \cup Refused' \cup walker'[v].todo
           /\ walker'[v].pc = "flush" =>
                /\ walker'[v].code = "ok" => WantedIn(walker'[v].dir) \subseteq Seen' \cup Refused'
                /\ walker'[v].code = "reported" => walker'[v].dir \in Refused'
                /\ walker'[v].code = "cancelled" => scanCancelled'
    BY <1>1 DEF DirectoriesAreTracked, Listed
  <1>6. DirectoriesAreTracked'
    BY <1>1, <1>4, <1>5, TrackedStep
  <1>7. QED
    BY <1>3, <1>6, WalkParts

LEMMA CancelStep ==
    ASSUME ScanInv, Cancel
    PROVE  ScanInv'
  <1>1. /\ stage # "returned" /\ scanCancelled' = TRUE
        /\ UNCHANGED <<scanRequest, stage, work, outstanding, walker, channel, doneFrom, toStat,
                       unflushed, delivered, report>>
    BY DEF Cancel, walkVars
  <1>2. ScanTypeOK'
    BY <1>1 DEF ScanInv, ScanTypeOK
  <1>3. CASE stage = "walk"
    <2>1. Seen' = Seen /\ Refused' = Refused
      BY <1>1, QuietStep
    <2>2. DoneIsLast'
      BY <1>1, <1>3, QuietKeepsOrder DEF ScanInv, ScanTypeOK
    <2>3. QED
      BY <1>1, <1>2, <1>3, <2>1, <2>2, CallerStep
  <1>4. CASE stage # "walk"
    <2>1. Untouched' = Untouched /\ StatsAreTracked' = StatsAreTracked
      BY <1>1 DEF Untouched, StatsAreTracked, Asked, Allows, At
    <2>2. SleepersHaveAWaker'
      BY <1>1 DEF ScanInv, SleepersHaveAWaker, Holders
    <2>3. QED
      BY <1>1, <1>2, <1>4, <2>1, <2>2 DEF ScanInv, ReportIsWhole
  <1>5. QED
    BY <1>3, <1>4

LEMMA FlushIdleStep ==
    ASSUME ScanInv, FlushIdle
    PROVE  ScanInv'
  <1>1. /\ stage = "walk" /\ stage' = "walk"
        /\ delivered' = delivered \cup unflushed /\ unflushed' = {}
        /\ UNCHANGED <<scanRequest, scanCancelled, work, outstanding, walker, channel, doneFrom,
                       toStat, report>>
    BY DEF FlushIdle, walkVars
  <1>2. ScanTypeOK'
    BY <1>1 DEF ScanInv, ScanTypeOK
  <1>3. \A kind : InFlight(kind)' = InFlight(kind)
    BY <1>1 DEF InFlight
  <1>4. Seen' = Seen /\ Refused' = Refused
    BY <1>1, <1>3 DEF Seen, Refused, Gathered
  <1>5. DoneIsLast'
    BY <1>1, QuietKeepsOrder DEF ScanInv, ScanTypeOK
  <1>6. QED
    BY <1>1, <1>2, <1>4, <1>5, CallerStep

LEMMA ReceiveStep ==
    ASSUME ScanInv, Receive
    PROVE  ScanInv'
  <1> DEFINE m == Head(channel)
  <1>1. /\ stage = "walk" /\ stage' = "walk" /\ channel # <<>> /\ channel' = Tail(channel)
        /\ UNCHANGED <<scanRequest, scanCancelled, work, outstanding, walker, toStat>>
    BY DEF Receive
  <1>2. ScanTypeOK /\ DoneIsLast
    BY <1>1 DEF ScanInv
  <1>3. /\ channel' \in Seq(Messages) /\ m \in Messages /\ m = channel[1]
        /\ Len(channel') = Len(channel) - 1 /\ Len(channel) \in Nat \ {0}
        /\ \A i \in 1 .. Len(channel') : channel'[i] = channel[i + 1]
    BY <1>1, <1>2, HeadTailProperties, EmptySeq DEF ScanTypeOK
  <1>4. /\ InFlight("batch") = InFlight("batch")' \cup (IF m.kind = "batch" THEN m.entries ELSE {})
        /\ InFlight("issue") = InFlight("issue")' \cup (IF m.kind = "issue" THEN m.entries ELSE {})
    <2>1. \A kind : InFlight(kind) = InFlight(kind)' \cup (IF m.kind = kind THEN m.entries ELSE {})
      BY <1>1, <1>2, TailCarries DEF ScanTypeOK
    <2>2. QED
      BY <2>1
  <1>5. \/ /\ m.kind = "batch" /\ Commit(unflushed \cup m.entries) /\ UNCHANGED <<report, doneFrom>>
        \/ /\ m.kind = "issue"
           /\ report' = [report EXCEPT !.uncovered = @ \cup m.entries]
           /\ UNCHANGED <<unflushed, delivered, doneFrom>>
        \/ /\ m.kind = "done" /\ doneFrom' = doneFrom \cup {m.from}
           /\ UNCHANGED <<unflushed, delivered, report>>
    BY DEF Receive
  <1>6. m.from \in Walkers /\ m.entries \subseteq DirEntries
    BY <1>3 DEF Messages
  <1>7. /\ \A i \in 1 .. Len(channel') : i + 1 \in 1 .. Len(channel) /\ channel'[i] = channel[i + 1]
        /\ \A i \in 1 .. Len(channel') : i + 1 \in 1 + 1 .. Len(channel)
        /\ \A i \in 1 .. Len(channel') : \A j \in i + 1 .. Len(channel') :
              j \in 1 .. Len(channel') /\ j + 1 \in (i + 1) + 1 .. Len(channel)
        /\ 1 \in 1 .. Len(channel)
    BY <1>3
  <1> HIDE DEF m
  <1>8. /\ report' \in [uncovered : SUBSET DirEntries, cancelled : BOOLEAN]
        /\ unflushed' \subseteq DirEntries /\ delivered' \subseteq DirEntries
        /\ doneFrom' \subseteq Walkers
    <2>1. CASE m.kind = "batch"
      <3>1. Commit(unflushed \cup m.entries) /\ UNCHANGED <<report, doneFrom>>
        BY <1>5, <2>1
      <3>2. QED
        BY <1>2, <1>6, <3>1, CommitKeeps DEF ScanTypeOK
    <2>2. CASE m.kind # "batch"
      BY <1>2, <1>5, <1>6, <2>2 DEF ScanTypeOK
    <2>3. QED
      BY <2>1, <2>2
  <1>9. ScanTypeOK'
    BY <1>1, <1>2, <1>3, <1>8 DEF ScanTypeOK
  <1>10. Seen' = Seen /\ Refused' = Refused
    <2>1. Gathered' = Gathered
      BY <1>1 DEF Gathered
    <2>2. CASE m.kind = "batch"
      <3>1. Commit(unflushed \cup m.entries) /\ UNCHANGED <<report, doneFrom>>
        BY <1>5, <2>2
      <3>2. delivered' \cup unflushed' = delivered \cup (unflushed \cup m.entries)
        BY <3>1, CommitKeeps
      <3>3. QED
        BY <1>4, <2>1, <2>2, <3>1, <3>2 DEF Seen, Refused
    <2>3. CASE m.kind = "issue"
      <3>1. report'.uncovered = report.uncovered \cup m.entries /\ UNCHANGED <<unflushed, delivered>>
        BY <1>2, <1>5, <2>3 DEF ScanTypeOK
      <3>2. QED
        BY <1>4, <2>1, <2>3, <3>1 DEF Seen, Refused
    <2>4. CASE m.kind = "done"
      BY <1>4, <1>5, <2>1, <2>4 DEF Seen, Refused
    <2>5. QED
      BY <1>5, <2>2, <2>3, <2>4
  <1>11. doneFrom' = doneFrom \/ (m.kind = "done" /\ doneFrom' = doneFrom \cup {m.from})
    BY <1>5
  <1>12. DoneIsLast'
    <2>1. \A v \in doneFrom' : walker'[v].pc = "gone"
      BY <1>1, <1>2, <1>3, <1>7, <1>11 DEF DoneIsLast
    <2>2. ASSUME NEW i \in 1 .. Len(channel')
          PROVE  /\ channel'[i].from \notin doneFrom'
                 /\ channel'[i].kind = "done" =>
                      /\ walker'[channel'[i].from].pc = "gone"
                      /\ \A j \in i + 1 .. Len(channel') : channel'[j].from # channel'[i].from
      <3>1. channel[i + 1].from \notin doneFrom
        BY <1>2, <1>7 DEF DoneIsLast
      <3>2. m.kind = "done" => channel[i + 1].from # m.from
        BY <1>2, <1>3, <1>7 DEF DoneIsLast
      <3>3. channel[i + 1].kind = "done" =>
              /\ walker[channel[i + 1].from].pc = "gone"
              /\ \A j \in (i + 1) + 1 .. Len(channel) : channel[j].from # channel[i + 1].from
        BY <1>2, <1>7 DEF DoneIsLast
      <3>4. QED
        BY <1>1, <1>7, <1>11, <3>1, <3>2, <3>3
    <2>3. QED
      BY <2>1, <2>2 DEF DoneIsLast
  <1>13. QED
    BY <1>1, <1>9, <1>10, <1>12, CallerStep
\* Every worker has gone and no message is left: with `outstanding' exact, the
\* scan was cancelled or no directory is waiting or held.
LEMMA ReturnStep ==
    ASSUME ScanInv, Return
    PROVE  ScanInv'
  <1>1. /\ stage = "walk" /\ stage' = "returned" /\ AllDone
        /\ delivered' = delivered \cup unflushed /\ unflushed' = {}
        /\ report' = [report EXCEPT !.cancelled = scanCancelled]
        /\ UNCHANGED <<scanRequest, scanCancelled, work, outstanding, walker, channel, doneFrom, toStat>>
    BY DEF Return, Returned, walkVars
  <1>2. /\ ScanTypeOK /\ ContextsAreClean /\ DirectoriesAreTracked /\ WorkIsCounted
        /\ SleepersHaveAWaker /\ DoneIsLast
    BY <1>1 DEF ScanInv
  <1>3. ScanTypeOK'
    BY <1>1, <1>2 DEF ScanTypeOK
  <1>4. doneFrom = Walkers
    BY <1>1, <1>2, ScanAssumption, FS_Subset DEF AllDone, ScanTypeOK
  <1>5. \A w \in Walkers : walker[w].pc = "gone"
    BY <1>2, <1>4 DEF DoneIsLast
  <1>6. channel = <<>>
    <2>1. SUFFICES ASSUME channel # <<>> PROVE FALSE
      OBVIOUS
    <2>2. channel[1] \in Messages /\ 1 \in 1 .. Len(channel)
      BY <1>2, <2>1, EmptySeq, ElementOfSeq DEF ScanTypeOK
    <2>3. channel[1].from \in Walkers /\ channel[1].from \notin doneFrom
      BY <1>2, <2>2 DEF DoneIsLast, Messages
    <2>4. QED
      BY <1>4, <2>3
  <1>7. Holders = {} /\ \A d : ~Held(d)
    BY <1>5 DEF Holders, Held, Holding
  <1>8. Gathered = {} /\ \A d : ~Passed(d)
    <2>1. \A w \in Walkers : walker[w].found = {} /\ walker[w].children = <<>>
      BY <1>2, <1>5 DEF ContextsAreClean, Holding
    <2>2. \A w \in Walkers : Len(walker[w].children) = 0
      BY <2>1
    <2>3. QED
      BY <2>1, <2>2 DEF Gathered, Passed
  <1>9. InFlight("batch") = {} /\ InFlight("issue") = {}
    <2>1. Len(channel) = 0
      BY <1>6
    <2>2. QED
      BY <2>1 DEF InFlight
  <1>10. Seen = delivered' /\ Refused = report'.uncovered
    BY <1>1, <1>2, <1>8, <1>9 DEF Seen, Refused, ScanTypeOK
  <1>11. scanCancelled \/ outstanding = 0
    BY <1>2, <1>5, ScanAssumption DEF WorkIsCounted
  <1>12. scanCancelled \/ \A d : ~OnStack(d)
    <2>1. Cardinality(Holders) = 0
      BY <1>7, FS_EmptySet
    <2>2. Len(work) \in Nat
      BY <1>2 DEF ScanTypeOK
    <2>3. scanCancelled \/ Len(work) = 0
      BY <1>2, <1>11, <2>1, <2>2 DEF WorkIsCounted
    <2>4. QED
      BY <2>3 DEF OnStack
  <1>13. ReportIsWhole'
    <2>1. SUFFICES ASSUME ~report'.cancelled
                   PROVE  /\ Asked' \subseteq delivered' \cup report'.uncovered
                          /\ \A d \in (delivered' \cap Walkable) \ report'.uncovered :
                               WantedIn(d) \subseteq delivered' \cup report'.uncovered
      BY DEF ReportIsWhole, WantedIn, Allows
    <2>2. ~scanCancelled
      BY <1>1, <1>2, <2>1 DEF ScanTypeOK
    <2>3. Asked' = Asked
      BY <1>1 DEF Asked, Allows
    <2>4. \A d \in Seen \cap Walkable : d \in Refused \/ Listed(d)
      BY <1>2, <1>7, <1>8, <1>12, <2>2 DEF DirectoriesAreTracked
    <2>5. QED
      BY <1>2, <1>10, <2>3, <2>4 DEF DirectoriesAreTracked, Listed
  <1>14. SleepersHaveAWaker'
    BY <1>1, <1>5 DEF SleepersHaveAWaker
  <1>15. QED
    BY <1>1, <1>3, <1>13, <1>14 DEF ScanInv

\* The first directories are the ones delivered, each on the stack.
LEMMA StartWalkStep ==
    ASSUME ScanInv, StartWalk
    PROVE  ScanInv'
  <1>1. /\ stage = "start" /\ stage' = "walk"
        /\ UNCHANGED <<scanRequest, scanCancelled, walker, channel, doneFrom, toStat, unflushed>>
    BY DEF StartWalk
  <1>2. ScanTypeOK /\ Untouched /\ delivered = {} /\ unflushed = {}
    BY <1>1 DEF ScanInv
  <1>3. PICK failed \in SUBSET Asked :
          LET dirs == (Asked \ failed) \cap Walkable
          IN /\ delivered' = Asked \ failed
             /\ report' = [report EXCEPT !.uncovered = failed]
             /\ outstanding' = Cardinality(dirs)
             /\ \E order \in [1 .. Cardinality(dirs) -> dirs] :
                  /\ \A d \in dirs : \E i \in 1 .. Cardinality(dirs) : order[i] = d
                  /\ work' = order
    BY DEF StartWalk
  <1> DEFINE dirs == (Asked \ failed) \cap Walkable
             n == Cardinality(dirs)
  <1>4. Asked \subseteq DirEntries
    BY <1>2, ScanAssumption DEF Asked, ScanTypeOK
  <1>5. dirs \subseteq DirEntries /\ n \in Nat
    <2>1. dirs \subseteq DirEntries
      BY <1>4
    <2>2. IsFiniteSet(dirs)
      BY <2>1, ScanAssumption, FS_Subset
    <2>3. QED
      BY <2>1, <2>2, FS_CardinalityType
  <1>6. /\ work' \in [1 .. n -> dirs] /\ outstanding' = n
        /\ \A d \in dirs : \E i \in 1 .. n : work'[i] = d
    BY <1>3
  <1>7. delivered' = Asked \ failed /\ report'.uncovered = failed /\ report' = [report EXCEPT !.uncovered = failed]
    BY <1>2, <1>3 DEF ScanTypeOK
  <1> HIDE DEF n
  <1>8. work' \in Seq(DirEntries) /\ Len(work') = n
    BY <1>5, <1>6, SeqDef, LenProperties
  <1>9. ScanTypeOK'
    BY <1>1, <1>2, <1>4, <1>5, <1>6, <1>7, <1>8 DEF ScanTypeOK
  <1>10. /\ \A w \in Walkers : walker'[w] = At("take")
         /\ channel' = <<>> /\ doneFrom' = {}
    BY <1>1, <1>2 DEF Untouched
  <1>11. /\ At("take").pc = "take" /\ At("take").found = {} /\ At("take").children = <<>>
    BY DEF At
  <1>12. Holders' = {}
    BY <1>10, <1>11 DEF Holders, Holding
  <1>13. Cardinality(Holders') = 0
    BY <1>12, FS_EmptySet
  <1>14. WorkIsCounted' /\ SleepersHaveAWaker' /\ ContextsAreClean'
    BY <1>5, <1>6, <1>8, <1>10, <1>11, <1>13
       DEF WorkIsCounted, SleepersHaveAWaker, ContextsAreClean, Holding
  <1>15. DoneIsLast'
    <2>1. Len(channel') = 0
      BY <1>10
    <2>2. QED
      BY <1>10, <2>1 DEF DoneIsLast
  <1>16. Seen' = Asked \ failed /\ Refused' = failed
    <2>1. InFlight("batch")' = {} /\ InFlight("issue")' = {}
      <3>1. Len(channel') = 0
        BY <1>10
      <3>2. QED
        BY <3>1 DEF InFlight
    <2>2. Gathered' = {}
      BY <1>10, <1>11 DEF Gathered
    <2>3. QED
      BY <1>1, <1>2, <1>7, <2>1, <2>2 DEF Seen, Refused
  <1>17. \A d \in dirs : OnStack(d)'
    BY <1>6, <1>8 DEF OnStack
  <1>18. Asked' = Asked
    BY <1>1 DEF Asked, Allows
  <1>19. DirectoriesAreTracked'
    BY <1>10, <1>11, <1>16, <1>17, <1>18 DEF DirectoriesAreTracked
  <1>20. QED
    BY <1>1, <1>9, <1>14, <1>15, <1>19, WalkParts
\* Steps outside a walk leave the workers untouched.
LEMMA NoWalkStep ==
    ASSUME ScanInv, stage \in {"start", "stat"}, walkVars' = walkVars
    PROVE  SleepersHaveAWaker' /\ (stage = "start" => Untouched')
  <1>1. UNCHANGED <<work, outstanding, walker, channel, doneFrom>>
    BY DEF walkVars
  <1>2. SleepersHaveAWaker'
    BY <1>1 DEF ScanInv, SleepersHaveAWaker, Holders
  <1>3. stage = "start" => Untouched'
    BY <1>1 DEF ScanInv, Untouched, At
  <1>4. QED
    BY <1>2, <1>3

LEMMA StartStep ==
    ASSUME ScanInv, StartCancelled \/ StartUnmounted \/ StartStat
    PROVE  ScanInv'
  <1>1. /\ stage = "start" /\ walkVars' = walkVars
        /\ UNCHANGED <<scanRequest, scanCancelled, unflushed, delivered>>
    BY DEF StartCancelled, StartUnmounted, StartStat
  <1>2. /\ ScanTypeOK /\ Asked \subseteq scanRequest.paths /\ Asked \cap Pruned = {}
        /\ delivered = {} /\ unflushed = {} /\ ~report.cancelled
        /\ scanRequest.paths \subseteq DirEntries /\ Asked' = Asked
    BY <1>1, ScanAssumption DEF ScanInv, ScanTypeOK, Asked, Allows
  <1>3. UNCHANGED <<work, outstanding, walker, channel, doneFrom>>
    BY <1>1 DEF walkVars
  <1>4. SleepersHaveAWaker'
    BY <1>1, NoWalkStep
  <1>5. CASE StartCancelled
    <2>1. stage' = "returned" /\ toStat' = toStat /\ report' = [uncovered |-> {}, cancelled |-> TRUE]
      BY <1>5 DEF StartCancelled
    <2>2. ScanTypeOK'
      BY <1>1, <1>2, <1>3, <2>1 DEF ScanTypeOK
    <2>3. QED
      BY <1>4, <2>1, <2>2 DEF ScanInv, ReportIsWhole
  <1>6. CASE StartUnmounted
    <2>1. /\ stage' = "returned" /\ toStat' = toStat
          /\ report' = [uncovered |-> IF scanRequest.recursive THEN scanRequest.paths
                                      ELSE scanRequest.paths \ Pruned, cancelled |-> FALSE]
      BY <1>6 DEF StartUnmounted
    <2>2. ScanTypeOK'
      BY <1>1, <1>2, <1>3, <2>1 DEF ScanTypeOK
    <2>3. Asked' \subseteq report'.uncovered /\ delivered' = {}
      BY <1>1, <1>2, <2>1
    <2>4. QED
      BY <1>4, <2>1, <2>2, <2>3 DEF ScanInv, ReportIsWhole
  <1>7. CASE StartStat
    <2>1. /\ stage' = "stat" /\ report' = report /\ ~scanRequest.recursive
          /\ toStat' = {e \in scanRequest.paths : e \notin Pruned}
      BY <1>7 DEF StartStat
    <2>2. ScanTypeOK'
      BY <1>1, <1>2, <1>3, <2>1 DEF ScanTypeOK
    <2>3. StatsAreTracked'
      BY <1>1, <1>2, <2>1 DEF StatsAreTracked
    <2>4. QED
      BY <1>1, <1>4, <2>1, <2>2, <2>3 DEF ScanInv, ReportIsWhole
  <1>8. QED
    BY <1>5, <1>6, <1>7

LEMMA StatStep ==
    ASSUME ScanInv,
           \/ StatCancelled \/ StatDone
           \/ \E e \in DirEntries : SkipMount(e) \/ StatEntry(e)
    PROVE  ScanInv'
  <1>1. stage = "stat" /\ walkVars' = walkVars /\ UNCHANGED <<scanRequest, scanCancelled>>
    BY DEF StatCancelled, StatDone, SkipMount, StatEntry
  <1>2. ScanTypeOK /\ StatsAreTracked /\ ~scanRequest.recursive
    BY <1>1 DEF ScanInv
  <1>3. UNCHANGED <<work, outstanding, walker, channel, doneFrom>> /\ Asked' = Asked
    BY <1>1 DEF walkVars, Asked, Allows
  <1>4. SleepersHaveAWaker'
    BY <1>1, NoWalkStep
  <1>5. CASE StatCancelled \/ StatDone
    <2>1. /\ stage' = "returned" /\ toStat' = toStat
          /\ unflushed' = {} /\ delivered' = delivered \cup unflushed
          /\ \/ report' = [report EXCEPT !.cancelled = TRUE]
             \/ report' = report /\ toStat = {}
      BY <1>5 DEF StatCancelled, StatDone, Returned
    <2>2. ScanTypeOK'
      BY <1>1, <1>2, <1>3, <2>1 DEF ScanTypeOK
    <2>3. ReportIsWhole'
      BY <1>1, <1>2, <1>3, <2>1 DEF ReportIsWhole, StatsAreTracked, ScanTypeOK
    <2>4. QED
      BY <1>4, <2>1, <2>2, <2>3 DEF ScanInv
  <1>6. ASSUME NEW e \in DirEntries, SkipMount(e)
        PROVE  ScanInv'
    <2>1. /\ stage' = "stat" /\ toStat' = toStat \ {e} /\ e \notin Asked
          /\ UNCHANGED <<unflushed, delivered, report>>
      BY <1>1, <1>6 DEF SkipMount, Asked
    <2>2. ScanTypeOK'
      BY <1>1, <1>2, <1>3, <2>1 DEF ScanTypeOK
    <2>3. StatsAreTracked'
      BY <1>2, <1>3, <2>1 DEF StatsAreTracked
    <2>4. QED
      BY <1>1, <1>2, <1>4, <2>1, <2>2, <2>3 DEF ScanInv, ReportIsWhole
  <1>7. ASSUME NEW e \in DirEntries, StatEntry(e)
        PROVE  ScanInv'
    <2>1. /\ stage' = "stat" /\ toStat' = toStat \ {e}
          /\ \/ Commit(unflushed \cup {e}) /\ UNCHANGED report
             \/ /\ report' = [report EXCEPT !.uncovered = @ \cup {e}]
                /\ UNCHANGED <<unflushed, delivered>>
      BY <1>1, <1>7 DEF StatEntry
    <2>2. CASE Commit(unflushed \cup {e}) /\ UNCHANGED report
      <3>1. /\ delivered' \cup unflushed' = delivered \cup (unflushed \cup {e})
            /\ unflushed' \subseteq unflushed \cup {e}
        BY <2>2, CommitKeeps
      <3>2. ScanTypeOK'
        BY <1>1, <1>2, <1>3, <2>1, <2>2, <3>1 DEF ScanTypeOK
      <3>3. StatsAreTracked'
        BY <1>2, <1>3, <2>1, <2>2, <3>1 DEF StatsAreTracked
      <3>4. QED
        BY <1>1, <1>2, <1>4, <2>1, <3>2, <3>3 DEF ScanInv, ReportIsWhole
    <2>3. CASE /\ report' = [report EXCEPT !.uncovered = @ \cup {e}]
               /\ UNCHANGED <<unflushed, delivered>>
      <3>1. ScanTypeOK'
        BY <1>1, <1>2, <1>3, <2>1, <2>3 DEF ScanTypeOK
      <3>2. /\ report'.uncovered = report.uncovered \cup {e}
            /\ report'.cancelled = report.cancelled
        BY <1>2, <2>3 DEF ScanTypeOK
      <3>3. StatsAreTracked'
        BY <1>2, <1>3, <2>1, <2>3, <3>2 DEF StatsAreTracked
      <3>4. QED
        BY <1>1, <1>2, <1>4, <2>1, <3>1, <3>3 DEF ScanInv, ReportIsWhole
    <2>4. QED
      BY <2>1, <2>2, <2>3
  <1>8. QED
    BY <1>5, <1>6, <1>7

LEMMA ScanInitially == ScanInit => ScanInv
  <1> SUFFICES ASSUME ScanInit PROVE ScanInv
    OBVIOUS
  <1>1. At("take") \in Contexts /\ At("take").pc = "take"
    BY EmptySeq DEF At, Contexts
  <1>2. walker \in [Walkers -> Contexts] /\ \A w \in Walkers : walker[w].pc = "take"
    BY <1>1 DEF ScanInit
  <1>3. work \in Seq(DirEntries) /\ channel \in Seq(Messages)
    BY EmptySeq DEF ScanInit
  <1>4. ScanTypeOK
    BY <1>2, <1>3 DEF ScanInit, ScanTypeOK
  <1>5. SleepersHaveAWaker
    BY <1>2 DEF SleepersHaveAWaker
  <1>6. QED
    BY <1>4, <1>5 DEF ScanInit, ScanInv, Untouched, ReportIsWhole

LEMMA ScanStutters == ScanInv /\ UNCHANGED scanVars => ScanInv'
  <1> SUFFICES ASSUME ScanInv, UNCHANGED scanVars PROVE ScanInv'
    OBVIOUS
  <1>1. UNCHANGED <<scanRequest, stage, scanCancelled, work, outstanding, walker, channel, doneFrom,
                    toStat, unflushed, delivered, report>>
    BY DEF scanVars, walkVars
  <1>2. ScanTypeOK' /\ SleepersHaveAWaker' /\ Asked' = Asked
    BY <1>1 DEF ScanInv, ScanTypeOK, SleepersHaveAWaker, Holders, Asked, Allows
  <1>3. CASE stage = "walk"
    <2>1. Seen' = Seen /\ Refused' = Refused
      BY <1>1, QuietStep
    <2>2. DoneIsLast'
      BY <1>1, <1>3, QuietKeepsOrder DEF ScanInv, ScanTypeOK
    <2>3. QED
      BY <1>1, <1>2, <1>3, <2>1, <2>2, CallerStep
  <1>4. CASE stage # "walk"
    BY <1>1, <1>2, <1>4
       DEF ScanInv, Untouched, StatsAreTracked, ReportIsWhole, At, WantedIn, Allows
  <1>5. QED
    BY <1>3, <1>4

\* The inductive invariant: every step of every thread preserves it.
THEOREM ScanInvariant == ScanSpec => []ScanInv
  <1>1. ScanInit => ScanInv
    BY ScanInitially
  <1>2. ScanInv /\ [ScanNext]_scanVars => ScanInv'
    <2>1. SUFFICES ASSUME ScanInv, ScanNext PROVE ScanInv'
      BY ScanStutters
    <2>2. ASSUME NEW w \in Walkers, WalkerNext(w)
          PROVE  ScanInv'
      BY <2>1, <2>2, LeaveStep, PopStep, SleepStep, OpenStep, FailStep, CollectStep, AbandonStep,
         ListDoneStep, SendRestStep, SendIssueStep, FinishStep, SendDoneStep DEF WalkerNext
    <2>3. QED
      BY <2>1, <2>2, CancelStep, StartStep, StartWalkStep, ReceiveStep, FlushIdleStep, ReturnStep,
         StatStep DEF ScanNext
  <1>3. QED
    BY <1>1, <1>2, PTL DEF ScanSpec

\* For any tree, any number of workers and any capacities: a scan that does not
\* report itself cancelled delivered, or reports as uncovered, every path asked
\* for and every entry of every directory it delivered (scan_excluding_with_scope,
\* scan_metadata_in_namespace).
THEOREM ReportsAreWhole == ScanSpec => []ReportIsWhole
  <1>1. ScanInv => ReportIsWhole
    BY DEF ScanInv
  <1>2. QED
    BY <1>1, ScanInvariant, PTL

\* A worker that sleeps on the condition variable is never the last one: some
\* worker holds a directory and will notify it (scan_excluding_with_scope).
THEOREM SleepersAreNotified == ScanSpec => []SleepersHaveAWaker
  <1>1. ScanInv => SleepersHaveAWaker
    BY DEF ScanInv
  <1>2. QED
    BY <1>1, ScanInvariant, PTL

-----------------------------------------------------------------------------
(* PreparedBatch *)

\* Naturals with a bound have a maximum.
LEMMA LeastNatural ==
    ASSUME NEW T, T \subseteq Nat, T # {}
    PROVE  \E x \in T : \A y \in T : x <= y
  <1> DEFINE R == OpToRel(<, Nat)
  <1>1. IsWellFoundedOn(R, Nat)
    BY NatLessThanWellFounded
  <1>2. \A x, y \in Nat : <<y, x>> \in R <=> y < x
    BY Zenon DEF OpToRel
  <1> HIDE DEF R
  <1>3. PICK x \in T : \A y \in T : ~(<<y, x>> \in R)
    BY <1>1, WFMin, Zenon
  <1>4. \A y \in T : ~(y < x)
    BY <1>2, <1>3, Zenon
  <1>5. x \in Nat /\ \A y \in T : y \in Nat
    BY Zenon
  <1>6. \A y \in T : x <= y
    BY <1>4, <1>5
  <1>7. QED
    BY <1>6, Zenon

LEMMA MaxOfBounded ==
    ASSUME NEW S, S \subseteq Nat, S # {}, NEW n \in Nat, \A x \in S : x <= n
    PROVE  Max(S) \in S /\ \A x \in S : x <= Max(S)
  <1> DEFINE T == {n - x : x \in S}
  <1>0. \A x \in S : n - x \in Nat
    OBVIOUS
  <1>1. T \subseteq Nat /\ T # {}
    BY <1>0
  <1>2. PICK u \in T : \A v \in T : u <= v
    BY <1>1, LeastNatural
  <1>3. PICK m \in S : u = n - m
    BY <1>2
  <1>4. \A x \in S : m >= x
    BY <1>2, <1>3
  <1>5. QED
    BY <1>4 DEF Max

\* What Observe keeps, object by object.
Vouched(t, rs, es, o) ==
  /\ \A e \in es : e.obj = o => Reusable(t, e)
  /\ \A e \in es : rs[e.path].obj = o /\ Known(rs[e.path]) /\ Differs(rs[e.path], e)
                     => Reusable(t, e) /\ e.obj = o

Vouching(t, rs, es) == {o \in DOMAIN t : Vouched(t, rs, es, o)}

LEMMA Observed ==
  ASSUME NEW t, NEW rs, NEW es
  PROVE  Observe(t, rs, es) = Restrict(t, Vouching(t, rs, es))
  <1> DEFINE forget == {e.obj : e \in {x \in es : ~Reusable(t, x)}}
        \cup {rs[e.path].obj : e \in {x \in es : /\ Known(rs[x.path]) /\ Differs(rs[x.path], x)
                                                 /\ ~Reusable(t, x) \/ rs[x.path].obj # x.obj}}
  <1>1. Observe(t, rs, es) = Restrict(t, DOMAIN t \ forget)
    BY DEF Observe
  <1>2. ASSUME NEW o \in DOMAIN t PROVE o \notin forget <=> Vouched(t, rs, es, o)
    BY DEF Vouched
  <1> HIDE DEF forget
  <1>3. DOMAIN t \ forget = Vouching(t, rs, es)
    BY <1>2 DEF Vouching
  <1>4. QED
    BY <1>1, <1>3

LEMMA Restricted ==
  ASSUME NEW t, NEW S
  PROVE  /\ DOMAIN Restrict(t, S) = S
         /\ \A o \in S : Restrict(t, S)[o] = t[o]
         /\ Restrict(t, S) = [o \in DOMAIN Restrict(t, S) |-> Restrict(t, S)[o]]
  BY DEF Restrict

LEMMA ObservedKeeps ==
  ASSUME NEW t, NEW rs, NEW es, t = [o \in DOMAIN t |-> t[o]]
  PROVE  Observe(t, rs, es) = t <=> \A o \in DOMAIN t : Vouched(t, rs, es, o)
  <1>1. Observe(t, rs, es) = Restrict(t, Vouching(t, rs, es))
    BY Observed
  <1>2. Restrict(t, DOMAIN t) = t
    BY DEF Restrict
  <1>3. DOMAIN Restrict(t, Vouching(t, rs, es)) = Vouching(t, rs, es)
    BY Restricted
  <1>4. (Vouching(t, rs, es) = DOMAIN t) <=> \A o \in DOMAIN t : Vouched(t, rs, es, o)
    BY DEF Vouching
  <1>5. QED
    BY <1>1, <1>2, <1>3, <1>4

\* A second look at the same observations forgets nothing more.
LEMMA ObservedTwice ==
  ASSUME NEW t, NEW rs, NEW es
  PROVE  Observe(Observe(t, rs, es), rs, es) = Observe(t, rs, es)
  <1> DEFINE S == Vouching(t, rs, es)
             u == Restrict(t, S)
  <1>1. DOMAIN u = S /\ (\A o \in S : u[o] = t[o]) /\ u = [o \in DOMAIN u |-> u[o]]
    BY Restricted
  <1>2. \A o \in S : o \in DOMAIN t /\ Vouched(t, rs, es, o)
    BY DEF Vouching
  <1> HIDE DEF S, u
  <1>3. ASSUME NEW o \in DOMAIN u PROVE Vouched(u, rs, es, o)
    <2>1. Vouched(t, rs, es, o) /\ u[o] = t[o] /\ o \in DOMAIN t
      BY <1>1, <1>2
    <2>2. \A e \in es : e.obj = o => (Reusable(t, e) <=> Reusable(u, e))
      BY <2>1 DEF Reusable
    <2>3. QED
      BY <2>1, <2>2 DEF Vouched
  <1>4. Observe(u, rs, es) = u
    BY <1>1, <1>3, ObservedKeeps
  <1>5. QED
    BY <1>4, Observed DEF u, S

\* The types of what is read and written.
LEMMA LinksCounted == ASSUME NEW o PROVE Links(o) \in Nat
  <1>1. IsFiniteSet({p \in Paths : disk[p] = o})
    BY FS_Subset, BatchAssumption
  <1>2. QED
    BY <1>1, FS_CardinalityType DEF Links

LEMMA ReadTyped ==
  ASSUME BatchTypeOK, NEW p \in Paths, disk[p] # NoFile
  PROVE  ReadOf(p) \in Observations /\ ReadOf(p).path = p
  <1>1. disk[p] \in Objects
    BY DEF BatchTypeOK
  <1>2. version[disk[p]] \in 1 .. MaxVersion /\ Links(disk[p]) \in Nat
    BY <1>1, LinksCounted DEF BatchTypeOK
  <1>3. QED
    BY <1>1, <1>2 DEF ReadOf, Observations

LEMMA PrepFits ==
  ASSUME BatchTypeOK
  PROVE  /\ prep.pc = "idle" => prep = Waiting
         /\ prep.pc \in {"plan", "stat", "read", "check"} => prep \in Preparing
         /\ prep.pc = "commit" => prep \in Committing
         /\ prep \in Preparing => prep.pc \in {"plan", "stat", "read", "check"}
  BY DEF BatchTypeOK, Waiting, Preparing, Committing

LEMMA BatchStarts == BatchInit => BatchInv
  <1> SUFFICES ASSUME BatchInit PROVE BatchInv
    OBVIOUS
  <1>1. rows \in [Paths -> FileRows]
    BY DEF BatchInit, AbsentRow, FileRows
  <1>2. DOMAIN tracker = {} /\ tracker = [o \in DOMAIN tracker |-> tracker[o]]
    BY DEF BatchInit
  <1>3. BatchTypeOK
    BY <1>1, <1>2, BatchAssumption DEF BatchInit, BatchTypeOK
  <1>4. prep.pc = "idle" /\ prep \notin Preparing
    BY DEF BatchInit, Waiting, Preparing
  <1>5. ProofsHoldOfRows
    BY <1>2 DEF ProofsHoldOfRows
  <1>6. QED
    BY <1>3, <1>4, <1>5 DEF BatchInv, ReadsAreSorted, PlanIsSettled, CommitIsPrepared, AliasesAreWritten

\* Steps of the file system leave the pass alone.
LEMMA DiskMoves ==
  ASSUME BatchInv,
         disk' \in [Paths -> Objects \cup {NoFile}], version' \in [Objects -> 1 .. MaxVersion],
         mount' \in Nat, queue' \subseteq Observations,
         UNCHANGED <<rows, tracker, bound, prep>>
  PROVE  BatchInv'
  <1>1. BatchTypeOK'
    BY DEF BatchInv, BatchTypeOK, Committing
  <1>2. QED
    BY <1>1, SMTT(40) DEF BatchInv, ReadsAreSorted, PlanIsSettled, CommitIsPrepared, AliasesAreWritten,
      ProofsHoldOfRows, ClosureVisited, Unverified

LEMMA Touched ==
  ASSUME BatchTypeOK, NEW os, Touch(os),
         \A x \in os \ {NoFile} : version[x] < MaxVersion
  PROVE  version' \in [Objects -> 1 .. MaxVersion]
  <1>1. ASSUME NEW o \in Objects PROVE (IF o \in os THEN version[o] + 1 ELSE version[o]) \in 1 .. MaxVersion
    <2>1. version[o] \in 1 .. MaxVersion /\ o # NoFile /\ MaxVersion \in Nat
      BY BatchAssumption DEF BatchTypeOK
    <2>2. QED
      BY <2>1
  <1>2. QED
    BY <1>1 DEF Touch

LEMMA FileSystemStep ==
  ASSUME BatchInv,
         \/ \E o \in Objects : WriteFile(o)
         \/ \E p \in Paths, o \in Objects \cup {NoFile} : Replace(p, o)
         \/ Remount
  PROVE  BatchInv'
  <1>0. BatchTypeOK
    BY DEF BatchInv
  <1>1. ASSUME NEW o \in Objects, WriteFile(o) PROVE BatchInv'
    <2>1. version' \in [Objects -> 1 .. MaxVersion]
      BY <1>0, <1>1, Touched DEF WriteFile
    <2>2. QED
      BY <1>0, <1>1, <2>1, DiskMoves DEF WriteFile, DiskKeeps, BatchTypeOK
  <1>2. ASSUME NEW p \in Paths, NEW o \in Objects \cup {NoFile}, Replace(p, o) PROVE BatchInv'
    <2>1. version' \in [Objects -> 1 .. MaxVersion]
      BY <1>0, <1>2, Touched DEF Replace
    <2>2. disk' \in [Paths -> Objects \cup {NoFile}]
      BY <1>0, <1>2 DEF Replace, BatchTypeOK
    <2>3. QED
      BY <1>0, <1>2, <2>1, <2>2, DiskMoves DEF Replace, DiskKeeps, BatchTypeOK
  <1>3. ASSUME Remount PROVE BatchInv'
    BY <1>0, <1>3, DiskMoves DEF Remount, BatchTypeOK
  <1>4. QED
    BY <1>1, <1>2, <1>3

LEMMA EnumerateStep == ASSUME BatchInv, NEW p \in Paths, Enumerate(p) PROVE BatchInv'
  <1>1. BatchTypeOK
    BY DEF BatchInv
  <1>2. ReadOf(p) \in Observations
    BY <1>1, ReadTyped DEF Enumerate
  <1>3. QED
    BY <1>1, <1>2, DiskMoves DEF Enumerate, BatchTypeOK

\* The tracker may lose proofs at any time.
LEMMA ProofsAreDropped ==
  ASSUME BatchInv, rows' = rows, tracker' = tracker \/ tracker' = << >>
                                 \/ \E S : S \subseteq DOMAIN tracker /\ tracker' = Restrict(tracker, S)
  PROVE  /\ ProofsHoldOfRows'
         /\ DOMAIN tracker' \subseteq Objects /\ tracker' = [o \in DOMAIN tracker' |-> tracker'[o]]
  <1>0. BatchTypeOK /\ ProofsHoldOfRows
    BY DEF BatchInv
  <1>1. CASE tracker' = tracker
    BY <1>0, <1>1 DEF ProofsHoldOfRows, BatchTypeOK
  <1>2. CASE tracker' = << >>
    BY <1>2 DEF ProofsHoldOfRows
  <1>3. ASSUME NEW S, S \subseteq DOMAIN tracker, tracker' = Restrict(tracker, S)
        PROVE  /\ ProofsHoldOfRows'
               /\ DOMAIN tracker' \subseteq Objects /\ tracker' = [o \in DOMAIN tracker' |-> tracker'[o]]
    <2>1. /\ DOMAIN tracker' = S /\ \A o \in S : tracker'[o] = tracker[o]
          /\ tracker' = [o \in DOMAIN tracker' |-> tracker'[o]]
      BY <1>3, Restricted
    <2>2. QED
      BY <1>0, <1>3, <2>1 DEF ProofsHoldOfRows, BatchTypeOK
  <1>4. QED
    BY <1>1, <1>2, <1>3

\* What is left to show when the next state is one of the preparation.
LEMMA PreparationGoesOn ==
  ASSUME BatchInv, prep' \in Preparing, ReadsAreSorted', PlanIsSettled', UNCHANGED <<disk, version, mount, rows>>,
         queue' \subseteq Observations,
         tracker' = tracker \/ tracker' = << >>
           \/ \E S : S \subseteq DOMAIN tracker /\ tracker' = Restrict(tracker, S)
  PROVE  BatchInv'
  <1>1. /\ ProofsHoldOfRows'
        /\ DOMAIN tracker' \subseteq Objects /\ tracker' = [o \in DOMAIN tracker' |-> tracker'[o]]
    BY ProofsAreDropped
  <1>2. BatchTypeOK'
    BY <1>1 DEF BatchInv, BatchTypeOK
  <1>3. prep'.pc # "commit"
    BY DEF Preparing
  <1>4. QED
    BY <1>1, <1>2, <1>3 DEF BatchInv, CommitIsPrepared, AliasesAreWritten

LEMMA AttemptStep ==
  ASSUME BatchInv, NEW es \in SUBSET Observations, NEW n \in Nat, Attempt(es, n),
         UNCHANGED <<disk, version, mount, rows>>, queue' \subseteq Observations
  PROVE  BatchInv'
  <1>1. mount \in Nat
    BY DEF BatchInv, BatchTypeOK
  <1>2. prep' \in Preparing /\ prep'.pc = "plan"
    BY <1>1 DEF Attempt, Preparing
  <1>3. ReadsAreSorted' /\ PlanIsSettled'
    BY DEF Attempt, ReadsAreSorted, PlanIsSettled, PathsOf
  <1>4. tracker' = tracker \/ tracker' = << >>
    BY DEF Attempt
  <1>5. QED
    BY <1>2, <1>3, <1>4, PreparationGoesOn

LEMMA BatchBegins == ASSUME BatchInv, StartBatch \/ Conflict PROVE BatchInv'
  <1>0. BatchTypeOK
    BY DEF BatchInv
  <1>1. CASE StartBatch
    <2>1. queue \in SUBSET Observations /\ 1 \in Nat
      BY <1>0 DEF BatchTypeOK
    <2>2. QED
      BY <1>1, <2>1, AttemptStep DEF StartBatch
  <1>2. CASE Conflict
    <2>1. prep \in Preparing
      BY <1>0, <1>2, PrepFits DEF Conflict
    <2>2. prep.entries \in SUBSET Observations /\ prep.attempt + 1 \in Nat
      BY <2>1 DEF Preparing
    <2>3. queue' \subseteq Observations
      BY <1>0, <1>2 DEF Conflict, BatchTypeOK
    <2>4. QED
      BY <1>2, <2>2, <2>3, AttemptStep DEF Conflict
  <1>3. QED
    BY <1>1, <1>2

LEMMA BatchDropped == ASSUME BatchInv, GiveUp \/ AbortStat PROVE BatchInv'
  <1>1. prep' = Waiting /\ UNCHANGED <<disk, version, mount, rows, tracker, bound>> /\ queue' = {}
    BY DEF GiveUp, AbortStat
  <1>2. BatchTypeOK'
    BY <1>1 DEF BatchInv, BatchTypeOK
  <1>3. prep'.pc = "idle" /\ prep' \notin Preparing
    BY <1>1 DEF Waiting, Preparing
  <1>4. ProofsHoldOfRows'
    BY <1>1 DEF BatchInv, ProofsHoldOfRows
  <1>5. QED
    BY <1>2, <1>3, <1>4 DEF BatchInv, ReadsAreSorted, PlanIsSettled, CommitIsPrepared, AliasesAreWritten

LEMMA VerificationTyped ==
  ASSUME NEW rs, NEW es \in SUBSET Observations, NEW t
  PROVE  VerificationPaths(rs, es, t) \subseteq Paths
  BY DEF VerificationPaths, Peers, Observations

\* The plan that finds nothing new is settled.
LEMMA PlanRoundStep == ASSUME BatchInv, PlanRound PROVE BatchInv'
  <1> DEFINE paths == VerificationPaths(rows, prep.all, tracker) \ prep.visited
  <1>0. BatchTypeOK /\ ReadsAreSorted
    BY DEF BatchInv
  <1>1. prep \in Preparing /\ prep.pc = "plan"
    BY <1>0, PrepFits DEF PlanRound
  <1>2. paths \subseteq Paths
    BY <1>1, VerificationTyped DEF Preparing
  <1>3. prep' = IF paths = {} THEN [prep EXCEPT !.pc = "check"]
                ELSE [prep EXCEPT !.pc = "stat", !.todo = paths, !.visited = prep.visited \cup paths]
    BY DEF PlanRound
  <1>4. UNCHANGED <<disk, version, mount, rows, bound, queue>> /\ tracker' = Observe(tracker, rows, prep.all)
    BY DEF PlanRound
  <1>5. paths = {} => VerificationPaths(rows, prep.all, tracker) \subseteq prep.visited
    OBVIOUS
  <1>6. paths \cap prep.visited = {}
    OBVIOUS
  <1> HIDE DEF paths
  <1>7. prep' \in Preparing
    BY <1>1, <1>2, <1>3 DEF Preparing
  <1>8. ReadsAreSorted'
    <2>1. CASE paths = {}
      <3>1. prep' = [prep EXCEPT !.pc = "check"]
        BY <1>3, <2>1
      <3>2. QED
        BY <1>0, <1>1, <3>1 DEF ReadsAreSorted, Preparing
    <2>2. CASE paths # {}
      <3>1. prep' = [prep EXCEPT !.pc = "stat", !.todo = paths, !.visited = prep.visited \cup paths]
        BY <1>3, <2>2
      <3>2. prep.todo = {} /\ prep.round = {}
        BY <1>0, <1>1 DEF ReadsAreSorted
      <3>3. /\ prep'.pc = "stat" /\ prep'.todo = paths /\ prep'.visited = prep.visited \cup paths
            /\ prep'.all = prep.all /\ prep'.entries = prep.entries /\ prep'.reads = prep.reads
            /\ prep'.round = prep.round /\ prep'.gone = prep.gone /\ prep'.unread = prep.unread
        BY <1>1, <3>1 DEF Preparing
      <3>4. QED
        BY <1>0, <1>1, <1>6, <3>2, <3>3 DEF ReadsAreSorted
    <2>3. QED
      BY <2>1, <2>2
  <1>9. \E S : S \subseteq DOMAIN tracker /\ tracker' = Restrict(tracker, S)
    BY <1>4, Observed DEF Vouching
  <1>10. PlanIsSettled'
    <2>1. SUFFICES ASSUME prep'.pc = "check" PROVE ClosureVisited(prep.all, prep.visited)' 
               /\ prep'.all = prep.all /\ prep'.visited = prep.visited
      BY DEF PlanIsSettled
    <2>2. paths = {} /\ prep'.all = prep.all /\ prep'.visited = prep.visited
      BY <1>1, <1>3, <2>1 DEF Preparing
    <2>3. Observe(tracker', rows, prep.all) = tracker'
      BY <1>4, ObservedTwice
    <2>4. VerificationPaths(rows, prep.all, tracker') = VerificationPaths(rows, prep.all, tracker)
      BY <1>4, <2>3 DEF VerificationPaths, ToVerify
    <2>5. QED
      BY <1>4, <1>5, <2>2, <2>3, <2>4 DEF ClosureVisited
  <1>11. QED
    BY <1>0, <1>4, <1>7, <1>8, <1>9, <1>10, PreparationGoesOn DEF BatchTypeOK

LEMMA AgreedTyped ==
  ASSUME NEW es \in SUBSET Observations
  PROVE  Agreed(es) \subseteq Observations /\ PathsOf(Agreed(es)) = PathsOf(es)
  <1> DEFINE vs(e) == {f.ver : f \in {x \in es : x.obj = e.obj}}
  <1>1. ASSUME NEW e \in es PROVE Max(vs(e)) \in 1 .. MaxVersion
    <2>1. vs(e) \subseteq 1 .. MaxVersion /\ e.ver \in vs(e)
      BY DEF Observations
    <2>2. vs(e) \subseteq Nat /\ vs(e) # {} /\ \A x \in vs(e) : x <= MaxVersion
      BY <2>1, BatchAssumption
    <2> HIDE DEF vs
    <2>3. Max(vs(e)) \in vs(e)
      BY <2>2, MaxOfBounded, BatchAssumption
    <2>4. QED
      BY <2>1, <2>3
  <1> DEFINE of(e) == [e EXCEPT !.ver = Max(vs(e))]
  <1>2. Agreed(es) = {of(e) : e \in es}
    BY DEF Agreed
  <1> HIDE DEF vs
  <1>3. ASSUME NEW e \in es PROVE of(e) \in Observations /\ of(e).path = e.path
    BY <1>1 DEF Observations
  <1> HIDE DEF of
  <1>4. Agreed(es) \subseteq Observations
    BY <1>2, <1>3
  <1>5. ASSUME NEW p PROVE p \in PathsOf(Agreed(es)) <=> p \in PathsOf(es)
    BY <1>2, <1>3 DEF PathsOf
  <1>6. QED
    BY <1>4, <1>5

LEMMA StatSteps ==
  ASSUME BatchInv, BeginStat \/ ReadDone \/ \E p \in Paths : ReadPath(p)
  PROVE  BatchInv'
  <1>0. BatchTypeOK /\ ReadsAreSorted
    BY DEF BatchInv
  <1>1. prep \in Preparing /\ prep.pc \in {"stat", "read"}
    BY <1>0, PrepFits DEF BeginStat, ReadDone, ReadPath
  <1>2. UNCHANGED <<disk, version, mount, rows, tracker, bound, queue>>
    BY DEF BeginStat, ReadDone, ReadPath
  <1>3. mount \in Nat /\ queue' \subseteq Observations
    BY <1>0, <1>2 DEF BatchTypeOK
  <1>4. SUFFICES prep' \in Preparing /\ prep'.pc # "check" /\ ReadsAreSorted'
    BY <1>2, <1>3, PreparationGoesOn DEF PlanIsSettled
  <1>5. CASE BeginStat
    <2>1. prep' = [prep EXCEPT !.pc = "read", !.statScope = mount]
      BY <1>5 DEF BeginStat
    <2>2. prep' \in Preparing
      BY <1>1, <1>3, <2>1 DEF Preparing
    <2>3. /\ prep'.pc = "read" /\ prep'.todo = prep.todo /\ prep'.visited = prep.visited
          /\ prep'.all = prep.all /\ prep'.entries = prep.entries /\ prep'.reads = prep.reads
          /\ prep'.round = prep.round /\ prep'.gone = prep.gone /\ prep'.unread = prep.unread
      BY <1>1, <2>1 DEF Preparing
    <2>4. QED
      BY <1>0, <1>1, <2>2, <2>3 DEF ReadsAreSorted
  <1>6. CASE ReadDone
    <2> DEFINE new == Agreed(prep.round)
    <2>1. prep' = [prep EXCEPT !.pc = "plan", !.reads = prep.reads \cup new, !.all = prep.all \cup new, !.round = {}]
      BY <1>6 DEF ReadDone
    <2>2. new \subseteq Observations /\ PathsOf(new) = PathsOf(prep.round)
      BY <1>1, AgreedTyped DEF Preparing
    <2> HIDE DEF new
    <2>3. prep' \in Preparing
      BY <1>1, <2>1, <2>2 DEF Preparing
    <2>4. /\ prep'.pc = "plan" /\ prep'.todo = prep.todo /\ prep'.visited = prep.visited
          /\ prep'.all = prep.all \cup new /\ prep'.entries = prep.entries /\ prep'.reads = prep.reads \cup new
          /\ prep'.round = {} /\ prep'.gone = prep.gone /\ prep'.unread = prep.unread
      BY <1>1, <2>1 DEF Preparing
    <2>5. PathsOf(prep'.reads \cup prep'.round) = PathsOf(prep.reads \cup prep.round)
      BY <2>2, <2>4 DEF PathsOf
    <2>6. prep.todo = {}
      BY <1>6 DEF ReadDone
    <2>7. QED
      BY <1>0, <1>1, <2>3, <2>4, <2>5, <2>6 DEF ReadsAreSorted
  <1>7. ASSUME NEW p \in Paths, ReadPath(p)
        PROVE  prep' \in Preparing /\ prep'.pc # "check" /\ ReadsAreSorted'
    <2>1. PICK outcome \in StatOutcomes(p) :
            prep' = [prep EXCEPT !.todo = prep.todo \ {p},
                       !.round = IF outcome = "read" THEN prep.round \cup {ReadOf(p)} ELSE prep.round,
                       !.gone = IF outcome = "gone" THEN prep.gone \cup {p} ELSE prep.gone,
                       !.unread = IF outcome = "unread" THEN prep.unread \cup {p} ELSE prep.unread]
      BY <1>7 DEF ReadPath
    <2>2. outcome \in {"read", "gone", "unread"}
      BY <2>1 DEF StatOutcomes
    <2>3. outcome = "read" => ReadOf(p) \in Observations /\ ReadOf(p).path = p
      BY <1>0, <2>1, ReadTyped DEF StatOutcomes
    <2>4. p \in prep.todo
      BY <1>7 DEF ReadPath
    <2>5. /\ prep'.pc = prep.pc /\ prep'.todo = prep.todo \ {p} /\ prep'.visited = prep.visited
          /\ prep'.all = prep.all /\ prep'.entries = prep.entries /\ prep'.reads = prep.reads
          /\ prep'.round = (IF outcome = "read" THEN prep.round \cup {ReadOf(p)} ELSE prep.round)
          /\ prep'.gone = (IF outcome = "gone" THEN prep.gone \cup {p} ELSE prep.gone)
          /\ prep'.unread = (IF outcome = "unread" THEN prep.unread \cup {p} ELSE prep.unread)
      BY <1>1, <2>1 DEF Preparing
    <2>6. prep' \in Preparing
      BY <1>1, <2>1, <2>2, <2>3 DEF Preparing
    <2>7. PathsOf(prep'.reads \cup prep'.round) =
            IF outcome = "read" THEN PathsOf(prep.reads \cup prep.round) \cup {p} ELSE PathsOf(prep.reads \cup prep.round)
      BY <2>3, <2>5 DEF PathsOf
    <2>8. QED
      BY <1>0, <1>1, <2>2, <2>4, <2>5, <2>6, <2>7 DEF ReadsAreSorted
  <1>8. QED
    BY <1>5, <1>6, <1>7

\* What a visited closure says of each object and each path.
LEMMA VisitedMeans ==
  ASSUME BatchTypeOK, NEW es, NEW seen
  PROVE  ClosureVisited(es, seen) <=>
           /\ \A o \in DOMAIN tracker : Vouched(tracker, rows, es, o)
           /\ Peers(rows, Unverified(es)) \subseteq seen
           /\ \A e \in es : e.obj \in Unverified(es) => e.path \in seen
  <1>1. tracker = [o \in DOMAIN tracker |-> tracker[o]]
    BY DEF BatchTypeOK
  <1>2. Observe(tracker, rows, es) = tracker <=> \A o \in DOMAIN tracker : Vouched(tracker, rows, es, o)
    BY <1>1, ObservedKeeps
  <1>3. ASSUME Observe(tracker, rows, es) = tracker
        PROVE  VerificationPaths(rows, es, tracker) \subseteq seen <=>
                 /\ Peers(rows, Unverified(es)) \subseteq seen
                 /\ \A e \in es : e.obj \in Unverified(es) => e.path \in seen
    <2>1. ToVerify(tracker, rows, es) = Unverified(es)
      BY <1>3 DEF ToVerify, Unverified
    <2>2. VerificationPaths(rows, es, tracker) =
            Peers(rows, Unverified(es)) \cup {e.path : e \in {x \in es : x.obj \in Unverified(es)}}
      BY <2>1 DEF VerificationPaths
    <2> HIDE DEF Unverified
    <2>3. QED
      BY <2>2
  <1>4. QED
    BY <1>2, <1>3 DEF ClosureVisited

LEMMA BeginCommitStep == ASSUME BatchInv, BeginCommit PROVE BatchInv'
  <1>0. BatchTypeOK /\ ReadsAreSorted /\ PlanIsSettled /\ ProofsHoldOfRows
    BY DEF BatchInv
  <1>1. prep \in Preparing /\ prep.pc = "check"
    BY <1>0, PrepFits DEF BeginCommit
  <1>2. UNCHANGED <<disk, version, mount, rows, tracker, bound, queue>>
    BY DEF BeginCommit
  <1>3. prep' = [pc |-> "commit", rows |-> rows, tracker |-> tracker, batch |-> prep.entries,
              all |-> prep.all, reads |-> prep.reads, gone |-> prep.gone, unread |-> prep.unread,
              objects |-> {}, paths |-> {}, fresh |-> {}, complete |-> TRUE, missing |-> {}]
    BY DEF BeginCommit
  <1>4. prep' \in Committing'
    BY <1>0, <1>1, <1>2, <1>3 DEF Committing, Preparing, BatchTypeOK
  <1>5. BatchTypeOK'
    BY <1>0, <1>2, <1>4 DEF BatchTypeOK
  <1>6. ReadsAreSorted' /\ PlanIsSettled'
    BY <1>3 DEF ReadsAreSorted, PlanIsSettled, Preparing
  <1>7. /\ prep.all = prep.entries \cup prep.reads
        /\ prep.visited = PathsOf(prep.reads) \cup prep.gone \cup prep.unread
        /\ PathsOf(prep.reads) \cap (prep.gone \cup prep.unread) = {}
    <2>1. prep.todo = {} /\ prep.reads \cup prep.round = prep.reads
      BY <1>0, <1>1 DEF ReadsAreSorted
    <2>2. QED
      BY <1>0, <1>1, <2>1 DEF ReadsAreSorted
  <1>8. ClosureVisited(prep.all, PathsOf(prep.reads) \cup prep.gone \cup prep.unread)
    BY <1>0, <1>1, <1>7 DEF PlanIsSettled
  <1>9. CommitIsPrepared'
    BY <1>2, <1>3, <1>7, <1>8 DEF CommitIsPrepared, ClosureVisited
  <1>10. AliasesAreWritten'
    BY <1>3 DEF AliasesAreWritten, Peers
  <1>11. ProofsHoldOfRows'
    BY <1>0, <1>2 DEF ProofsHoldOfRows
  <1>12. QED
    BY <1>5, <1>6, <1>9, <1>10, <1>11 DEF BatchInv

\* A written row is one of the observations of its path.
LEMMA Upserted ==
  ASSUME NEW rs \in [Paths -> FileRows], NEW es \in SUBSET Observations
  PROVE  /\ Upsert(rs, es) \in [Paths -> FileRows]
         /\ \A p \in Paths :
              \/ Upsert(rs, es)[p] = rs[p] /\ \A e \in es : e.path # p
              \/ \E e \in es : /\ e.path = p /\ ~Differs(Upsert(rs, es)[p], e)
                               /\ Upsert(rs, es)[p].accessible /\ Upsert(rs, es)[p].obj = e.obj
  <1> DEFINE mine(p) == {e \in es : e.path = p}
             pick(p) == CHOOSE x \in mine(p) : TRUE
             new(p) == IF mine(p) = {} THEN rs[p] ELSE [obj |-> pick(p).obj, ver |-> pick(p).ver, accessible |-> TRUE]
  <1>1. Upsert(rs, es) = [p \in Paths |-> new(p)]
    BY DEF Upsert
  <1>2. ASSUME NEW p \in Paths
        PROVE  /\ new(p) \in FileRows
               /\ \/ new(p) = rs[p] /\ \A e \in es : e.path # p
                  \/ \E e \in es : e.path = p /\ ~Differs(new(p), e) /\ new(p).accessible /\ new(p).obj = e.obj
    <2>1. CASE mine(p) = {}
      BY <2>1
    <2>2. CASE mine(p) # {}
      <3>1. pick(p) \in mine(p)
        BY <2>2
      <3>2. PICK e \in es : e.path = p /\ e = pick(p)
        BY <3>1
      <3>3. new(p) = [obj |-> e.obj, ver |-> e.ver, accessible |-> TRUE]
        BY <2>2, <3>2
      <3> HIDE DEF new, pick, mine
      <3>4. e.obj \in Objects /\ e.ver \in Nat
        BY DEF Observations
      <3>5. new(p) \in FileRows /\ new(p).obj = e.obj /\ new(p).accessible
        BY <3>3, <3>4 DEF FileRows
      <3>6. ~Differs(new(p), e)
        BY <3>3 DEF Differs
      <3>7. QED
        BY <3>2, <3>5, <3>6, Zenon
    <2>3. QED
      BY <2>1, <2>2
  <1> HIDE DEF new
  <1>3. QED
    BY <1>1, <1>2

\* A round of the transaction, seen from the objects: it forgets no proof, and the
\* aliases it asks for are those that the preparation visited.
LEMMA RoundStaysInside ==
  ASSUME BatchTypeOK, CommitIsPrepared, prep.pc = "commit",
         NEW os, os = ToVerify(prep.tracker, prep.rows, prep.batch) \ prep.objects,
         NEW after, after = Upsert(prep.rows, prep.batch)
  PROVE  /\ Observe(prep.tracker, prep.rows, prep.batch) = tracker
         /\ os \subseteq Unverified(prep.all) /\ os \subseteq Objects
         /\ \A p \in Paths : after[p].accessible =>
              after[p] = rows[p] \/ \E e \in prep.all : e.path = p /\ ~Differs(after[p], e)
         /\ Peers(after, os) \subseteq PathsOf(prep.reads) \cup prep.gone \cup prep.unread
  <1> DEFINE V == Unverified(prep.all)
             seen == PathsOf(prep.reads) \cup prep.gone \cup prep.unread
             rs == prep.rows
             es == prep.batch
  <1>1. prep \in Committing
    BY PrepFits
  <1>2. /\ prep.tracker = tracker /\ rs \in [Paths -> FileRows] /\ es \in SUBSET Observations
        /\ prep.all \in SUBSET Observations /\ prep.objects \subseteq Objects
    BY <1>1 DEF Committing
  <1>3. es \subseteq prep.all /\ prep.objects \subseteq V
    BY DEF CommitIsPrepared
  <1>4. /\ \A o \in DOMAIN tracker : Vouched(tracker, rows, prep.all, o)
        /\ Peers(rows, V) \subseteq seen
        /\ \A e \in prep.all : e.obj \in V => e.path \in seen
    BY VisitedMeans DEF CommitIsPrepared
  <1>5. \A p \in Paths : rs[p].accessible =>
          rs[p] = rows[p] \/ \E e \in prep.all : e.path = p /\ ~Differs(rs[p], e)
    BY DEF CommitIsPrepared
  <1>6. \A e \in es : rs[e.path] = rows[e.path] \/ (rs[e.path].accessible /\ rs[e.path].obj \in prep.objects)
    BY DEF CommitIsPrepared
  <1>7. V = ObjectsOf(rows, prep.all) \ DOMAIN tracker
    BY DEF Unverified
  <1>8. \A e \in es : e.path \in Paths /\ e.obj \in Objects
    BY <1>2 DEF Observations
  <1>9. rows \in [Paths -> FileRows] /\ tracker = [o \in DOMAIN tracker |-> tracker[o]]
    BY DEF BatchTypeOK
  <1> HIDE DEF V, rs, es
  <1>10. Observe(prep.tracker, rs, es) = tracker
    <2>1. ASSUME NEW o \in DOMAIN tracker PROVE Vouched(tracker, rs, es, o)
      <3>1. Vouched(tracker, rows, prep.all, o) /\ o \notin V
        BY <1>4, <1>7
      <3>2. ASSUME NEW e \in es, rs[e.path].obj = o PROVE rs[e.path] = rows[e.path]
        BY <1>3, <1>6, <3>1, <3>2
      <3>3. QED
        BY <1>3, <3>1, <3>2 DEF Vouched
    <2>2. QED
      BY <1>2, <1>9, <2>1, ObservedKeeps
  <1>11. os = (ObjectsOf(rs, es) \ DOMAIN tracker) \ prep.objects
    BY <1>10 DEF ToVerify, rs, es
  <1>12. ASSUME NEW o \in os PROVE o \in V /\ o \in Objects
    <2>0. o \notin DOMAIN tracker /\ o \notin prep.objects /\ o \in ObjectsOf(rs, es)
      BY <1>11
    <2>1. ASSUME NEW e \in es, Known(rs[e.path]), Differs(rs[e.path], e), o = rs[e.path].obj
          PROVE  o \in V /\ o \in Objects
      <3>1. rs[e.path] = rows[e.path] /\ e \in prep.all
        BY <1>3, <1>6, <2>0, <2>1
      <3>2. o \in ObjectsOf(rows, prep.all)
        BY <2>1, <3>1 DEF ObjectsOf
      <3>3. o \in Objects
        BY <1>2, <1>8, <2>1 DEF Known, FileRows
      <3>4. QED
        BY <1>7, <2>0, <3>2, <3>3
    <2>2. ASSUME NEW e \in es, o = e.obj, Differs(rs[e.path], e) \/ e.links # 1
          PROVE  o \in V /\ o \in Objects
      <3>1. e \in prep.all /\ e.path \in Paths /\ o \in Objects
        BY <1>3, <1>8, <2>2
      <3>2. CASE Differs(rows[e.path], e) \/ e.links # 1
        <4>1. o \in ObjectsOf(rows, prep.all)
          BY <2>2, <3>1, <3>2 DEF ObjectsOf
        <4>2. QED
          BY <1>7, <2>0, <3>1, <4>1
      <3>3. CASE ~Differs(rows[e.path], e) /\ e.links = 1
        <4>1. rs[e.path] # rows[e.path] /\ rs[e.path].accessible
          BY <1>6, <2>2, <3>3
        <4>2. PICK f \in prep.all : f.path = e.path /\ ~Differs(rs[e.path], f)
          BY <1>5, <3>1, <4>1
        <4>3. Differs(rows[f.path], f) /\ rows[f.path].obj = o
          BY <2>2, <3>3, <4>1, <4>2 DEF Differs
        <4>4. Known(rows[f.path])
          BY <3>1, <4>3, BatchAssumption DEF Known
        <4>5. o \in ObjectsOf(rows, prep.all)
          BY <4>3, <4>4 DEF ObjectsOf
        <4>6. QED
          BY <1>7, <2>0, <3>1, <4>5
      <3>4. QED
        BY <3>2, <3>3
    <2>3. QED
      BY <2>0, <2>1, <2>2 DEF ObjectsOf
  <1>13. \A p \in Paths :
              \/ after[p] = rs[p] /\ \A e \in es : e.path # p
              \/ \E e \in es : /\ e.path = p /\ ~Differs(after[p], e)
                               /\ after[p].accessible /\ after[p].obj = e.obj
    BY <1>2, Upserted DEF rs, es
  <1>14. ASSUME NEW p \in Paths, after[p].accessible
         PROVE  after[p] = rows[p] \/ \E e \in prep.all : e.path = p /\ ~Differs(after[p], e)
    BY <1>3, <1>5, <1>13, <1>14
  <1>15. ASSUME NEW p \in Peers(after, os) PROVE p \in seen
    <2>1. p \in Paths /\ after[p].accessible /\ after[p].obj \in V
      BY <1>12, <1>15 DEF Peers
    <2>2. CASE after[p] = rows[p]
      BY <1>4, <2>1, <2>2 DEF Peers
    <2>3. ASSUME NEW e \in prep.all, e.path = p, ~Differs(after[p], e) PROVE p \in seen
      <3>1. after[p].obj = e.obj
        BY <2>3 DEF Differs
      <3>2. QED
        BY <1>4, <2>1, <2>3, <3>1
    <2>4. QED
      BY <1>14, <2>1, <2>2, <2>3
  <1>16. QED
    BY <1>10, <1>12, <1>14, <1>15 DEF V, rs, es

LEMMA CommitRoundStep == ASSUME BatchInv, CommitRound PROVE BatchInv'
  <1> DEFINE es    == prep.batch
             os    == ToVerify(prep.tracker, prep.rows, es) \ prep.objects
             after == Upsert(prep.rows, es)
             asked == Peers(after, os) \ prep.paths
             read  == {e \in prep.reads : e.path \in asked}
             next  == [p \in Paths |->
                      IF p \in asked \cap prep.gone THEN AbsentRow
                      ELSE IF p \in asked \cap prep.unread THEN [after[p] EXCEPT !.accessible = FALSE]
                      ELSE after[p]]
             lost  == asked \ ({e.path : e \in prep.reads} \cup prep.gone \cup prep.unread)
             whole == prep.complete /\ asked \cap prep.unread = {}
  <1>0. BatchTypeOK /\ CommitIsPrepared /\ AliasesAreWritten /\ ProofsHoldOfRows
    BY DEF BatchInv
  <1>1. prep \in Committing /\ prep.pc = "commit"
    BY <1>0, PrepFits DEF CommitRound
  <1>2. UNCHANGED <<disk, version, mount, rows, tracker, bound, queue>>
    BY DEF CommitRound
  <1>3. /\ Observe(prep.tracker, prep.rows, es) = tracker
        /\ os \subseteq Unverified(prep.all) /\ os \subseteq Objects
        /\ \A p \in Paths : after[p].accessible =>
              after[p] = rows[p] \/ \E e \in prep.all : e.path = p /\ ~Differs(after[p], e)
        /\ Peers(after, os) \subseteq PathsOf(prep.reads) \cup prep.gone \cup prep.unread
    BY <1>0, <1>1, RoundStaysInside
  <1>4. prep' = [prep EXCEPT !.tracker = tracker, !.rows = next, !.objects = prep.objects \cup os,
                   !.paths = prep.paths \cup asked, !.fresh = prep.fresh \cup read, !.complete = whole,
                   !.missing = lost, !.batch = read]
    BY <1>3 DEF CommitRound
  <1>5. /\ prep.rows \in [Paths -> FileRows] /\ es \in SUBSET Observations /\ prep.reads \in SUBSET Observations
        /\ prep.objects \subseteq Objects /\ prep.paths \subseteq Paths /\ prep.fresh \subseteq Observations
        /\ prep.complete \in BOOLEAN /\ prep.all \in SUBSET Observations
    BY <1>1 DEF Committing
  <1>6. /\ after \in [Paths -> FileRows]
        /\ \A p \in Paths :
              \/ after[p] = prep.rows[p] /\ \A e \in es : e.path # p
              \/ \E e \in es : /\ e.path = p /\ ~Differs(after[p], e)
                               /\ after[p].accessible /\ after[p].obj = e.obj
    BY <1>5, Upserted
  <1>7. /\ asked = Peers(after, os) \ prep.paths
        /\ \A p \in asked : p \in Paths /\ after[p].accessible /\ after[p].obj \in os
    BY DEF Peers
  <1>8. lost = {}
    BY <1>3 DEF PathsOf
  <1>9. read \subseteq prep.reads /\ (\A e \in read : e.path \in asked)
        /\ \A e \in prep.reads : e.path \in asked => e \in read
    OBVIOUS
  <1>10. whole \in BOOLEAN /\ (whole <=> prep.complete /\ asked \cap prep.unread = {})
    BY <1>5
  <1>11. \A p \in Paths : next[p] = IF p \in asked \cap prep.gone THEN AbsentRow
                      ELSE IF p \in asked \cap prep.unread THEN [after[p] EXCEPT !.accessible = FALSE]
                      ELSE after[p]
    OBVIOUS
  <1>12. next = [p \in Paths |-> next[p]]
    OBVIOUS
  <1>13. Peers(after, os) \subseteq prep.paths \cup asked
    OBVIOUS
  <1> HIDE DEF next, lost, read, asked, whole, os, after, es
  <1>14. ASSUME NEW p \in Paths
         PROVE  /\ next[p] \in FileRows
                /\ next[p].accessible => next[p] = after[p] /\ ~(p \in asked /\ p \in prep.gone \cup prep.unread)
                /\ ~(p \in asked /\ p \in prep.gone \cup prep.unread) => next[p] = after[p]
    <2>1. after[p] \in FileRows
      BY <1>6
    <2>2. AbsentRow \in FileRows /\ ~AbsentRow.accessible
      BY DEF AbsentRow, FileRows
    <2>3. [after[p] EXCEPT !.accessible = FALSE] \in FileRows /\ ~[after[p] EXCEPT !.accessible = FALSE].accessible
      BY <2>1 DEF FileRows
    <2>4. QED
      BY <1>11, <2>1, <2>2, <2>3
  <1>15. next \in [Paths -> FileRows]
    BY <1>12, <1>14
  <1>16. prep' \in Committing'
    <2>1. /\ os \subseteq Objects /\ asked \subseteq Paths /\ read \subseteq Observations
          /\ whole \in BOOLEAN /\ lost \subseteq Paths /\ next \in [Paths -> FileRows]
      BY <1>3, <1>5, <1>7, <1>8, <1>9, <1>10, <1>15
    <2>2. /\ prep.objects \cup os \in SUBSET Objects /\ prep.paths \cup asked \in SUBSET Paths
          /\ prep.fresh \cup read \in SUBSET Observations /\ read \in SUBSET Observations
          /\ lost \in SUBSET Paths
      BY <1>5, <2>1
    <2>3. QED
      BY <1>1, <1>2, <1>4, <2>1, <2>2 DEF Committing
  <1>17. /\ prep'.pc = "commit" /\ prep'.rows = next /\ prep'.objects = prep.objects \cup os
         /\ prep'.paths = prep.paths \cup asked /\ prep'.fresh = prep.fresh \cup read /\ prep'.complete = whole
         /\ prep'.missing = {} /\ prep'.batch = read /\ prep'.all = prep.all /\ prep'.reads = prep.reads
         /\ prep'.gone = prep.gone /\ prep'.unread = prep.unread
    BY <1>1, <1>4, <1>8 DEF Committing
  <1>18. BatchTypeOK'
    BY <1>0, <1>2, <1>16 DEF BatchTypeOK
  <1>19. ReadsAreSorted' /\ PlanIsSettled' /\ ProofsHoldOfRows'
    BY <1>0, <1>2, <1>17 DEF ReadsAreSorted, PlanIsSettled, ProofsHoldOfRows, Preparing
  <1>20. /\ PathsOf(prep.reads) \cap (prep.gone \cup prep.unread) = {}
         /\ prep.reads \subseteq prep.all /\ prep.fresh \subseteq prep.reads /\ prep.objects \subseteq Unverified(prep.all)
         /\ ClosureVisited(prep.all, PathsOf(prep.reads) \cup prep.gone \cup prep.unread)
    BY <1>0, <1>1 DEF CommitIsPrepared
  <1>21. \A e \in prep.reads : e.path \notin prep.gone \cup prep.unread /\ e.path \in Paths
    BY <1>5, <1>20 DEF PathsOf, Observations
  <1>22. ASSUME NEW e \in read PROVE next[e.path].accessible /\ next[e.path].obj \in os
    BY <1>7, <1>9, <1>14, <1>21
  <1>23. ASSUME NEW p \in Paths, next[p].accessible
         PROVE  next[p] = rows[p] \/ \E e \in prep.all : e.path = p /\ ~Differs(next[p], e)
    BY <1>3, <1>14, <1>23
  <1>24. CommitIsPrepared'
    <2>1. ClosureVisited(prep.all, PathsOf(prep.reads) \cup prep.gone \cup prep.unread)'
      BY <1>2, <1>17, <1>20 DEF ClosureVisited
    <2>2. prep'.objects \subseteq Unverified(prep.all)'
      BY <1>2, <1>3, <1>17, <1>20 DEF Unverified
    <2>3. QED
      BY <1>2, <1>9, <1>17, <1>20, <1>22, <1>23, <2>1, <2>2 DEF CommitIsPrepared
  <1>25. AliasesAreWritten'
    <2>0. /\ Peers(prep.rows, prep.objects) \subseteq prep.paths
          /\ \A p \in prep.paths :
               \/ p \in prep.gone /\ ~prep.rows[p].accessible
               \/ p \in prep.unread /\ ~prep.complete
               \/ \E e \in prep.fresh : e.path = p /\ (e \in es \/ ~Differs(prep.rows[p], e))
          /\ \/ prep.objects = {} /\ prep.paths = {}
             \/ \A e \in es : e \in prep.fresh /\ e.path \in prep.paths
      BY <1>0, <1>1 DEF AliasesAreWritten, es
    <2>1. ASSUME NEW p \in Paths, next[p].accessible, next[p].obj \in prep.objects \cup os
          PROVE  p \in prep.paths \cup asked
      <3>1. next[p] = after[p]
        BY <1>14, <2>1
      <3>2. CASE next[p].obj \in os
        BY <1>13, <2>1, <3>1, <3>2 DEF Peers
      <3>3. CASE next[p].obj \in prep.objects
        BY <1>6, <2>0, <2>1, <3>1, <3>3 DEF Peers
      <3>4. QED
        BY <2>1, <3>2, <3>3
    <2>2. ASSUME NEW p \in prep.paths \cup asked
          PROVE  \/ p \in prep.gone /\ ~next[p].accessible
                 \/ p \in prep.unread /\ ~whole
                 \/ \E e \in prep.fresh \cup read : e.path = p /\ (e \in read \/ ~Differs(next[p], e))
      <3>0. p \in Paths
        BY <1>5, <1>7
      <3>1. CASE p \in asked
        <4>1. p \in PathsOf(prep.reads) \cup prep.gone \cup prep.unread
          BY <1>3, <1>7, <3>1
        <4>2. CASE p \in prep.gone
          BY <1>14, <3>0, <3>1, <4>2
        <4>3. CASE p \in prep.unread
          BY <1>10, <3>1, <4>3
        <4>4. CASE p \in PathsOf(prep.reads)
          BY <1>9, <3>1, <4>4 DEF PathsOf
        <4>5. QED
          BY <4>1, <4>2, <4>3, <4>4
      <3>2. CASE p \notin asked
        <4>1. next[p] = after[p] /\ p \in prep.paths
          BY <1>14, <2>2, <3>0, <3>2
        <4>2. \A e \in es : e \in prep.fresh
          BY <2>0, <4>1
        <4>3. CASE \E e \in es : e.path = p
          BY <1>6, <3>0, <4>1, <4>2, <4>3
        <4>4. CASE \A e \in es : e.path # p
          <5>1. next[p] = prep.rows[p]
            BY <1>6, <3>0, <4>1, <4>4
          <5>2. QED
            BY <1>10, <2>0, <4>1, <4>4, <5>1
        <4>5. QED
          BY <4>3, <4>4
      <3>3. QED
        BY <3>1, <3>2
    <2>3. \A e \in read : e \in prep.fresh \cup read /\ e.path \in prep.paths \cup asked
      BY <1>9
    <2>4. Peers(next, prep.objects \cup os) \subseteq prep.paths \cup asked
      BY <2>1 DEF Peers
    <2>5. Peers(prep'.rows, prep'.objects) = Peers(next, prep.objects \cup os)
      BY <1>17
    <2>6. QED
      BY <1>17, <2>2, <2>3, <2>4, <2>5 DEF AliasesAreWritten
  <1>26. QED
    BY <1>18, <1>19, <1>24, <1>25 DEF BatchInv

LEMMA CommitDoneStep == ASSUME BatchInv, CommitDone PROVE BatchInv'
  <1> DEFINE proofs == IF prep.complete THEN Proofs ELSE {}
             old    == DOMAIN prep.tracker \ proofs
             Read(o) == Version(CHOOSE e \in prep.fresh : e.obj = o)
  <1>0. BatchTypeOK /\ CommitIsPrepared /\ AliasesAreWritten /\ ProofsHoldOfRows
    BY DEF BatchInv
  <1>1. prep \in Committing /\ prep.pc = "commit"
    BY <1>0, PrepFits DEF CommitDone
  <1>2. UNCHANGED <<disk, version, mount, bound, queue>> /\ rows' = prep.rows /\ prep' = Waiting /\ prep.batch = {}
    BY DEF CommitDone
  <1>3. PICK left \in SUBSET Objects :
          /\ left \subseteq proofs \cup old
          /\ tracker' = [o \in left |-> IF o \in proofs THEN Read(o) ELSE prep.tracker[o]]
    BY DEF CommitDone
  <1>4. prep.rows \in [Paths -> FileRows] /\ prep.tracker = tracker /\ prep.fresh \subseteq Observations
    BY <1>1 DEF Committing
  <1>5. /\ DOMAIN tracker' = left
        /\ \A o \in left : tracker'[o] = IF o \in proofs THEN Read(o) ELSE prep.tracker[o]
        /\ tracker' = [o \in DOMAIN tracker' |-> tracker'[o]]
    BY <1>3
  <1>6. BatchTypeOK'
    BY <1>0, <1>2, <1>3, <1>4, <1>5 DEF BatchTypeOK
  <1>7. prep'.pc = "idle" /\ prep' \notin Preparing
    BY <1>2 DEF Waiting, Preparing
  <1>8. ASSUME NEW o \in left, o \in proofs, NEW p \in Peers(prep.rows, {o})
        PROVE  prep.rows[p].ver = Read(o).ver
    <2>1. prep.complete /\ o \in Proofs /\ o \in prep.objects
      BY <1>8 DEF Proofs
    <2>2. p \in Paths /\ prep.rows[p].accessible /\ prep.rows[p].obj = o
      BY <1>8 DEF Peers
    <2>3. p \in prep.paths
      BY <1>0, <1>1, <2>1, <2>2 DEF AliasesAreWritten, Peers
    <2>4. PICK e \in prep.fresh : e.path = p /\ ~Differs(prep.rows[p], e)
      BY <1>0, <1>1, <1>2, <2>1, <2>2, <2>3 DEF AliasesAreWritten
    <2>5. e.obj = o /\ prep.rows[p].ver = e.ver
      BY <2>2, <2>4 DEF Differs
    <2> DEFINE f == CHOOSE x \in prep.fresh : x.obj = o
    <2>6. f \in prep.fresh /\ f.obj = o
      BY <2>5
    <2> HIDE DEF f
    <2>7. Version(e) = Version(f)
      BY <2>1, <2>5, <2>6 DEF Proofs
    <2>8. e.ver = f.ver
      BY <2>7 DEF Version
    <2>9. Read(o).ver = f.ver
      BY DEF Version, f
    <2>10. QED
      BY <2>5, <2>8, <2>9
  <1>9. ASSUME NEW o \in left, o \notin proofs, NEW p \in Peers(prep.rows, {o})
        PROVE  prep.rows[p].ver = prep.tracker[o].ver
    <2>1. o \in DOMAIN tracker
      BY <1>3, <1>4, <1>9
    <2>2. p \in Paths /\ prep.rows[p].accessible /\ prep.rows[p].obj = o
      BY <1>9 DEF Peers
    <2>3. CASE prep.rows[p] = rows[p]
      BY <1>0, <1>4, <2>1, <2>2, <2>3 DEF ProofsHoldOfRows, Peers
    <2>4. ASSUME NEW e \in prep.all, ~Differs(prep.rows[p], e) PROVE prep.rows[p].ver = tracker[o].ver
      <3>1. e.obj = o /\ prep.rows[p].ver = e.ver
        BY <2>2, <2>4 DEF Differs
      <3>2. ClosureVisited(prep.all, PathsOf(prep.reads) \cup prep.gone \cup prep.unread)
        BY <1>0, <1>1 DEF CommitIsPrepared
      <3>3. Vouched(tracker, rows, prep.all, o)
        BY <1>0, <2>1, <3>2, VisitedMeans
      <3>4. tracker[o] = Version(e)
        BY <3>1, <3>3 DEF Vouched, Reusable
      <3>5. QED
        BY <3>1, <3>4 DEF Version
    <2>5. QED
      BY <1>0, <1>1, <1>4, <2>2, <2>3, <2>4 DEF CommitIsPrepared
  <1> HIDE DEF proofs, Read
  <1>10. ASSUME NEW o \in left, NEW p \in Peers(prep.rows, {o}) PROVE prep.rows[p].ver = tracker'[o].ver
    BY <1>5, <1>8, <1>9
  <1>11. ProofsHoldOfRows'
    BY <1>2, <1>5, <1>10 DEF ProofsHoldOfRows, Peers
  <1>12. QED
    BY <1>6, <1>7, <1>11 DEF BatchInv, ReadsAreSorted, PlanIsSettled, CommitIsPrepared, AliasesAreWritten

LEMMA BatchStep == ASSUME BatchInv, [BatchNext]_batchVars PROVE BatchInv'
  <1>1. CASE UNCHANGED batchVars
    BY <1>1, DiskMoves DEF batchVars, BatchInv, BatchTypeOK
  <1>2. CASE BatchNext
    <2>1. CASE \/ \E o \in Objects : WriteFile(o)
               \/ \E p \in Paths, o \in Objects \cup {NoFile} : Replace(p, o)
               \/ Remount
      BY <2>1, FileSystemStep
    <2>2. CASE \E p \in Paths : Enumerate(p)
      BY <2>2, EnumerateStep
    <2>3. CASE BeginStat \/ ReadDone \/ \E p \in Paths : ReadPath(p)
      BY <2>3, StatSteps
    <2>4. CASE StartBatch \/ Conflict
      BY <2>4, BatchBegins
    <2>5. CASE GiveUp \/ AbortStat
      BY <2>5, BatchDropped
    <2>6. CASE PlanRound
      BY <2>6, PlanRoundStep
    <2>7. CASE BeginCommit \/ CommitRound \/ CommitDone
      BY <2>7, BeginCommitStep, CommitRoundStep, CommitDoneStep
    <2>8. QED
      BY <1>2, <2>1, <2>2, <2>3, <2>4, <2>5, <2>6, <2>7, Zenon DEF BatchNext
  <1>3. QED
    BY <1>1, <1>2

\* What a pass has read of the aliases, and what its transaction has written of
\* them, covers the closure of the batch at every step (observe_prepared_batch,
\* batch_inner), whatever happens to the files in between.
THEOREM BatchInvariant == BatchSpec => []BatchInv
  <1>1. BatchInit => BatchInv
    BY BatchStarts
  <1>2. BatchInv /\ [BatchNext]_batchVars => BatchInv'
    BY BatchStep
  <1>3. QED
    BY <1>1, <1>2, PTL DEF BatchSpec

\* The transaction never meets an alias that the preparation did not read, so the
\* error "Incomplete prepared alias closure" (batch_inner) is unreachable while the
\* revision is the one the preparation began with.
THEOREM ClosureIsComplete == BatchSpec => []ClosureIsPrepared
  <1>1. BatchInv => ClosureIsPrepared
    BY DEF BatchInv, CommitIsPrepared, ClosureIsPrepared
  <1>2. QED
    BY <1>1, BatchInvariant, PTL

\* A proof in VerifiedFileObjects is true of every accessible row of its object, for
\* any number of paths and objects and any changes of the files while they are read.
THEOREM ProofsAreTrue == BatchSpec => []ProofsHoldOfRows
  <1>1. BatchInv => ProofsHoldOfRows
    BY DEF BatchInv
  <1>2. QED
    BY <1>1, BatchInvariant, PTL
=============================================================================
