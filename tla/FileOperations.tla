---------------------------- MODULE FileOperations ----------------------------
(***************************************************************************)
(* Renames, moves, copies and trashing of files, and their undo            *)
(* (macos/FileOperations.swift), against a file system that other programs *)
(* change at the same time.                                                *)
(*                                                                         *)
(* A batch writes and synchronizes its intents, then treats one row after  *)
(* the other: the source is captured by a rename into private storage, the *)
(* captured object is compared with the reviewed one, and only then is it  *)
(* published at its destination or handed to the Trash.  A failure puts a  *)
(* captured object back.  The journal is append-only; undo trusts a        *)
(* completed record only if the object still has the exact identity the    *)
(* journal leads to.                                                       *)
(*                                                                         *)
(* A slot (a name in a directory) holds an inode or None; hard links are   *)
(* slots with the same inode.  An inode has data (size, mode and mtime     *)
(* stand for it in hasSamePayload) and a ctime that every namespace        *)
(* operation moves.  A directory is one object whose copy or removal may   *)
(* stop halfway, which leaves Partial data.  Parent directories that were  *)
(* replaced make a row fail (Fault "open").                                *)
(***************************************************************************)
EXTENDS Integers, Sequences, FiniteSets, FiniteSetsExt, SequencesExt

CONSTANTS
  Paths,        \* names users and other programs see
  Device,       \* the volume of each path
  Populated,    \* the sets of paths that may have files at first
  Batches,      \* sequences of [src, dst] a client may select
  Faults,       \* which of the kinds below may strike
  MaxRequests,  \* bound: operations and undos
  MaxFaults     \* bound: faults and changes of other programs

FaultKinds == {"crash", "journal", "open", "io", "cancel", "replace", "remove", "modify", "touch"}

ASSUME BatchesAssumption ==
  /\ \A batch \in Batches : batch # << >> /\ batch \in Seq([src : Paths, dst : Paths])
  /\ \E longest \in Batches : \A batch \in Batches : Len(batch) <= Len(longest)
  /\ \A used \in Populated : used # {} /\ used \subseteq Paths /\ IsFiniteSet(used)
  /\ Faults \subseteq FaultKinds /\ {MaxRequests, MaxFaults} \subseteq Nat

None == 0
Partial == 0

PathSlot(p) == <<"path", p>>
CaptureSlot(id) == <<"capture", id>>
CopySlot(id) == <<"copy", id>>
TrashSlot(id) == <<"trash", id>>
BatchLimit == Max({Len(b) : b \in Batches})
Ids == 1 .. MaxRequests * BatchLimit
Slots == {PathSlot(p) : p \in Paths} \cup ({"capture", "copy", "trash"} \X Ids)

VARIABLES
  fs,         \* the inode in each slot, or None
  node,       \* the inodes: data and ctime
  journal,    \* file-operations.jsonl
  synced,     \* how much of it survives a power loss
  op,         \* the request that holds operationLock
  cancelled,  \* its id is in `cancelled`
  gone,       \* data another program has destroyed (observation)
  foreign,    \* inodes changed without a record in the journal (observation)
  requests, budget

vars == <<fs, node, journal, synced, op, cancelled, gone, foreign, requests, budget>>
disk == <<fs, node>>
log == <<journal, synced>>
seen == <<gone, foreign>>
counters == <<requests, budget>>

Fault(kind) == kind \in Faults /\ budget < MaxFaults /\ budget' = budget + 1
NoFault == UNCHANGED budget

Identity(ino) == [ino |-> ino, data |-> node[ino].data, ctime |-> node[ino].ctime]
NoIdentity == [ino |-> None, data |-> None, ctime |-> 0]
IdentityAt(slot) == IF fs[slot] = None THEN NoIdentity ELSE Identity(fs[slot])
hasSamePayload(a, b) == a.ino = b.ino /\ a.data = b.data

Touched(n, ino) == [n EXCEPT ![ino].ctime = @ + 1]

\* The identity of an inode after its next rename.
Moved(ino) == [Identity(ino) EXCEPT !.ctime = @ + 1]

\* renameatx_np with RENAME_EXCL.
CanRename(from, to) == fs[from] # None /\ fs[to] = None
Rename(from, to) ==
  /\ fs' = [fs EXCEPT ![to] = fs[from], ![from] = None]
  /\ node' = Touched(node, fs[from])

-----------------------------------------------------------------------------
\* The journal

Record(kind, id) ==
  [kind |-> kind, id |-> id, action |-> "none", src |-> PathSlot(CHOOSE p \in Paths : TRUE),
   dst |-> PathSlot(CHOOSE p \in Paths : TRUE), before |-> NoIdentity, after |-> NoIdentity,
   paths |-> {}]

Positions(kinds, id) == {i \in DOMAIN journal : journal[i].kind \in kinds /\ journal[i].id = id}
RowKinds == {"intent", "operation", "failed", "not_started"}

\* OperationJournal.history: the last row of an id replaces the earlier ones.
Row(id) == journal[Max(Positions(RowKinds, id))]
Known == {id \in Ids : Positions(RowKinds, id) # {}}
UndoState(id) ==
  LET marks == Positions({"undo", "undo_intent"}, id)
  IN  IF marks = {} THEN "none" ELSE journal[Max(marks)].kind

\* OperationIdentityChanges.current, over the records of kind identity_change.
Following(identity) ==
  LET later == {i \in DOMAIN journal : journal[i].kind = "identity_change" /\ journal[i].before = identity}
  IN  IF later = {} THEN identity ELSE journal[Max(later)].after
Current(identity) ==
  LET chase[n \in 0 .. Len(journal)] == IF n = 0 THEN identity ELSE Following(chase[n - 1])
  IN  chase[Len(journal)]

Append1(record) == journal' = Append(journal, record) /\ UNCHANGED synced
Sync == synced' = Len(journal')

-----------------------------------------------------------------------------
\* Requests

NoHandle == [ino |-> None, expected |-> NoIdentity, captured |-> FALSE, output |-> FALSE,
             done |-> NoIdentity, dst |-> TrashSlot(1), error |-> FALSE, named |-> TRUE]
NoKeeper == [slot |-> <<"none", None>>, identity |-> NoIdentity]

Idle == [pc |-> "idle", action |-> "none", policy |-> "stop", rows |-> << >>, i |-> 0, keeper |-> NoKeeper,
         stopped |-> FALSE, undo |-> None, t |-> NoHandle]

Goto(label) == op' = [op EXCEPT !.pc = label]
NewId(i) == requests * BatchLimit + i   \* UUID()

\* The reviewed rows and, for a duplicate cleanup, the survivor that must stay.
Request(action, policy, batch, keeper) ==
  /\ op.pc = "idle" /\ requests < MaxRequests
  /\ op' = [Idle EXCEPT !.pc = "preview", !.action = action, !.policy = policy, !.i = 1,
              !.keeper = IF keeper = None THEN NoKeeper
                         ELSE [slot |-> PathSlot(keeper), identity |-> IdentityAt(PathSlot(keeper))],
              !.rows = [i \in DOMAIN batch |->
                         [id |-> NewId(i), src |-> PathSlot(batch[i].src),
                          device |-> Device[batch[i].src], to |-> Device[batch[i].dst],
                          dst |-> IF action = "trash" THEN TrashSlot(NewId(i)) ELSE PathSlot(batch[i].dst),
                          expected |-> IdentityAt(PathSlot(batch[i].src))]]]
  /\ requests' = requests + 1
  /\ UNCHANGED <<disk, log, cancelled, seen, budget>>

Cancel ==
  /\ op.pc # "idle" /\ ~cancelled /\ Fault("cancel")
  /\ cancelled' = TRUE
  /\ UNCHANGED <<disk, log, op, seen, requests>>

End == op' = Idle /\ cancelled' = FALSE

Conflicting(i) ==
  LET row == op.rows[i]
  IN  \/ fs[row.src] = None
      \/ IdentityAt(row.src) # row.expected
      \/ /\ op.action # "trash"
         /\ \/ fs[row.dst] # None
            \/ \E j \in DOMAIN op.rows : j # i /\ op.rows[j].dst = row.dst

KeeperStays == op.keeper # NoKeeper => IdentityAt(op.keeper.slot) = op.keeper.identity
KeeperSelected(rows) == \E i \in DOMAIN rows : rows[i].src = op.keeper.slot

\* The preview of performChecked, which decides what the batch will touch.
Preview ==
  /\ op.pc = "preview"
  /\ LET bad == {i \in DOMAIN op.rows : Conflicting(i)}
         good == DOMAIN op.rows \ bad
     IN  \E kept \in [1 .. Cardinality(good) -> good] :
           /\ \A i, j \in DOMAIN kept : i < j => kept[i] < kept[j]
           /\ LET rows == [i \in DOMAIN kept |-> op.rows[kept[i]]]
              IN  IF cancelled \/ (op.policy = "stop" /\ bad # {}) \/ good = {}
                       \/ ~KeeperStays \/ KeeperSelected(rows)
                    THEN End
                    ELSE op' = [op EXCEPT !.pc = "intents", !.rows = rows] /\ UNCHANGED cancelled
  /\ UNCHANGED <<disk, log, seen, counters>>

Intent(row) ==
  [Record("intent", row.id) EXCEPT !.action = op.action, !.src = row.src, !.dst = row.dst,
     !.before = row.expected,
     !.paths = (IF op.action = "copy" THEN {} ELSE {CaptureSlot(row.id)})
               \cup (IF op.action = "trash" THEN {} ELSE {CopySlot(row.id)})]

\* Mutant: the intents are written but not synchronized.
IntentsUnsynced ==
  /\ op.pc = "intents"
  /\ journal' = journal \o [i \in DOMAIN op.rows |-> Intent(op.rows[i])]
  /\ Goto("row")
  /\ UNCHANGED <<disk, synced, cancelled, seen, counters>>

\* Every capture and copy path is durable before the first mutation.
Intents ==
  /\ op.pc = "intents"
  /\ \/ /\ journal' = journal \o [i \in DOMAIN op.rows |-> Intent(op.rows[i])]
        /\ Sync /\ Goto("row") /\ NoFault /\ UNCHANGED cancelled
     \/ /\ Fault("journal") /\ End
        /\ \E n \in 0 .. Len(op.rows) :
             journal' = journal \o [i \in 1 .. n |-> Intent(op.rows[i])]
        /\ UNCHANGED synced
  /\ UNCHANGED <<disk, seen, requests>>

-----------------------------------------------------------------------------
\* One row of a batch

row == op.rows[op.i]
t == op.t
Pinned == Identity(t.ino)

Skip ==
  /\ op.pc = "row" /\ op.i <= Len(op.rows) /\ (op.stopped \/ cancelled)
  /\ \/ Append1([Record("not_started", row.id) EXCEPT !.src = row.src, !.dst = row.dst]) /\ NoFault
     \/ UNCHANGED log /\ Fault("journal")
  /\ op' = [op EXCEPT !.i = @ + 1]
  /\ UNCHANGED <<disk, cancelled, seen, requests>>

\* The authorities are opened again and compared with the preview.
StartRow ==
  /\ op.pc = "row" /\ op.i <= Len(op.rows) /\ ~op.stopped /\ ~cancelled
  /\ LET expected == Current(row.expected)
         pinned == [NoHandle EXCEPT !.ino = fs[row.src], !.expected = expected, !.dst = row.dst]
         refused == op' = [op EXCEPT !.pc = "record", !.t = [NoHandle EXCEPT !.error = TRUE]]
     IN  \/ /\ IdentityAt(row.src) = expected /\ KeeperStays
            /\ op' = [op EXCEPT !.pc = IF op.action = "copy" THEN "copy" ELSE "capture", !.t = pinned]
            /\ NoFault
         \/ (IdentityAt(row.src) # expected \/ ~KeeperStays) /\ refused /\ NoFault
         \/ Fault("open") /\ refused
  /\ UNCHANGED <<disk, log, cancelled, seen, requests>>

-----------------------------------------------------------------------------
\* OperationTransfer.perform

CaptureAt == CaptureSlot(row.id)
CopyAt == CopySlot(row.id)
Fail == op' = [op EXCEPT !.pc = "restore", !.t.error = TRUE]
Stopping == op.undo = None /\ cancelled

\* Rename has no expected-inode variant: whatever is at the source now is captured.
Capture ==
  /\ op.pc = "capture"
  /\ \/ /\ ~Stopping /\ CanRename(row.src, CaptureAt) /\ Rename(row.src, CaptureAt)
        /\ op' = [op EXCEPT !.pc = "authorize", !.t.captured = TRUE]
        /\ NoFault
     \/ (Stopping \/ ~CanRename(row.src, CaptureAt)) /\ Fail /\ NoFault /\ UNCHANGED disk
     \/ Fault("io") /\ Fail /\ UNCHANGED disk
  /\ UNCHANGED <<log, cancelled, seen, requests>>

\* Mutant: the captured object is taken for the reviewed one.
AuthorizeAnything ==
  /\ op.pc = "authorize"
  /\ Goto(IF op.action = "trash" THEN "trash" ELSE IF row.device = row.to THEN "publish" ELSE "copy")
  /\ UNCHANGED <<disk, log, cancelled, seen, counters>>

Authorize ==
  /\ op.pc = "authorize"
  /\ IF hasSamePayload(IdentityAt(CaptureAt), t.expected) /\ ~Stopping
       THEN Goto(IF op.action = "trash" THEN "trash"
                 ELSE IF row.device = row.to THEN "publish" ELSE "copy")
       ELSE Fail
  /\ UNCHANGED <<disk, log, cancelled, seen, counters>>

\* trashItem chooses a free name; it may succeed without telling the place.
Trash ==
  /\ op.pc = "trash"
  /\ \/ /\ Rename(CaptureAt, t.dst)
        /\ \/ op' = [op EXCEPT !.pc = "change", !.t.captured = FALSE, !.t.done = Moved(fs[CaptureAt])] /\ NoFault
           \/ op' = [op EXCEPT !.pc = "restore", !.t.captured = FALSE, !.t.error = TRUE] /\ Fault("open")
     \/ Fault("io") /\ Fail /\ UNCHANGED disk
  /\ UNCHANGED <<log, cancelled, seen, requests>>

Publish ==
  /\ op.pc = "publish"
  /\ \/ /\ CanRename(CaptureAt, t.dst) /\ Rename(CaptureAt, t.dst)
        /\ op' = [op EXCEPT !.pc = "change", !.t.captured = FALSE, !.t.done = Moved(t.ino)]
        /\ NoFault
     \/ ~CanRename(CaptureAt, t.dst) /\ Fail /\ NoFault /\ UNCHANGED disk
     \/ Fault("io") /\ Fail /\ UNCHANGED disk
  /\ UNCHANGED <<log, cancelled, seen, requests>>

\* copy: the pinned object must not change before or after it is read.
Copy ==
  LET expected == IF op.action = "copy" THEN t.expected ELSE Pinned
      Output(data) == /\ node' = Append(node, [data |-> data, ctime |-> 0])
                      /\ fs' = [fs EXCEPT ![CopyAt] = Len(node) + 1]
  IN  /\ op.pc = "copy"
      /\ \/ /\ ~Stopping /\ Pinned = expected /\ Output(Pinned.data)
            /\ op' = [op EXCEPT !.pc = "publish_copy", !.t.output = TRUE] /\ NoFault
         \/ (Stopping \/ Pinned # expected) /\ Fail /\ NoFault /\ UNCHANGED disk
         \/ Fault("io") /\ Fail /\ (Output(Partial) \/ UNCHANGED disk)
      /\ UNCHANGED <<log, cancelled, seen, requests>>

PublishCopy ==
  /\ op.pc = "publish_copy"
  /\ \/ /\ ~Stopping /\ CanRename(CopyAt, t.dst) /\ Rename(CopyAt, t.dst)
        /\ op' = [op EXCEPT !.pc = IF t.captured THEN "remove" ELSE "change",
                            !.t.output = FALSE, !.t.done = Moved(fs[CopyAt])]
        /\ NoFault
     \/ (Stopping \/ ~CanRename(CopyAt, t.dst)) /\ Fail /\ NoFault /\ UNCHANGED disk
     \/ Fault("io") /\ Fail /\ UNCHANGED disk
  /\ UNCHANGED <<log, cancelled, seen, requests>>

\* The captured original of a move to another volume; a tree may be half removed.
RemoveCaptured ==
  /\ op.pc = "remove"
  /\ \/ /\ fs' = [fs EXCEPT ![CaptureAt] = None] /\ node' = Touched(node, fs[CaptureAt])
        /\ op' = [op EXCEPT !.pc = "change", !.t.captured = FALSE] /\ NoFault
     \/ /\ Fault("io") /\ Fail /\ UNCHANGED fs
        /\ node' \in {node, [node EXCEPT ![fs[CaptureAt]] = [data |-> Partial, ctime |-> @.ctime + 1]]}
  /\ UNCHANGED <<log, cancelled, seen, requests>>

\* The catch of perform: back to the source if its name is still free.
Restore ==
  /\ op.pc = "restore"
  /\ IF t.captured /\ CanRename(CaptureAt, row.src)
       THEN Rename(CaptureAt, row.src) /\ op' = [op EXCEPT !.pc = "change", !.t.captured = FALSE]
       ELSE Goto("change") /\ UNCHANGED disk
  /\ UNCHANGED <<log, cancelled, seen, counters>>

-----------------------------------------------------------------------------
\* Results

Change == [Record("identity_change", row.id) EXCEPT !.before = t.expected, !.after = Pinned]
OwnChange == t.expected # Pinned /\ hasSamePayload(t.expected, Pinned)
              /\ (op.action = "copy" => t.error)

\* Mutant: a rolled-back capture leaves no record of the new ctime.
RecordChangeOfSuccess ==
  /\ op.pc = "change"
  /\ IF OwnChange /\ ~t.error THEN Append1(Change) ELSE UNCHANGED log
  /\ Goto("record")
  /\ UNCHANGED <<disk, cancelled, seen, counters>>

\* Changes of the pinned inode that this operation made itself.  A failing
\* append takes the place of the transfer's error and of its recovery paths.
RecordChange ==
  /\ op.pc = "change"
  /\ \/ /\ IF OwnChange THEN Append1(Change) ELSE UNCHANGED log
        /\ Goto("record") /\ NoFault /\ UNCHANGED foreign
     \/ /\ OwnChange /\ Fault("journal") /\ UNCHANGED log
        /\ foreign' = foreign \cup {t.ino}
        /\ op' = [op EXCEPT !.pc = "record", !.t.error = TRUE, !.t.named = FALSE]
  /\ UNCHANGED <<disk, cancelled, gone, requests>>

Recovery == {slot \in {CaptureAt, CopyAt} : fs[slot] # None}

Result ==
  IF t.error THEN [Record("failed", row.id) EXCEPT !.action = op.action, !.src = row.src,
                                                   !.dst = row.dst, !.paths = IF t.named THEN Recovery ELSE {}]
             ELSE [Record("operation", row.id) EXCEPT !.action = op.action, !.src = row.src,
                                                     !.dst = t.dst, !.before = t.expected, !.after = t.done]

RecordResult ==
  /\ op.pc = "record" /\ op.undo = None
  /\ \/ /\ Append1(Result) /\ NoFault
        /\ op' = [op EXCEPT !.pc = "row", !.i = @ + 1, !.t = NoHandle,
                            !.stopped = @ \/ (t.error /\ op.policy = "stop")]
     \/ /\ Fault("journal") /\ UNCHANGED log
        /\ op' = [op EXCEPT !.pc = "row", !.i = @ + 1, !.t = NoHandle, !.stopped = TRUE]
  /\ UNCHANGED <<disk, cancelled, seen, requests>>

\* The journal is synchronized once, when the batch ends.
Finish ==
  /\ op.pc = "row" /\ op.i > Len(op.rows)
  /\ synced' = Len(journal) /\ End
  /\ UNCHANGED <<disk, journal, seen, counters>>

-----------------------------------------------------------------------------
\* undoChecked

Undoable == {id \in Known : Row(id).kind = "operation" /\ UndoState(id) # "undo"}

DeviceOf(slot, record) == IF slot[1] = "path" THEN Device[slot[2]] ELSE Device[record.src[2]]

\* The last operation that is not undone, if its object is exactly the recorded one.
Undo ==
  /\ op.pc = "idle" /\ requests < MaxRequests /\ Undoable # {}
  /\ LET id == Max(Undoable)
         record == Row(id)
         removing == record.action = "copy"
         key == NewId(1)
     IN  /\ UndoState(id) # "undo_intent"
         /\ IdentityAt(record.dst) = Current(record.after) /\ fs[record.dst] # None
         /\ removing \/ fs[record.src] = None
         /\ op' = [Idle EXCEPT !.pc = "undo_intent", !.undo = id, !.i = 1,
                     !.action = IF removing THEN "trash" ELSE "move",
                     !.rows = <<[id |-> key, src |-> record.dst, device |-> DeviceOf(record.dst, record),
                                 to |-> DeviceOf(record.src, record),
                                 dst |-> IF removing THEN TrashSlot(key) ELSE record.src,
                                 expected |-> IdentityAt(record.dst)]>>,
                     !.t = [NoHandle EXCEPT !.ino = fs[record.dst], !.expected = IdentityAt(record.dst),
                              !.dst = IF removing THEN TrashSlot(key) ELSE record.src]]
  /\ requests' = requests + 1
  /\ UNCHANGED <<disk, log, cancelled, seen, budget>>

UndoIntent ==
  /\ op.pc = "undo_intent"
  /\ \/ /\ journal' = Append(journal, [Record("undo_intent", op.undo) EXCEPT
                                         !.paths = {CaptureAt} \cup (IF row.device = row.to THEN {} ELSE {CopyAt})])
        /\ Sync /\ Goto("capture") /\ NoFault /\ UNCHANGED cancelled
     \/ Fault("journal") /\ End /\ UNCHANGED log
  /\ UNCHANGED <<disk, seen, requests>>

\* A failed undo leaves its intent as the last word on the record.
RecordUndo ==
  /\ op.pc = "record" /\ op.undo # None
  /\ \/ /\ IF t.error THEN UNCHANGED journal ELSE journal' = Append(journal, Record("undo", op.undo))
        /\ Sync /\ NoFault
     \/ Fault("journal") /\ UNCHANGED log
  /\ End
  /\ UNCHANGED <<disk, seen, requests>>

-----------------------------------------------------------------------------
\* Other programs, and the end of the process

ReplaceFile(p) ==
  /\ Fault("replace")
  /\ node' = Append(node, [data |-> Len(node) + 10, ctime |-> 0])
  /\ fs' = [fs EXCEPT ![PathSlot(p)] = Len(node) + 1]
  /\ gone' = gone \cup {IdentityAt(PathSlot(p)).data}
  /\ foreign' = foreign \cup {fs[PathSlot(p)], Len(node) + 1}
  /\ UNCHANGED <<log, op, cancelled, requests>>

RemoveFile(p) ==
  /\ fs[PathSlot(p)] # None /\ Fault("remove")
  /\ fs' = [fs EXCEPT ![PathSlot(p)] = None]
  /\ node' = Touched(node, fs[PathSlot(p)])
  /\ gone' = gone \cup {IdentityAt(PathSlot(p)).data}
  /\ foreign' = foreign \cup {fs[PathSlot(p)]}
  /\ UNCHANGED <<log, op, cancelled, requests>>

ModifyFile(p) ==
  /\ fs[PathSlot(p)] # None /\ Fault("modify")
  /\ node' = [node EXCEPT ![fs[PathSlot(p)]] = [data |-> 20 + budget, ctime |-> @.ctime + 1]]
  /\ gone' = gone \cup {IdentityAt(PathSlot(p)).data}
  /\ foreign' = foreign \cup {fs[PathSlot(p)]}
  /\ UNCHANGED <<fs, log, op, cancelled, requests>>

\* A change of ctime alone: extended attributes, permissions, another link.
TouchFile(p) ==
  /\ fs[PathSlot(p)] # None /\ Fault("touch")
  /\ node' = Touched(node, fs[PathSlot(p)])
  /\ foreign' = foreign \cup {fs[PathSlot(p)]}
  /\ UNCHANGED <<fs, log, op, cancelled, gone, requests>>

\* The process ends between two steps; a power loss also takes unsynchronized
\* records, and a killed writer the line it was writing.
Crash ==
  /\ op.pc # "idle" /\ Fault("crash")
  /\ \E n \in synced .. Len(journal) :
       journal' = SubSeq(journal, 1, n) /\ synced' = n
  /\ foreign' = DOMAIN node
  /\ End
  /\ UNCHANGED <<disk, gone, requests>>

-----------------------------------------------------------------------------
\* Populated paths have files of their own, or are links to one file.
Init ==
  /\ \E used \in Populated, linked \in BOOLEAN :
       LET order == SetToSeq(used)
       IN  /\ node = [i \in 1 .. (IF linked THEN 1 ELSE Len(order)) |-> [data |-> i, ctime |-> 0]]
           /\ fs = [s \in Slots |-> IF \E i \in DOMAIN order : s = PathSlot(order[i])
                                      THEN IF linked THEN 1
                                           ELSE CHOOSE i \in DOMAIN order : s = PathSlot(order[i])
                                      ELSE None]
           /\ linked => \A p, q \in used : Device[p] = Device[q]
  /\ journal = << >> /\ synced = 0 /\ op = Idle /\ cancelled = FALSE
  /\ gone = {} /\ foreign = {} /\ requests = 0 /\ budget = 0

Transfer == Capture \/ Authorize \/ Trash \/ Publish \/ Copy \/ PublishCopy \/ RemoveCaptured \/ Restore
Service == \/ Preview \/ Intents \/ Skip \/ StartRow \/ Transfer \/ RecordChange \/ RecordResult \/ Finish
           \/ UndoIntent \/ RecordUndo

Next ==
  \/ \E action \in {"move", "copy", "trash"}, policy \in {"stop", "skip"}, batch \in Batches :
       Request(action, policy, batch, None)
  \/ \E batch \in Batches, keeper \in Paths : Request("trash", "stop", batch, keeper)
  \/ Undo \/ Cancel \/ Service \/ Crash
  \/ \E p \in Paths : ReplaceFile(p) \/ RemoveFile(p) \/ ModifyFile(p) \/ TouchFile(p)

Spec == Init /\ [][Next]_vars

-----------------------------------------------------------------------------
\* Properties

Named == UNION {journal[i].paths : i \in DOMAIN journal}
AllData == {node[i].data : i \in DOMAIN node} \ {Partial}

\* Whatever step a crash, a failure or another program's change strikes, data no
\* other program destroyed is at a path, in the Trash, or in private storage at
\* a place that the journal names (OperationTransfer.perform, Intents).
NothingLost ==
  \A d \in AllData \ gone :
    \E s \in Slots :
      /\ fs[s] # None /\ node[fs[s]].data = d
      /\ s[1] \in {"capture", "copy"} => s \in Named

\* An object that an operation publishes or trashes is the reviewed one or a
\* copy of it, although another program may replace the source after the check
\* and before the rename; everything else goes back where it was.
OnlyReviewedMoved ==
  [][op' # op /\ op.pc # "restore" =>
       \A s \in Slots : s[1] \in {"path", "trash"} /\ fs'[s] # fs[s] /\ fs'[s] # None =>
         \/ fs'[s] = t.expected.ino
         \/ /\ fs'[s] = fs[CopyAt]
            /\ node[fs[CopyAt]].data = t.expected.data \/ t.expected.ino \in foreign]_vars

\* The service's own renames, rollbacks and undos never make a completed
\* operation look externally changed (docs/WORKFLOWS.md): while only it has
\* touched an inode, and no half-finished removal broke its tree, the journal
\* leads from the recorded identity to the inode's present one.
UndoStaysAuthorized ==
  op.pc = "idle" =>
    \A id \in Undoable :
      LET after == Row(id).after
      IN  fs[Row(id).dst] = after.ino /\ after.ino \notin foreign /\ node[after.ino].data # Partial
            => Current(after) = Identity(after.ino)

-----------------------------------------------------------------------------
(* The inductive invariants behind them. *)

Nodes == [data : Nat, ctime : Nat]
Identities == [ino : Nat, data : Nat, ctime : Nat]
Actions == {"none", "move", "copy", "trash"}
Records ==
  [kind : RowKinds \cup {"identity_change", "undo", "undo_intent"}, id : Nat, action : Actions,
   src : Slots, dst : Slots, before : Identities, after : Identities, paths : SUBSET Slots]
Devices == {Device[p] : p \in Paths}
Rows == [id : Ids, src : Slots, device : Devices, to : Devices, dst : Slots, expected : Identities]
Handles ==
  [ino : Nat, expected : Identities, captured : BOOLEAN, output : BOOLEAN, done : Identities,
   dst : Slots \cup {TrashSlot(1)}, error : BOOLEAN, named : BOOLEAN]
Keepers == [slot : Slots \cup {<<"none", None>>}, identity : Identities]

\* The places of perform in which the source is pinned, and all of a started batch.
Working == {"capture", "authorize", "trash", "publish", "copy", "publish_copy", "remove",
            "restore", "change"}
Pinning == Working \cup {"undo_intent"}
Started == Working \cup {"row", "record"}
Places == Started \cup {"idle", "preview", "intents", "undo_intent"}
Operations ==
  [pc : Places, action : Actions, policy : {"stop", "skip"}, rows : Seq(Rows), i : Nat,
   keeper : Keepers, stopped : BOOLEAN, undo : Nat, t : Handles]

TypeOK ==
  /\ node \in Seq(Nodes) /\ fs \in [Slots -> 0 .. Len(node)]
  /\ journal \in Seq(Records) /\ synced \in 0 .. Len(journal)
  /\ op \in Operations /\ cancelled \in BOOLEAN
  /\ gone \subseteq Nat /\ foreign \subseteq Nat
  /\ requests \in 0 .. MaxRequests /\ budget \in Nat

PathSlots == {PathSlot(p) : p \in Paths}
Used == requests * BatchLimit   \* ids given out so far

\* Where the request stands: its rows have ids of their own, a place to take the
\* object from and one to put it.
Control ==
  /\ op.pc = "idle" => op.rows = << >>
  /\ op.pc # "idle" => op.action # "none"
  /\ op.pc \in {"preview", "intents"} => op.i = 1 /\ op.undo = None
  /\ op.pc = "row" => op.i \in 1 .. Len(op.rows) + 1 /\ op.undo = None
  /\ op.pc \in Pinning \cup {"record"} => op.i \in DOMAIN op.rows
  /\ op.undo # None => op.action # "copy"
  /\ op.pc = "undo_intent" => op.undo # None /\ DOMAIN op.rows = {op.i}
  /\ \A j \in DOMAIN op.rows :
       /\ op.rows[j].id <= Used
       /\ op.pc # "preview" => op.rows[j].expected.ino # None
       /\ \A k \in DOMAIN op.rows : k # j => op.rows[k].id # op.rows[j].id
       /\ IF op.action = "trash" THEN op.rows[j].dst = TrashSlot(op.rows[j].id)
          ELSE op.rows[j].dst \in PathSlots
       /\ \/ op.rows[j].src \in PathSlots
          \/ /\ op.undo # None
             /\ \E k \in Ids : /\ op.rows[j].src = TrashSlot(k) /\ k <= Used
                               /\ \A m \in DOMAIN op.rows : op.rows[m].id # k

\* The pinned object, and which object private storage holds at each place.
Captured ==
  /\ op.pc = "record" /\ ~t.error => t.dst = row.dst
  /\ op.pc \in Pinning =>
       /\ t.ino \in DOMAIN node /\ t.expected.ino = t.ino /\ t.dst = row.dst
       /\ op.action = "copy" => ~t.captured
       /\ op.pc \in {"undo_intent", "capture"} =>
            op.action # "copy" /\ ~t.captured /\ fs[row.src] \in {None, t.ino} \cup foreign
       /\ op.pc = "authorize" => t.captured /\ op.action # "copy"
       /\ op.pc \in {"authorize", "restore"} /\ t.captured =>
            fs[CaptureAt] # None /\ fs[CaptureAt] \in {t.ino} \cup foreign
       /\ op.pc = "trash" => op.action = "trash"
       /\ op.pc \in {"publish", "remove"} => op.action = "move"
       /\ op.pc \in {"trash", "publish", "remove"} => t.captured /\ fs[CaptureAt] = t.ino
       /\ op.pc \in {"copy", "publish_copy"} =>
            /\ op.action # "trash"
            /\ t.captured <=> op.action # "copy"
            /\ t.captured => fs[CaptureAt] = t.ino /\ row.device # row.to
       /\ op.pc = "copy" /\ t.captured => node[t.ino].data = t.expected.data \/ t.ino \in foreign

\* Private and Trash names are taken only by the row that owns them.
Vacant(id) == {fs[CaptureSlot(id)], fs[CopySlot(id)], fs[TrashSlot(id)]} = {None}
Untouched(j) ==
  j > op.i \/ (j = op.i /\ op.pc \in {"preview", "intents", "row", "undo_intent", "capture"})
NamesAreFree ==
  /\ \A id \in Ids : id > Used => Vacant(id)
  /\ \A j \in DOMAIN op.rows : Untouched(j) => Vacant(op.rows[j].id)
  /\ op.pc \in {"authorize", "trash", "publish", "copy"} =>
       fs[CopyAt] = None /\ fs[TrashSlot(row.id)] = None

\* A finished copy is nobody else's, and a copy of the reviewed object.
CopyIsOwn ==
  op.pc = "publish_copy" =>
    /\ fs[CopyAt] # None /\ fs[CopyAt] # t.ino
    /\ \A s \in Slots : s # CopyAt => fs[s] # fs[CopyAt]
    /\ node[fs[CopyAt]].data = t.expected.data \/ t.ino \in foreign

\* What undo and the chains of identities rely on in the journal.
Changes == {j \in DOMAIN journal : journal[j].kind = "identity_change"}
Completed == {j \in DOMAIN journal : journal[j].kind = "operation"}
RecordsFit ==
  /\ \A j \in Changes : journal[j].before.ino = journal[j].after.ino
  /\ \A j \in Completed :
       /\ journal[j].src \in PathSlots
       /\ \/ journal[j].dst \in PathSlots
          \/ \E k \in Ids : k <= Used /\ journal[j].dst = TrashSlot(k)

MoveInv == TypeOK /\ Control /\ RecordsFit /\ Captured /\ NamesAreFree /\ CopyIsOwn

\* What private storage holds, the synchronized journal names.
Durable == UNION {journal[j].paths : j \in 1 .. synced}
NamesAreDurable ==
  /\ \A s \in Slots : s[1] \in {"capture", "copy"} /\ fs[s] # None => s \in Durable
  /\ op.pc \in Started =>
       \A j \in DOMAIN op.rows :
         /\ op.action # "copy" => CaptureSlot(op.rows[j].id) \in Durable
         /\ (IF op.undo = None THEN op.action # "trash" ELSE op.rows[j].device # op.rows[j].to)
              => CopySlot(op.rows[j].id) \in Durable

\* The data of every inode but c is in some slot but x, and not only in c.
Kept(x, c) ==
  \A m \in DOMAIN node \ {c} :
    \/ node[m].data \in gone \cup {Partial}
    \/ \E s \in Slots \ {x} : fs[s] \notin {None, c} /\ node[fs[s]].data = node[m].data

\* Once a copy is made, nothing depends on the captured original.
DataIsKept ==
  /\ Kept(<<"none", None>>, None)
  /\ op.pc \in {"publish_copy", "remove"} /\ t.captured =>
       Kept(CaptureAt, None) /\ Kept(CaptureAt, t.ino)

LossInv == MoveInv /\ NamesAreDurable /\ DataIsKept

\* The identity that the journal should lead to.
Base(n) == IF op.pc \in Pinning /\ n = t.ino THEN t.expected ELSE Identity(n)
Broken(n) == n \in foreign \/ node[n].data = Partial

\* Recorded identities of an inode lie in the past.
RecordsAreDated ==
  /\ \A j \in Changes :
       /\ journal[j].after.ino \in DOMAIN node
       /\ journal[j].before.ctime < journal[j].after.ctime
  /\ \A n \in DOMAIN node, j \in Changes : journal[j].after.ino = n => journal[j].after.ctime <= Base(n).ctime
  /\ \A j \in Completed : journal[j].after.ino \in DOMAIN node

\* So does the pinned one, and only the transfer itself has left it behind.
PinIsDated ==
  op.pc \in Pinning =>
    /\ t.expected.ctime <= node[t.ino].ctime
    /\ node[t.ino].data = t.expected.data \/ Broken(t.ino)
    /\ op.pc = "undo_intent" \/ op.action = "copy" => Pinned = t.expected \/ t.ino \in foreign

\* No record names a copy before it is published.
CopyIsNew ==
  op.pc = "publish_copy" => \A j \in Completed \cup Changes : journal[j].after.ino # fs[CopyAt]

\* The result about to be recorded is the object as it is.
ResultIsCurrent ==
  /\ op.pc = "restore" => t.error
  /\ op.pc \in {"remove", "change", "record"} /\ ~t.error =>
       /\ t.done.ino \in DOMAIN node /\ (op.pc = "remove" => t.done.ino # t.ino)
       /\ Broken(t.done.ino) \/ Identity(t.done.ino) = t.done

ChainsLead ==
  \A after \in {journal[j].after : j \in Completed} :
    Broken(after.ino) \/ Current(after) = Base(after.ino)

UndoInv == MoveInv /\ RecordsAreDated /\ PinIsDated /\ CopyIsNew /\ ResultIsCurrent /\ ChainsLead
=============================================================================
