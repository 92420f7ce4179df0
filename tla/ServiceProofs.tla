---------------------------- MODULE ServiceProofs ----------------------------
(***************************************************************************)
(* The jobs the search service runs beside the index: content extraction,  *)
(* file-list imports, the scratch buffers of its queries and the engines   *)
(* of imported lists.                                                      *)
(***************************************************************************)
EXTENDS ContentIndexing, FileListImport, DerivedCache, OfflineLists, FiniteSetTheorems,
    SequenceTheorems, WellFoundedInduction, TLAPS

-----------------------------------------------------------------------------
(* Content extraction. *)

\* The disk and the index worker: no job moves.
LEMMA RowsChange ==
    ASSUME ContentInv, UNCHANGED << job, jobs >>,
           onDisk' \in [Documents -> Nat], \A d \in Documents : onDisk[d] <= onDisk'[d],
           indexed' \in [Documents -> Nat], body' \in [Documents -> Stored \cup {NoBody}],
           shown' \in [rows : [Documents -> Nat], bodies : [Documents -> Stored \cup {NoBody}]],
           OneVersion(body'), OneVersion(shown'.bodies)
    PROVE  ContentInv'
  <1>1. ContentTypeOK /\ ContentTypeOK'
    BY DEF ContentInv, ContentTypeOK
  <1>2. ASSUME NEW j \in Jobs PROVE ReadInOrder(job[j])'
    <2>1. PICK x \in JobStates : x = job[j]
      BY <1>1 DEF ContentTypeOK
    <2>2. x.before \in Nat /\ x.parts \in Seq(Nat) /\ \A i \in DOMAIN x.parts : x.parts[i] \in Nat
      BY ElementOfSeq DEF JobStates
    <2>3. ReadInOrder(x)
      BY <2>1 DEF ContentInv
    <2>4. x.pc = "read" =>
            /\ x.path \in Documents /\ x.before <= onDisk'[x.path]
            /\ \A i \in DOMAIN x.parts : x.before <= x.parts[i] /\ x.parts[i] <= onDisk'[x.path]
      BY <1>1, <2>2, <2>3 DEF ReadInOrder, ContentTypeOK
    <2>5. QED
      BY <2>1, <2>3, <2>4 DEF ReadInOrder
  <1>3. Registered' /\ JobsStayCancellable'
    BY DEF ContentInv, Registered, JobsStayCancellable
  <1>4. QED
    BY <1>1, <1>2, <1>3 DEF ContentInv, OneVersion

LEMMA CurrentContentFits ==
    ASSUME ContentInv
    PROVE  /\ CurrentContent \in [rows : [Documents -> Nat], bodies : [Documents -> Stored \cup {NoBody}]]
           /\ CurrentContent.bodies = body /\ OneVersion(CurrentContent.bodies)
  BY DEF ContentInv, ContentTypeOK, CurrentContent

LEMMA SaveAndCommitStep ==
    ASSUME ContentInv, \/ \E d \in Documents : SaveDocument(d) \/ CommitRow(d)
                       \/ PublishSnapshot
    PROVE  ContentInv'
  <1>1. ContentTypeOK /\ OneVersion(body) /\ OneVersion(shown.bodies)
        /\ \A d \in Documents : onDisk[d] \in Nat /\ onDisk[d] <= onDisk[d]
    BY DEF ContentInv, ContentTypeOK
  <1>2. ASSUME NEW d \in Documents, SaveDocument(d) PROVE ContentInv'
    <2>1. /\ onDisk' \in [Documents -> Nat] /\ \A e \in Documents : onDisk[e] <= onDisk'[e]
          /\ UNCHANGED << indexed, body, shown, job, jobs >>
      BY <1>1, <1>2 DEF SaveDocument, ContentTypeOK
    <2>2. QED
      BY <1>1, <2>1, RowsChange DEF ContentTypeOK
  <1>3. ASSUME NEW d \in Documents, CommitRow(d) PROVE ContentInv'
    <2>1. /\ indexed' \in [Documents -> Nat] /\ body' = [body EXCEPT ![d] = NoBody]
          /\ UNCHANGED << onDisk, shown, job, jobs >>
      BY <1>1, <1>3 DEF CommitRow, ContentTypeOK
    <2>2. body' \in [Documents -> Stored \cup {NoBody}] /\ OneVersion(body')
      BY <1>1, <2>1 DEF ContentTypeOK, OneVersion
    <2>3. QED
      BY <1>1, <2>1, <2>2, RowsChange DEF ContentTypeOK
  <1>4. CASE PublishSnapshot
    BY <1>1, <1>4, CurrentContentFits, RowsChange DEF PublishSnapshot, ContentTypeOK
  <1>5. QED
    BY <1>2, <1>3, <1>4

\* A job moves on under its id.
LEMMA JobMoves ==
    ASSUME ContentInv, NEW j \in Jobs, NEW x \in JobStates, ReadInOrder(x),
           job' = [job EXCEPT ![j] = x], job[j].pc \notin {"none", "done"},
           x.pc \notin {"none", "done"}, x.id = job[j].id, x.cancelled = job[j].cancelled,
           x.displaced = job[j].displaced, UNCHANGED << onDisk, indexed, jobs >>,
           body' \in [Documents -> Stored \cup {NoBody}],
           shown' \in [rows : [Documents -> Nat], bodies : [Documents -> Stored \cup {NoBody}]],
           OneVersion(body'), OneVersion(shown'.bodies)
    PROVE  ContentInv'
  <1>1. ContentTypeOK /\ Registered /\ JobsStayCancellable
    BY DEF ContentInv
  <1>2. /\ job' \in [Jobs -> JobStates] /\ job'[j] = x
        /\ \A k \in Jobs : k # j => job'[k] = job[k]
    BY <1>1 DEF ContentTypeOK
  <1>3. ContentTypeOK'
    BY <1>1, <1>2 DEF ContentTypeOK
  <1>4. \A k \in Jobs : ReadInOrder(job'[k])
    BY <1>2 DEF ContentInv
  <1>5. \A k \in Jobs : ReadInOrder(job[k])'
    BY <1>4 DEF ReadInOrder
  <1>6. \A k \in Jobs : /\ job'[k].id = job[k].id /\ job'[k].cancelled = job[k].cancelled
                        /\ job'[k].displaced = job[k].displaced
                        /\ job'[k].pc = "none" <=> job[k].pc = "none"
                        /\ job'[k].pc = "done" <=> job[k].pc = "done"
    BY <1>2
  <1>7. Registered'
    BY <1>1, <1>6 DEF Registered, ContentTypeOK
  <1>8. JobsStayCancellable'
    BY <1>1, <1>6 DEF JobsStayCancellable
  <1>9. QED
    BY <1>3, <1>5, <1>7, <1>8 DEF ContentInv, OneVersion

\* What the invariant says of the job at work.
LEMMA OwnJob ==
    ASSUME ContentInv, NEW j \in Jobs
    PROVE  /\ job[j] \in JobStates /\ ReadInOrder(job[j])
           /\ body \in [Documents -> Stored \cup {NoBody}] /\ OneVersion(body)
           /\ shown \in [rows : [Documents -> Nat], bodies : [Documents -> Stored \cup {NoBody}]]
           /\ OneVersion(shown.bodies) /\ onDisk \in [Documents -> Nat]
  BY DEF ContentInv, ContentTypeOK

LEMMA SkippedFits ==
    ASSUME ContentInv, NEW j \in Jobs
    PROVE  /\ Skipped(j) \in JobStates /\ Skipped(j).pc = "next" /\ Skipped(j).id = job[j].id
           /\ Skipped(j).cancelled = job[j].cancelled /\ Skipped(j).displaced = job[j].displaced
           /\ ReadInOrder(Skipped(j))
  <1>1. << >> \in Seq(Nat)
    OBVIOUS
  <1>2. /\ Skipped(j) \in JobStates /\ Skipped(j).pc = "next" /\ Skipped(j).id = job[j].id
        /\ Skipped(j).cancelled = job[j].cancelled /\ Skipped(j).displaced = job[j].displaced
    BY <1>1, OwnJob, ZenonT(40) DEF JobStates, Skipped
  <1>3. QED
    BY <1>2 DEF ReadInOrder

LEMMA LoopStep ==
    ASSUME ContentInv, NEW j \in Jobs,
           StartJob(j) \/ EndLoop(j) \/ SkipFile(j) \/ EndJob(j)
    PROVE  ContentInv'
  <1>1. PICK y \in JobStates : y = job[j]
    BY OwnJob
  <1>2. CASE StartJob(j)
    <2>1. y.pc = "queued" /\ UNCHANGED << onDisk, indexed, body, shown, jobs >>
      BY <1>1, <1>2 DEF StartJob
    <2>2. PICK todo \in SUBSET Documents : todo = {d \in Documents : y.kind = "index" \/ Missing(d)}
      OBVIOUS
    <2>3. \/ job' = [job EXCEPT ![j] = [y EXCEPT !.pc = "next", !.todo = todo]]
          \/ job' = [job EXCEPT ![j] = [y EXCEPT !.pc = "end", !.ok = FALSE]]
      BY <1>1, <1>2, <2>2 DEF StartJob, Become
    <2>4. CASE job' = [job EXCEPT ![j] = [y EXCEPT !.pc = "next", !.todo = todo]]
      <3>1. PICK x : x = [y EXCEPT !.pc = "next", !.todo = todo]
        OBVIOUS
      <3>2. /\ x \in JobStates /\ x.pc = "next" /\ x.id = y.id /\ x.cancelled = y.cancelled
            /\ x.displaced = y.displaced
        BY <3>1 DEF JobStates
      <3>3. ReadInOrder(x)
        BY <3>2 DEF ReadInOrder
      <3>4. QED
        BY <1>1, <2>1, <2>4, <3>1, <3>2, <3>3, OwnJob, JobMoves
    <2>5. CASE job' = [job EXCEPT ![j] = [y EXCEPT !.pc = "end", !.ok = FALSE]]
      <3>1. PICK x : x = [y EXCEPT !.pc = "end", !.ok = FALSE]
        OBVIOUS
      <3>2. /\ x \in JobStates /\ x.pc = "end" /\ x.id = y.id /\ x.cancelled = y.cancelled
            /\ x.displaced = y.displaced
        BY <3>1 DEF JobStates
      <3>3. ReadInOrder(x)
        BY <3>2 DEF ReadInOrder
      <3>4. QED
        BY <1>1, <2>1, <2>5, <3>1, <3>2, <3>3, OwnJob, JobMoves
    <2>6. QED
      BY <2>3, <2>4, <2>5
  <1>3. CASE EndLoop(j)
    <2>1. PICK x : x = [y EXCEPT !.pc = "end", !.todo = {}]
      OBVIOUS
    <2>2. /\ y.pc = "next" /\ UNCHANGED << onDisk, indexed, body, shown, jobs >>
          /\ job' = [job EXCEPT ![j] = x]
      BY <1>1, <1>3, <2>1 DEF EndLoop, Become
    <2>3. /\ x \in JobStates /\ x.pc = "end" /\ x.id = y.id /\ x.cancelled = y.cancelled
          /\ x.displaced = y.displaced
      BY <2>1 DEF JobStates
    <2>4. ReadInOrder(x)
      BY <2>3 DEF ReadInOrder
    <2>5. QED
      BY <1>1, <2>2, <2>3, <2>4, OwnJob, JobMoves
  <1>4. CASE SkipFile(j)
    <2>1. /\ y.pc = "read" /\ UNCHANGED << onDisk, indexed, body, shown, jobs >>
          /\ job' = [job EXCEPT ![j] = Skipped(j)]
      BY <1>1, <1>4 DEF SkipFile, Become
    <2>2. QED
      BY <1>1, <2>1, OwnJob, SkippedFits, JobMoves
  <1>5. CASE EndJob(j)
    <2>1. PICK x : x = [y EXCEPT !.pc = "reply"]
      OBVIOUS
    <2>2. /\ y.pc = "end" /\ UNCHANGED << onDisk, indexed, body, jobs >>
          /\ shown' = CurrentContent /\ job' = [job EXCEPT ![j] = x]
      BY <1>1, <1>5, <2>1 DEF EndJob, Become
    <2>3. /\ x \in JobStates /\ x.pc = "reply" /\ x.id = y.id /\ x.cancelled = y.cancelled
          /\ x.displaced = y.displaced
      BY <2>1 DEF JobStates
    <2>4. ReadInOrder(x)
      BY <2>3 DEF ReadInOrder
    <2>5. QED
      BY <1>1, <2>2, <2>3, <2>4, OwnJob, CurrentContentFits, JobMoves
  <1>6. QED
    BY <1>2, <1>3, <1>4, <1>5

LEMMA StatBeforeStep ==
    ASSUME ContentInv, NEW j \in Jobs, NEW d \in Documents, StatBefore(j, d)
    PROVE  ContentInv'
  <1>1. PICK y \in JobStates : y = job[j]
    BY OwnJob
  <1>2. PICK n \in Nat : n = onDisk[d]
    BY OwnJob
  <1>3. PICK todo \in SUBSET Documents : todo = y.todo \ {d}
    BY DEF JobStates
  <1>4. PICK x : x = [y EXCEPT !.pc = "read", !.path = d, !.before = n, !.parts = << >>, !.todo = todo]
    OBVIOUS
  <1>5. /\ y.pc = "next" /\ UNCHANGED << onDisk, indexed, body, shown, jobs >>
        /\ job' = [job EXCEPT ![j] = x]
    BY <1>1, <1>2, <1>3, <1>4 DEF StatBefore, Become
  <1>6. << >> \in Seq(Nat) /\ DOMAIN << >> = {}
    OBVIOUS
  <1>7. /\ x \in JobStates /\ x.pc = "read" /\ x.id = y.id /\ x.cancelled = y.cancelled
        /\ x.displaced = y.displaced /\ x.path = d /\ x.before = n /\ x.parts = << >>
    BY <1>4, <1>6 DEF JobStates
  <1>8. ReadInOrder(x)
    <2>1. DOMAIN x.parts = {} /\ n <= onDisk[d]
      BY <1>2, <1>6, <1>7
    <2>2. QED
      BY <1>7, <2>1 DEF ReadInOrder
  <1>9. QED
    BY <1>1, <1>5, <1>7, <1>8, OwnJob, JobMoves

LEMMA ReadPartStep ==
    ASSUME ContentInv, NEW j \in Jobs, ReadPart(j)
    PROVE  ContentInv'
  <1>1. PICK y \in JobStates : y = job[j]
    BY OwnJob
  <1>2. y.pc = "read" /\ UNCHANGED << onDisk, indexed, body, shown, jobs >>
    BY <1>1 DEF ReadPart
  <1>3. y.path \in Documents /\ y.before <= onDisk[y.path] /\ y.before \in Nat /\ y.parts \in Seq(Nat)
        /\ \A i \in DOMAIN y.parts : y.before <= y.parts[i] /\ y.parts[i] <= onDisk[y.path]
    BY <1>1, <1>2, OwnJob DEF ReadInOrder, JobStates
  <1>4. PICK n \in Nat : n = onDisk[y.path]
    BY <1>3, OwnJob
  <1>5. PICK parts \in Seq(Nat) : parts = Append(y.parts, n)
    <2>1. Append(y.parts, n) \in Seq(Nat)
      BY <1>3, <1>4, AppendProperties
    <2>2. QED
      BY <2>1, Zenon
  <1>6. PICK x : x = [y EXCEPT !.parts = parts]
    OBVIOUS
  <1>7. job' = [job EXCEPT ![j] = x]
    BY <1>1, <1>4, <1>5, <1>6 DEF ReadPart, Become
  <1>8. /\ x \in JobStates /\ x.pc = "read" /\ x.id = y.id /\ x.cancelled = y.cancelled
        /\ x.displaced = y.displaced /\ x.path = y.path /\ x.before = y.before /\ x.parts = parts
    BY <1>2, <1>6 DEF JobStates
  <1>9. ASSUME NEW i \in DOMAIN parts PROVE y.before <= parts[i] /\ parts[i] <= n
    <2>1. Len(parts) = Len(y.parts) + 1 /\ parts[Len(y.parts) + 1] = n
          /\ \A k \in 1 .. Len(y.parts) : parts[k] = y.parts[k]
      BY <1>3, <1>5, AppendProperties
    <2>2. i \in 1 .. Len(y.parts) \/ i = Len(y.parts) + 1
      BY <1>3, <2>1, SMTT(40)
    <2>3. QED
      BY <1>3, <1>4, <2>1, <2>2, SMTT(40)
  <1>10. ReadInOrder(x)
    BY <1>3, <1>4, <1>8, <1>9 DEF ReadInOrder
  <1>11. QED
    BY <1>1, <1>2, <1>7, <1>8, <1>10, OwnJob, JobMoves

\* Nothing was written between the two lstats: every part is of that version.
LEMMA UnchangedParts ==
    ASSUME ContentInv, NEW y \in JobStates, ReadInOrder(y), y.pc = "read",
           Len(y.parts) = ReadsPerFile, onDisk[y.path] = y.before
    PROVE  y.path \in Documents /\ ToSet(y.parts) = {y.before}
  <1>1. /\ y.path \in Documents /\ y.before \in Nat /\ y.parts \in Seq(Nat)
        /\ \A i \in DOMAIN y.parts : y.before <= y.parts[i] /\ y.parts[i] <= y.before
    BY DEF ReadInOrder, JobStates
  <1>2. \A i \in DOMAIN y.parts : y.parts[i] = y.before
    <2>1. \A i \in DOMAIN y.parts : y.parts[i] \in Nat
      BY <1>1, ElementOfSeq
    <2>2. QED
      BY <1>1, <2>1
  <1>3. 1 \in DOMAIN y.parts
    BY <1>1, ContentAssumption
  <1>4. QED
    BY <1>1, <1>2, <1>3 DEF ToSet

LEMMA CompareStep ==
    ASSUME ContentInv, NEW j \in Jobs, StatAfter(j) \/ ValidateContent(j)
    PROVE  ContentInv'
  <1>1. PICK y \in JobStates : y = job[j]
    BY OwnJob
  <1>2. y.pc \in {"read", "put"} /\ UNCHANGED << onDisk, indexed, body, shown, jobs >>
    BY <1>1 DEF StatAfter, ValidateContent
  <1>3. CASE ~UnchangedSince(j)
    <2>1. job' = [job EXCEPT ![j] = Skipped(j)]
      BY <1>3 DEF StatAfter, ValidateContent, Become
    <2>2. QED
      BY <1>1, <1>2, <2>1, OwnJob, SkippedFits, JobMoves
  <1>4. CASE UnchangedSince(j)
    <2>1. PICK pc \in {"put", "store"} :
            /\ job' = [job EXCEPT ![j] = [y EXCEPT !.pc = pc]]
            /\ y.pc = "read" => Len(y.parts) = ReadsPerFile
      BY <1>1, <1>4 DEF StatAfter, ValidateContent, Become
    <2>2. y.path \in Documents /\ ToSet(y.parts) = {y.before}
      <3>1. CASE y.pc = "put"
        BY <1>1, <3>1, OwnJob DEF ReadInOrder
      <3>2. CASE y.pc = "read"
        BY <1>1, <1>4, <2>1, <3>2, OwnJob, UnchangedParts DEF UnchangedSince
      <3>3. QED
        BY <1>2, <3>1, <3>2
    <2>3. PICK x : x = [y EXCEPT !.pc = pc]
      OBVIOUS
    <2>4. /\ x \in JobStates /\ x.pc = pc /\ x.id = y.id /\ x.cancelled = y.cancelled
          /\ x.displaced = y.displaced /\ x.path = y.path /\ x.before = y.before /\ x.parts = y.parts
      BY <2>3 DEF JobStates
    <2>5. ReadInOrder(x)
      BY <2>2, <2>4 DEF ReadInOrder
    <2>6. QED
      BY <1>1, <1>2, <2>1, <2>3, <2>4, <2>5, OwnJob, JobMoves
  <1>5. QED
    BY <1>3, <1>4

LEMMA StoreContentStep ==
    ASSUME ContentInv, NEW j \in Jobs, StoreContent(j)
    PROVE  ContentInv'
  <1>1. PICK y \in JobStates : y = job[j]
    BY OwnJob
  <1>2. PICK stored : stored = [parts |-> ToSet(y.parts), version |-> y.before]
    OBVIOUS
  <1>3. /\ y.pc = "store" /\ UNCHANGED << onDisk, indexed, shown, jobs >>
        /\ job' = [job EXCEPT ![j] = Skipped(j)]
        /\ body' = [body EXCEPT ![y.path] = stored]
    BY <1>1, <1>2 DEF StoreContent, Become
  <1>4. y.path \in Documents /\ ToSet(y.parts) = {y.before} /\ y.before \in Nat
    BY <1>1, <1>3, OwnJob DEF ReadInOrder, JobStates
  <1>5. stored \in Stored /\ stored.parts = {stored.version}
    BY <1>2, <1>4 DEF Stored
  <1>6. body' \in [Documents -> Stored \cup {NoBody}] /\ OneVersion(body')
    BY <1>3, <1>4, <1>5, OwnJob DEF OneVersion
  <1>7. QED
    BY <1>1, <1>3, <1>6, OwnJob, SkippedFits, JobMoves

-----------------------------------------------------------------------------
(* Content jobs: who can still cancel whom. *)

\* What the requests leave alone.
LEMMA JobsChange ==
    ASSUME ContentInv, UNCHANGED << onDisk, indexed, body, shown >>,
           job' \in [Jobs -> JobStates], \A k \in Jobs : ReadInOrder(job'[k]),
           jobs' \in [JobIds -> Jobs \cup {NoJob}], Registered', JobsStayCancellable'
    PROVE  ContentInv'
  <1>1. ContentTypeOK'
    BY DEF ContentInv, ContentTypeOK
  <1>2. \A k \in Jobs : ReadInOrder(job[k])'
    BY DEF ReadInOrder
  <1>3. QED
    BY <1>1, <1>2 DEF ContentInv, OneVersion

LEMMA CancelledFits ==
    ASSUME NEW y \in JobStates, ReadInOrder(y)
    PROVE  /\ Cancelled(y) \in JobStates /\ ReadInOrder(Cancelled(y)) /\ Cancelled(y).cancelled
           /\ Cancelled(y).pc = y.pc /\ Cancelled(y).id = y.id /\ Cancelled(y).displaced = y.displaced
  <1>1. /\ Cancelled(y) \in JobStates /\ Cancelled(y).cancelled
        /\ Cancelled(y).pc = y.pc /\ Cancelled(y).id = y.id /\ Cancelled(y).displaced = y.displaced
        /\ Cancelled(y).path = y.path /\ Cancelled(y).before = y.before /\ Cancelled(y).parts = y.parts
    BY DEF Cancelled, JobStates
  <1>2. QED
    BY <1>1 DEF ReadInOrder

LEMMA NewJobFits ==
    /\ NewJob \in JobStates /\ NewJob.pc = "none" /\ NewJob.displaced = NoJob
    /\ NewJob.cancelled = FALSE /\ NewJob.id = NoJob
  <1>1. << >> \in Seq(Nat)
    OBVIOUS
  <1>2. QED
    BY <1>1 DEF NewJob, JobStates

LEMMA RequestIndexStep ==
    ASSUME ContentInv, NEW i \in JobIds, RequestIndex(i)
    PROVE  ContentInv'
  <1>1. ContentTypeOK /\ Registered /\ JobsStayCancellable
    BY DEF ContentInv
  <1>2. PICK old \in Jobs \cup {NoJob} : old = jobs[i]
    BY <1>1 DEF ContentTypeOK
  <1>3. PICK j \in Jobs :
          /\ job[j].pc = "none"
          /\ job' = [job EXCEPT ![j] = [NewJob EXCEPT !.pc = "displace", !.id = i, !.kind = "index",
                                                      !.displaced = old]]
          /\ jobs' = [jobs EXCEPT ![i] = j]
          /\ UNCHANGED << onDisk, indexed, body, shown >>
    BY <1>2 DEF RequestIndex, Fresh, Become
  <1>4. PICK x : x = [NewJob EXCEPT !.pc = "displace", !.id = i, !.kind = "index", !.displaced = old]
    OBVIOUS
  <1>5. x \in JobStates /\ x.pc = "displace" /\ x.id = i /\ x.displaced = old
    BY <1>4, NewJobFits DEF JobStates
  <1>6. ReadInOrder(x)
    BY <1>5 DEF ReadInOrder
  <1>7. /\ job' \in [Jobs -> JobStates] /\ job'[j] = x /\ \A k \in Jobs : k # j => job'[k] = job[k]
        /\ jobs' \in [JobIds -> Jobs \cup {NoJob}] /\ jobs'[i] = j
        /\ \A h \in JobIds : h # i => jobs'[h] = jobs[h]
    BY <1>1, <1>3, <1>4, <1>5 DEF ContentTypeOK
  <1>8. \A k \in Jobs : ReadInOrder(job'[k])
    BY <1>6, <1>7 DEF ContentInv
  <1>9. /\ old # j /\ \A h \in JobIds : jobs[h] # j
        /\ \A k \in Jobs : job[k].displaced = j => k # j
    BY <1>1, <1>2, <1>3, ContentAssumption DEF Registered
  <1>10. Registered'
    <2>1. ASSUME NEW h \in JobIds, jobs'[h] # NoJob
          PROVE  job'[jobs'[h]].pc \notin {"none", "done"} /\ job'[jobs'[h]].id = h
      <3>1. CASE h = i
        BY <1>5, <1>7, <3>1
      <3>2. CASE h # i
        <4>1. jobs'[h] = jobs[h] /\ jobs[h] # j /\ jobs[h] \in Jobs
          BY <1>1, <1>7, <1>9, <2>1, <3>2 DEF ContentTypeOK
        <4>2. QED
          BY <1>1, <1>7, <2>1, <4>1 DEF Registered
      <3>3. QED
        BY <3>1, <3>2
    <2>2. \A k \in Jobs : /\ job'[k].pc # "none" => job'[k].id \in JobIds
                          /\ job'[k].pc = "none" => job'[k].displaced = NoJob
                          /\ job'[k].displaced # k
      BY <1>1, <1>5, <1>7, <1>9 DEF Registered
    <2>3. QED
      BY <2>1, <2>2 DEF Registered
  <1>11. JobsStayCancellable'
    <2>1. SUFFICES ASSUME NEW k \in Jobs, job'[k].pc \notin {"none", "done"}
                   PROVE  \/ jobs'[job'[k].id] = k \/ job'[k].cancelled
                          \/ \E m \in Jobs : job'[m].displaced = k
      BY DEF JobsStayCancellable
    <2>2. CASE k = j
      BY <1>5, <1>7, <2>2
    <2>3. CASE k # j
      <3>1. job'[k] = job[k] /\ job[k].id \in JobIds
        BY <1>1, <1>7, <2>1, <2>3 DEF Registered
      <3>2. CASE jobs[job[k].id] = k
        BY <1>2, <1>5, <1>7, <3>1, <3>2
      <3>3. ASSUME NEW m \in Jobs, job[m].displaced = k
            PROVE  job'[m].displaced = k
        <4>1. m # j
          BY <1>1, <1>3, <3>3, ContentAssumption DEF Registered
        <4>2. QED
          BY <1>7, <3>3, <4>1
      <3>4. QED
        BY <1>1, <2>1, <3>1, <3>2, <3>3 DEF JobsStayCancellable
    <2>4. QED
      BY <2>2, <2>3
  <1>12. QED
    BY <1>3, <1>7, <1>8, <1>10, <1>11, JobsChange

LEMMA RequestQueryStep ==
    ASSUME ContentInv, NEW i \in JobIds, RequestQuery(i)
    PROVE  ContentInv'
  <1>1. ContentTypeOK /\ Registered /\ JobsStayCancellable
    BY DEF ContentInv
  <1>2. PICK old \in Jobs \cup {NoJob} : old = jobs[i]
    BY <1>1 DEF ContentTypeOK
  <1>3. PICK x : x = [NewJob EXCEPT !.pc = "queued", !.id = i, !.kind = "query"]
    OBVIOUS
  <1>4. PICK j \in Jobs :
          /\ job[j].pc = "none"
          /\ job' = [k \in Jobs |-> IF k = j THEN x ELSE IF k = old THEN Cancelled(job[k]) ELSE job[k]]
          /\ jobs' = [jobs EXCEPT ![i] = j]
          /\ UNCHANGED << onDisk, indexed, body, shown >>
    BY <1>2, <1>3 DEF RequestQuery, Fresh
  <1>5. x \in JobStates /\ x.pc = "queued" /\ x.id = i /\ x.displaced = NoJob
    BY <1>3, NewJobFits DEF JobStates
  <1>6. ReadInOrder(x)
    BY <1>5 DEF ReadInOrder
  <1>7. old # j /\ \A h \in JobIds : jobs[h] # j
    BY <1>1, <1>2, <1>4, ContentAssumption DEF Registered
  <1>8. ASSUME NEW k \in Jobs, k # j
        PROVE  /\ job'[k] \in JobStates /\ ReadInOrder(job'[k]) /\ job'[k].pc = job[k].pc
               /\ job'[k].id = job[k].id /\ job'[k].displaced = job[k].displaced
               /\ job[k].cancelled => job'[k].cancelled
               /\ k = old => job'[k].cancelled
    <2>1. job'[k] = IF k = old THEN Cancelled(job[k]) ELSE job[k]
      BY <1>4, <1>8
    <2>2. job[k] \in JobStates /\ ReadInOrder(job[k])
      BY OwnJob
    <2>3. QED
      BY <2>1, <2>2, CancelledFits
  <1>9. job'[j] = x
    BY <1>4
  <1>10. job' \in [Jobs -> JobStates] /\ \A k \in Jobs : ReadInOrder(job'[k])
    <2>1. \A k \in Jobs : job'[k] \in JobStates /\ ReadInOrder(job'[k])
      BY <1>5, <1>6, <1>8, <1>9
    <2>2. job' = [k \in Jobs |-> job'[k]]
      BY <1>4
    <2>3. QED
      BY <2>1, <2>2
  <1>11. /\ jobs' \in [JobIds -> Jobs \cup {NoJob}] /\ jobs'[i] = j
         /\ \A h \in JobIds : h # i => jobs'[h] = jobs[h]
    BY <1>1, <1>4 DEF ContentTypeOK
  <1>12. Registered'
    <2>1. ASSUME NEW h \in JobIds, jobs'[h] # NoJob
          PROVE  job'[jobs'[h]].pc \notin {"none", "done"} /\ job'[jobs'[h]].id = h
      <3>1. CASE h = i
        BY <1>5, <1>9, <1>11, <3>1
      <3>2. CASE h # i
        <4>1. jobs'[h] = jobs[h] /\ jobs[h] # j /\ jobs[h] \in Jobs
          BY <1>1, <1>7, <1>11, <2>1, <3>2 DEF ContentTypeOK
        <4>2. QED
          BY <1>1, <1>8, <2>1, <4>1 DEF Registered
      <3>3. QED
        BY <3>1, <3>2
    <2>2. \A k \in Jobs : /\ job'[k].pc # "none" => job'[k].id \in JobIds
                          /\ job'[k].pc = "none" => job'[k].displaced = NoJob
                          /\ job'[k].displaced # k
      BY <1>1, <1>5, <1>8, <1>9, ContentAssumption DEF Registered
    <2>3. QED
      BY <2>1, <2>2 DEF Registered
  <1>13. JobsStayCancellable'
    <2>1. SUFFICES ASSUME NEW k \in Jobs, job'[k].pc \notin {"none", "done"}
                   PROVE  \/ jobs'[job'[k].id] = k \/ job'[k].cancelled
                          \/ \E m \in Jobs : job'[m].displaced = k
      BY DEF JobsStayCancellable
    <2>2. CASE k = j
      BY <1>5, <1>9, <1>11, <2>2
    <2>3. CASE k # j
      <3>1. /\ job'[k].id = job[k].id /\ job[k].id \in JobIds /\ job'[k].pc = job[k].pc
            /\ job[k].cancelled => job'[k].cancelled
            /\ k = old => job'[k].cancelled
        BY <1>1, <1>8, <2>1, <2>3 DEF Registered
      <3>2. CASE jobs[job[k].id] = k
        BY <1>2, <1>11, <3>1, <3>2
      <3>3. ASSUME NEW m \in Jobs, job[m].displaced = k
            PROVE  job'[m].displaced = k
        <4>1. m # j
          BY <1>1, <1>4, <3>3, ContentAssumption DEF Registered
        <4>2. QED
          BY <1>8, <3>3, <4>1
      <3>4. QED
        BY <1>1, <2>1, <3>1, <3>2, <3>3 DEF JobsStayCancellable
    <2>4. QED
      BY <2>2, <2>3
  <1>14. QED
    BY <1>4, <1>10, <1>11, <1>12, <1>13, JobsChange

LEMMA CancelDisplacedStep ==
    ASSUME ContentInv, NEW j \in Jobs, CancelDisplaced(j)
    PROVE  ContentInv'
  <1>1. ContentTypeOK /\ Registered /\ JobsStayCancellable
    BY DEF ContentInv
  <1>2. PICK y \in JobStates : y = job[j]
    BY OwnJob
  <1>3. PICK x : x = [y EXCEPT !.pc = "queued", !.displaced = NoJob]
    OBVIOUS
  <1>4. /\ y.pc = "displace" /\ UNCHANGED << onDisk, indexed, body, shown, jobs >>
        /\ job' = [k \in Jobs |-> IF k = j THEN x
                                  ELSE IF k = y.displaced THEN Cancelled(job[k]) ELSE job[k]]
    BY <1>2, <1>3 DEF CancelDisplaced
  <1>5. /\ x \in JobStates /\ x.pc = "queued" /\ x.id = y.id /\ x.displaced = NoJob
        /\ x.cancelled = y.cancelled
    BY <1>3 DEF JobStates
  <1>6. ReadInOrder(x)
    BY <1>5 DEF ReadInOrder
  <1>7. ASSUME NEW k \in Jobs, k # j
        PROVE  /\ job'[k] \in JobStates /\ ReadInOrder(job'[k]) /\ job'[k].pc = job[k].pc
               /\ job'[k].id = job[k].id /\ job'[k].displaced = job[k].displaced
               /\ job[k].cancelled => job'[k].cancelled
               /\ k = y.displaced => job'[k].cancelled
    <2>1. job'[k] = IF k = y.displaced THEN Cancelled(job[k]) ELSE job[k]
      BY <1>4, <1>7
    <2>2. job[k] \in JobStates /\ ReadInOrder(job[k])
      BY OwnJob
    <2>3. QED
      BY <2>1, <2>2, CancelledFits
  <1>8. job'[j] = x
    BY <1>4
  <1>9. job' \in [Jobs -> JobStates] /\ \A k \in Jobs : ReadInOrder(job'[k])
    <2>1. \A k \in Jobs : job'[k] \in JobStates /\ ReadInOrder(job'[k])
      BY <1>5, <1>6, <1>7, <1>8
    <2>2. job' = [k \in Jobs |-> job'[k]]
      BY <1>4
    <2>3. QED
      BY <2>1, <2>2
  <1>10. \A k \in Jobs : /\ job'[k].id = job[k].id
                         /\ job'[k].pc \in {"none", "done"} <=> job[k].pc \in {"none", "done"}
                         /\ job'[k].pc = "none" <=> job[k].pc = "none"
                         /\ job[k].cancelled => job'[k].cancelled
    BY <1>2, <1>4, <1>5, <1>7, <1>8
  <1>11. Registered'
    <2>1. \A k \in Jobs : /\ job'[k].pc = "none" => job'[k].displaced = NoJob
                          /\ job'[k].displaced # k
      BY <1>1, <1>5, <1>7, <1>8, ContentAssumption DEF Registered
    <2>2. \A h \in JobIds : jobs[h] # NoJob =>
            job'[jobs[h]].pc \notin {"none", "done"} /\ job'[jobs[h]].id = h
      BY <1>1, <1>10 DEF Registered, ContentTypeOK
    <2>3. \A k \in Jobs : job'[k].pc # "none" => job'[k].id \in JobIds
      BY <1>1, <1>10 DEF Registered
    <2>4. QED
      BY <1>4, <2>1, <2>2, <2>3 DEF Registered
  <1>12. JobsStayCancellable'
    <2>1. SUFFICES ASSUME NEW k \in Jobs, job[k].pc \notin {"none", "done"}
                   PROVE  \/ jobs[job[k].id] = k \/ job'[k].cancelled
                          \/ \E m \in Jobs : job'[m].displaced = k
      BY <1>4, <1>10 DEF JobsStayCancellable
    <2>2. ASSUME NEW m \in Jobs, job[m].displaced = k
          PROVE  job'[k].cancelled \/ job'[m].displaced = k
      <3>1. CASE m = j
        <4>1. k # j
          BY <1>1, <2>2, <3>1 DEF Registered
        <4>2. QED
          BY <1>2, <1>7, <2>2, <3>1, <4>1
      <3>2. CASE m # j
        BY <1>7, <2>2, <3>2
      <3>3. QED
        BY <3>1, <3>2
    <2>3. QED
      BY <1>1, <1>10, <2>1, <2>2 DEF JobsStayCancellable
  <1>13. QED
    BY <1>1, <1>4, <1>9, <1>11, <1>12, JobsChange DEF ContentTypeOK

LEMMA CancelJobsStep ==
    ASSUME ContentInv, NEW ids \in SUBSET JobIds, CancelJobs(ids)
    PROVE  ContentInv'
  <1>1. ContentTypeOK /\ Registered /\ JobsStayCancellable
        /\ UNCHANGED << onDisk, indexed, body, shown, jobs >>
    BY DEF ContentInv, CancelJobs
  <1>2. ASSUME NEW k \in Jobs
        PROVE  /\ job'[k] \in JobStates /\ ReadInOrder(job'[k]) /\ job'[k].pc = job[k].pc
               /\ job'[k].id = job[k].id /\ job'[k].displaced = job[k].displaced
               /\ job[k].cancelled => job'[k].cancelled
    <2>1. job'[k] = IF \E i \in ids : jobs[i] = k THEN Cancelled(job[k]) ELSE job[k]
      BY DEF CancelJobs
    <2>2. job[k] \in JobStates /\ ReadInOrder(job[k])
      BY OwnJob
    <2>3. job'[k] = Cancelled(job[k]) \/ job'[k] = job[k]
      BY <2>1
    <2>4. QED
      BY <2>2, <2>3, CancelledFits
  <1>3. job' \in [Jobs -> JobStates] /\ \A k \in Jobs : ReadInOrder(job'[k])
    <2>1. job' = [k \in Jobs |-> job'[k]]
      BY DEF CancelJobs
    <2>2. QED
      BY <1>2, <2>1
  <1>4. Registered'
    <2>1. \A h \in JobIds : jobs[h] # NoJob =>
            job'[jobs[h]].pc \notin {"none", "done"} /\ job'[jobs[h]].id = h
      BY <1>1, <1>2 DEF Registered, ContentTypeOK
    <2>2. QED
      BY <1>1, <1>2, <2>1 DEF Registered
  <1>5. JobsStayCancellable'
    BY <1>1, <1>2 DEF JobsStayCancellable
  <1>6. QED
    BY <1>1, <1>3, <1>4, <1>5, JobsChange DEF ContentTypeOK

LEMMA ReplyJobStep ==
    ASSUME ContentInv, NEW j \in Jobs, ReplyJob(j)
    PROVE  ContentInv'
  <1>1. ContentTypeOK /\ Registered /\ JobsStayCancellable
    BY DEF ContentInv
  <1>2. PICK y \in JobStates : y = job[j]
    BY OwnJob
  <1>3. PICK x : x = [y EXCEPT !.pc = "done"]
    OBVIOUS
  <1>4. /\ y.pc = "reply" /\ UNCHANGED << onDisk, indexed, body, shown >>
        /\ job' = [job EXCEPT ![j] = x]
        /\ jobs' = IF jobs[y.id] = j THEN [jobs EXCEPT ![y.id] = NoJob] ELSE jobs
    BY <1>2, <1>3 DEF ReplyJob, Become
  <1>5. x \in JobStates /\ x.pc = "done" /\ x.id = y.id /\ x.displaced = y.displaced
    BY <1>3 DEF JobStates
  <1>6. ReadInOrder(x)
    BY <1>5 DEF ReadInOrder
  <1>7. /\ job' \in [Jobs -> JobStates] /\ job'[j] = x /\ \A k \in Jobs : k # j => job'[k] = job[k]
        /\ y.id \in JobIds
    BY <1>1, <1>2, <1>4, <1>5 DEF ContentTypeOK, Registered
  <1>8. \A k \in Jobs : ReadInOrder(job'[k])
    BY <1>6, <1>7 DEF ContentInv
  <1>9. /\ jobs' \in [JobIds -> Jobs \cup {NoJob}] /\ \A h \in JobIds : jobs'[h] # j
        /\ \A h \in JobIds : jobs[h] # j => jobs'[h] = jobs[h]
        /\ \A h \in JobIds : jobs'[h] = jobs[h] \/ jobs'[h] = NoJob
    <2>1. \A h \in JobIds : jobs[h] = j => h = y.id
      BY <1>1, <1>2, ContentAssumption DEF Registered
    <2>2. CASE jobs[y.id] = j
      BY <1>1, <1>4, <1>7, <2>1, <2>2, ContentAssumption DEF ContentTypeOK
    <2>3. CASE jobs[y.id] # j
      BY <1>1, <1>4, <1>7, <2>1, <2>3 DEF ContentTypeOK
    <2>4. QED
      BY <2>2, <2>3
  <1>10. Registered'
    <2>1. ASSUME NEW h \in JobIds, jobs'[h] # NoJob
          PROVE  job'[jobs'[h]].pc \notin {"none", "done"} /\ job'[jobs'[h]].id = h
      <3>1. jobs'[h] = jobs[h] /\ jobs[h] # j /\ jobs[h] \in Jobs
        BY <1>1, <1>9, <2>1 DEF ContentTypeOK
      <3>2. QED
        BY <1>1, <1>7, <2>1, <3>1 DEF Registered
    <2>2. \A k \in Jobs : /\ job'[k].pc # "none" => job'[k].id \in JobIds
                          /\ job'[k].pc = "none" => job'[k].displaced = NoJob
                          /\ job'[k].displaced # k
      BY <1>1, <1>2, <1>5, <1>7 DEF Registered
    <2>3. QED
      BY <2>1, <2>2 DEF Registered
  <1>11. JobsStayCancellable'
    <2>1. SUFFICES ASSUME NEW k \in Jobs, job'[k].pc \notin {"none", "done"}
                   PROVE  \/ jobs'[job'[k].id] = k \/ job'[k].cancelled
                          \/ \E m \in Jobs : job'[m].displaced = k
      BY DEF JobsStayCancellable
    <2>2. k # j /\ job'[k] = job[k] /\ job[k].id \in JobIds
      BY <1>1, <1>5, <1>7, <2>1 DEF Registered
    <2>3. \A m \in Jobs : job'[m].displaced = job[m].displaced
      BY <1>2, <1>5, <1>7
    <2>4. jobs[job[k].id] = k => jobs'[job[k].id] = k
      BY <1>9, <2>2
    <2>5. QED
      BY <1>1, <2>1, <2>2, <2>3, <2>4 DEF JobsStayCancellable
  <1>12. QED
    BY <1>4, <1>7, <1>8, <1>9, <1>10, <1>11, JobsChange

LEMMA ContentInitHolds ==
    ASSUME ContentInit
    PROVE  ContentInv
  <1>1. /\ onDisk \in [Documents -> Nat] /\ indexed \in [Documents -> Nat]
        /\ body = [d \in Documents |-> NoBody]
    BY DEF ContentInit
  <1>2. body \in [Documents -> Stored \cup {NoBody}] /\ OneVersion(body)
    BY <1>1 DEF OneVersion
  <1>3. /\ shown \in [rows : [Documents -> Nat], bodies : [Documents -> Stored \cup {NoBody}]]
        /\ shown.bodies = body
    BY <1>1, <1>2 DEF ContentInit, CurrentContent
  <1>4. /\ job \in [Jobs -> JobStates] /\ \A j \in Jobs : job[j] = NewJob
        /\ jobs \in [JobIds -> Jobs \cup {NoJob}] /\ \A i \in JobIds : jobs[i] = NoJob
    BY NewJobFits DEF ContentInit
  <1>5. ContentTypeOK
    BY <1>1, <1>2, <1>3, <1>4 DEF ContentTypeOK
  <1>6. \A j \in Jobs : ReadInOrder(job[j])
    BY <1>4, NewJobFits DEF ReadInOrder
  <1>7. Registered /\ JobsStayCancellable
    BY <1>4, NewJobFits, ContentAssumption DEF Registered, JobsStayCancellable
  <1>8. QED
    BY <1>2, <1>3, <1>5, <1>6, <1>7 DEF ContentInv

\* The inductive invariant of content extraction, for any number of documents,
\* jobs and reads per file.
THEOREM ContentInvariant == ContentSpec => []ContentInv
  <1>1. ContentInit => ContentInv
    BY ContentInitHolds
  <1>2. ASSUME ContentInv, ContentNext PROVE ContentInv'
    <2>1. CASE \/ \E d \in Documents : SaveDocument(d) \/ CommitRow(d)
               \/ PublishSnapshot
      BY <1>2, <2>1, SaveAndCommitStep
    <2>2. CASE \/ \E i \in JobIds : RequestIndex(i) \/ RequestQuery(i) \/ CancelJobs({i})
               \/ CancelJobs(JobIds)
      <3>1. \A i \in JobIds : {i} \in SUBSET JobIds
        OBVIOUS
      <3>2. JobIds \in SUBSET JobIds
        OBVIOUS
      <3>3. QED
        BY <1>2, <2>2, <3>1, <3>2, RequestIndexStep, RequestQueryStep, CancelJobsStep
    <2>3. ASSUME NEW j \in Jobs,
                 \/ CancelDisplaced(j) \/ StartJob(j) \/ EndLoop(j) \/ ReadPart(j) \/ SkipFile(j)
                 \/ StatAfter(j) \/ ValidateContent(j) \/ StoreContent(j) \/ EndJob(j) \/ ReplyJob(j)
                 \/ \E d \in Documents : StatBefore(j, d)
          PROVE  ContentInv'
      BY <1>2, <2>3, CancelDisplacedStep, LoopStep, ReadPartStep, CompareStep, StoreContentStep,
         ReplyJobStep, StatBeforeStep
    <2>4. QED
      BY <1>2, <2>1, <2>2, <2>3 DEF ContentNext
  <1>3. ASSUME ContentInv, UNCHANGED contentVars PROVE ContentInv'
    <2>1. /\ UNCHANGED << onDisk, indexed, body, shown, job, jobs >>
          /\ \A d \in Documents : onDisk[d] \in Nat
      BY <1>3 DEF contentVars, ContentInv, ContentTypeOK
    <2>2. QED
      BY <1>3, <2>1, RowsChange DEF ContentInv, ContentTypeOK
  <1>4. QED
    BY <1>1, <1>2, <1>3, PTL DEF ContentSpec

\* A stored body was read from one version of its file, however the file was
\* written while the parts were read; and a body that is served as current is
\* what the row's version held (extract, put_content, only_missing).
THEOREM BodiesAreOfOneVersion == ContentSpec => []ContentIsOfOneVersion
  <1>1. ContentInv => ContentIsOfOneVersion
    BY DEF ContentInv, OneVersion, ContentIsOfOneVersion, Missing
  <1>2. QED
    BY <1>1, ContentInvariant, PTL

\* Whatever ids the requests reuse and however late the others end, a job at
\* work can be cancelled, or was, or is about to be (contentJobs).
THEOREM JobsAreCancellable == ContentSpec => []JobsStayCancellable
  BY ContentInvariant, PTL DEF ContentInv

-----------------------------------------------------------------------------
(* Scratch buffers. *)

\* Only the four steps on the pool and its epoch matter to it.
LEMMA PoolStep ==
    ASSUME PoolInv, CacheNext
    PROVE  PoolInv'
  <1>1. CASE UNCHANGED <<pool, epoch, scratch>> /\ clearing' # "epoch" /\ clearing # "epoch"
    BY <1>1 DEF PoolInv
  <1>2. CASE UNCHANGED <<pool, epoch, scratch, clearing>>
    BY <1>2 DEF PoolInv
  <1>3. CASE ClearEntries
    BY <1>1, <1>3 DEF ClearEntries
  <1>4. CASE ClearScratch
    <2>1. CASE AdvanceEpoch("entries", "epoch")
      BY <2>1 DEF AdvanceEpoch, PoolInv
    <2>2. CASE ClearPool("epoch", "no")
      BY <2>2 DEF ClearPool, PoolInv
    <2>3. QED
      BY <1>4, <2>1, <2>2 DEF ClearScratch
  <1>5. ASSUME NEW b \in Buffers, Acquire(b) PROVE PoolInv'
    <2>1. PICK e \in 1 .. epoch : scratch' = [scratch EXCEPT ![b] = e]
      BY <1>5 DEF Acquire
    <2>2. UNCHANGED <<epoch, clearing>> /\ (pool' = pool \/ (pool # <<>> /\ pool' = Front(pool)))
      BY <1>5 DEF Acquire
    <2>3. scratch' \in [Buffers -> Nat]
      BY <2>1 DEF PoolInv
    <2>4. pool' \in Seq(Nat) /\ \A i \in DOMAIN pool' : i \in DOMAIN pool /\ pool'[i] = pool[i]
      <3>1. CASE pool' = pool
        BY <3>1 DEF PoolInv
      <3>2. CASE pool # <<>> /\ pool' = Front(pool)
        <4>1. pool \in Seq(Nat)
          BY DEF PoolInv
        <4>2. Front(pool) = SubSeq(pool, 1, Len(pool) - 1)
          BY DEF Front
        <4>3. Len(pool) \in Nat \ {0}
          BY <3>2, <4>1
        <4>4. QED
          BY <3>2, <4>1, <4>2, <4>3, SMTT(40)
      <3>3. QED
        BY <2>2, <3>1, <3>2
    <2>5. QED
      BY <2>2, <2>3, <2>4 DEF PoolInv
  <1>6. ASSUME NEW b \in Buffers, Drop(b) PROVE PoolInv'
    <2>1. /\ UNCHANGED <<epoch, clearing>> /\ scratch' = [scratch EXCEPT ![b] = Unused]
          /\ pool' = pool \/ (scratch[b] = epoch /\ pool' = Append(pool, epoch))
      BY <1>6 DEF Drop
    <2>2. scratch' \in [Buffers -> Nat] /\ pool \in Seq(Nat) /\ epoch \in Nat
      BY <2>1 DEF PoolInv, Unused
    <2>3. CASE pool' = pool
      BY <2>1, <2>2, <2>3 DEF PoolInv
    <2>4. CASE pool' = Append(pool, epoch)
      <3>1. /\ pool' \in Seq(Nat) /\ Len(pool') = Len(pool) + 1 /\ pool'[Len(pool) + 1] = epoch
            /\ \A i \in 1 .. Len(pool) : pool'[i] = pool[i]
        BY <2>2, <2>4, AppendProperties
      <3>2. clearing # "epoch" => \A i \in DOMAIN pool' : pool'[i] = epoch
        <4>1. ASSUME clearing # "epoch", NEW i \in DOMAIN pool' PROVE pool'[i] = epoch
          <5>1. i \in DOMAIN pool \/ i = Len(pool) + 1
            BY <2>2, <3>1
          <5>2. \A m \in DOMAIN pool : pool[m] = epoch
            BY <4>1 DEF PoolInv
          <5>3. DOMAIN pool = 1 .. Len(pool)
            BY <2>2
          <5>4. QED
            BY <3>1, <5>1, <5>2, <5>3
        <4>2. QED
          BY <4>1
      <3>3. QED
        BY <2>1, <2>2, <3>1, <3>2 DEF PoolInv
    <2>5. QED
      BY <2>1, <2>3, <2>4
  <1>7. ASSUME NEW k \in CacheKeys, Hit(k) \/ \E p \in Products : Insert(k, p) PROVE PoolInv'
    BY <1>2, <1>7 DEF Hit, Insert
  <1>8. CASE ChooseVictim \/ PopVictim \/ InsertDone
    BY <1>2, <1>8 DEF ChooseVictim, PopVictim, InsertDone
  <1>9. ASSUME NEW o, RemoveOwner(o) PROVE PoolInv'
    BY <1>2, <1>9 DEF RemoveOwner
  <1>10. QED
    BY <1>3, <1>4, <1>5, <1>6, <1>7, <1>8, <1>9 DEF CacheNext

\* A retained buffer is of the current epoch unless the pool is being emptied.
THEOREM PoolInvariant == CacheSpec => []PoolInv
  <1>1. CacheInit => PoolInv
    BY DEF CacheInit, PoolInv, Unused
  <1>2. ASSUME PoolInv, UNCHANGED cacheVars PROVE PoolInv'
    BY <1>2 DEF PoolInv, cacheVars
  <1>3. QED
    BY <1>1, <1>2, PoolStep, PTL DEF CacheSpec

\* Once memory pressure was handled no buffer taken before it stays retained,
\* although threads return theirs while the pool is emptied (query_scratch::clear).
THEOREM PressureIsHandled == CacheSpec => []PressureReleasesBuffers
  <1>1. PoolInv => PressureReleasesBuffers
    BY DEF PoolInv, PressureReleasesBuffers
  <1>2. QED
    BY <1>1, PoolInvariant, PTL

-----------------------------------------------------------------------------
(* File lists. *)

\* Appending a batch with the offset of the rows before it gives the table of
\* the longer list.
LEMMA TableOfAppended ==
    ASSUME NEW s \in Seq(ListedPaths), NEW b \in Seq(ListedPaths)
    PROVE  Table(s \o b) = InsertRows(Table(s), b, Len(s))
  <1> DEFINE t == s \o b
  <1>1. /\ t \in Seq(ListedPaths) /\ DOMAIN t = 1 .. (Len(s) + Len(b))
        /\ \A i \in 1 .. Len(s) : t[i] = s[i]
        /\ \A k \in 1 .. Len(b) : t[Len(s) + k] = b[k]
    OBVIOUS
  <1>2. DOMAIN s = 1 .. Len(s) /\ DOMAIN b = 1 .. Len(b) /\ Len(s) \in Nat /\ Len(b) \in Nat
    OBVIOUS
  <1>3. PICK n \in Nat, m \in Nat : n = Len(s) /\ m = Len(b)
    BY <1>2
  <1> HIDE DEF t
  <1>4. ASSUME NEW i \in Lasts(t) PROVE <<t[i], i>> \in InsertRows(Table(s), b, n)
    <2>1. i \in 1 .. (n + m) /\ \A j \in 1 .. (n + m) : t[j] = t[i] => j <= i
      BY <1>1, <1>3, <1>4 DEF Lasts
    <2>2. CASE i <= n
      <3>1. i \in 1 .. n /\ t[i] = s[i]
        BY <1>1, <1>3, <2>1, <2>2
      <3>2. \A j \in 1 .. n : s[j] = s[i] => j <= i
        BY <1>1, <1>3, <2>1, <3>1
      <3>3. i \in Lasts(s)
        BY <1>2, <1>3, <3>1, <3>2 DEF Lasts
      <3>4. s[i] \notin ToSet(b)
        <4>0. ToSet(b) = {b[k] : k \in 1 .. m}
          BY <1>2, <1>3 DEF ToSet
        <4>1. SUFFICES ASSUME NEW k \in 1 .. m, b[k] = s[i] PROVE FALSE
          BY <4>0
        <4>2. n + k \in 1 .. (n + m) /\ t[n + k] = t[i]
          BY <1>1, <1>3, <3>1, <4>1
        <4>3. n + k <= i
          BY <2>1, <4>2
        <4>4. QED
          BY <2>1, <2>2, <4>1, <4>3
      <3>5. <<s[i], i>> \in Table(s) /\ <<s[i], i>>[1] = s[i]
        BY <3>3 DEF Table
      <3>6. QED
        BY <3>1, <3>4, <3>5 DEF InsertRows
    <2>3. CASE ~(i <= n)
      <3>1. PICK k \in 1 .. m : i = n + k
        <4>1. i - n \in 1 .. m /\ i = n + (i - n)
          BY <2>1, <2>3
        <4>2. QED
          BY <4>1
      <3>2. t[i] = b[k]
        BY <1>1, <1>3, <3>1
      <3>3. \A j \in 1 .. m : b[j] = b[k] => j <= k
        <4>1. SUFFICES ASSUME NEW j \in 1 .. m, b[j] = b[k] PROVE j <= k
          OBVIOUS
        <4>2. n + j \in 1 .. (n + m) /\ t[n + j] = t[i]
          BY <1>1, <1>3, <3>2, <4>1
        <4>3. n + j <= i
          BY <2>1, <4>2
        <4>4. QED
          BY <3>1, <4>3
      <3>4. k \in Lasts(b)
        BY <1>2, <1>3, <3>3 DEF Lasts
      <3>5. PICK r \in Table(b) : r = <<b[k], k>>
        BY <3>4 DEF Table
      <3>6. <<r[1], r[2] + n>> = <<t[i], i>>
        BY <3>1, <3>2, <3>5
      <3>7. QED
        BY <3>5, <3>6 DEF InsertRows
    <2>4. QED
      BY <2>2, <2>3
  <1>5. ASSUME NEW r \in Table(s), r[1] \notin ToSet(b) PROVE r \in Table(t)
    <2>1. PICK i \in Lasts(s) : r = <<s[i], i>>
      BY DEF Table
    <2>2. i \in 1 .. n /\ \A j \in 1 .. n : s[j] = s[i] => j <= i
      BY <1>2, <1>3 DEF Lasts
    <2>3. t[i] = s[i]
      BY <1>1, <1>3, <2>2
    <2>4. ASSUME NEW j \in 1 .. (n + m), t[j] = t[i] PROVE j <= i
      <3>1. CASE j <= n
        <4>1. j \in 1 .. n /\ t[j] = s[j]
          BY <1>1, <1>3, <3>1
        <4>2. QED
          BY <2>2, <2>3, <2>4, <4>1
      <3>2. CASE ~(j <= n)
        <4>1. PICK k \in 1 .. m : j = n + k
          <5>1. j - n \in 1 .. m /\ j = n + (j - n)
            BY <2>4, <3>2
          <5>2. QED
            BY <5>1
        <4>2. b[k] = s[i]
          BY <1>1, <1>3, <2>3, <2>4, <4>1
        <4>3. s[i] \in ToSet(b)
          BY <1>2, <1>3, <4>2 DEF ToSet
        <4>4. QED
          BY <1>5, <2>1, <4>3
      <3>3. QED
        BY <3>1, <3>2
    <2>5. i \in Lasts(t)
      BY <1>1, <1>3, <2>2, <2>4 DEF Lasts
    <2>6. QED
      BY <2>1, <2>3, <2>5 DEF Table
  <1>6. ASSUME NEW r \in Table(b) PROVE <<r[1], r[2] + n>> \in Table(t)
    <2>1. PICK k \in Lasts(b) : r = <<b[k], k>>
      BY DEF Table
    <2>2. k \in 1 .. m /\ \A j \in 1 .. m : b[j] = b[k] => j <= k
      BY <1>2, <1>3 DEF Lasts
    <2>3. PICK i \in 1 .. (n + m) : i = n + k
      BY <2>2
    <2>4. t[i] = b[k] /\ r[2] + n = i
      BY <1>1, <1>3, <2>1, <2>2, <2>3
    <2>5. ASSUME NEW j \in 1 .. (n + m), t[j] = t[i] PROVE j <= i
      <3>1. CASE j <= n
        BY <2>2, <2>3, <2>5, <3>1
      <3>2. CASE ~(j <= n)
        <4>1. PICK h \in 1 .. m : j = n + h
          <5>1. j - n \in 1 .. m /\ j = n + (j - n)
            BY <2>5, <3>2
          <5>2. QED
            BY <5>1
        <4>2. b[h] = b[k]
          BY <1>1, <1>3, <2>4, <2>5, <4>1
        <4>3. h <= k
          BY <2>2, <4>2
        <4>4. QED
          BY <2>2, <2>3, <4>1, <4>3
      <3>3. QED
        BY <3>1, <3>2
    <2>6. i \in Lasts(t)
      BY <1>1, <1>3, <2>5 DEF Lasts
    <2>7. <<t[i], i>> \in Table(t)
      BY <2>6 DEF Table
    <2>8. QED
      BY <2>1, <2>4, <2>7
  <1>7. Table(t) \subseteq InsertRows(Table(s), b, n)
    BY <1>4 DEF Table
  <1>8. InsertRows(Table(s), b, n) \subseteq Table(t)
    BY <1>5, <1>6 DEF InsertRows
  <1>9. QED
    BY <1>3, <1>7, <1>8 DEF t

LEMMA EmptyTable == Table(<<>>) = {} /\ <<>> \in Seq(ListedPaths) /\ Len(<<>>) = 0
  <1>1. DOMAIN <<>> = {}
    OBVIOUS
  <1>2. Lasts(<<>>) = {}
    BY <1>1 DEF Lasts
  <1>3. QED
    BY <1>2 DEF Table

\* Steps that leave the rows and the table alone.
LEMMA ImportKeeps ==
    ASSUME ImportInv, UNCHANGED <<pending, staging, sent, files, accepted, savedOffline, offline, op>>,
           requests' \in [Ids -> Nat \cup {NoToken}], tokens' \in Nat,
           pending # NoImport =>
             ~active' /\ (pending.token \in cancelled' \/ requests'[pending.id] = pending.token)
    PROVE  ImportInv'
  <1>1. ImportTypeOK'
    BY DEF ImportInv, ImportTypeOK
  <1>2. OperationFits(op)' /\ PendingFits' /\ ReplacedAtOnce'
    BY DEF ImportInv, OperationFits, PendingFits, ReplacedAtOnce
  <1>3. QED
    BY <1>1, <1>2 DEF ImportInv

LEMMA FreeOperation ==
    Free \in Operations /\ Free.kind = "none" /\ Free.pc = "none"
  BY EmptyTable DEF Free, Operations

\* A request that is registered takes the place of an earlier one, which it cancels.
LEMMA RegisterFits ==
    ASSUME ImportTypeOK, NEW id \in Ids, Register(id)
    PROVE  /\ requests' \in [Ids -> Nat \cup {NoToken}] /\ tokens' \in Nat /\ requests'[id] = tokens'
           /\ tokens' = tokens + 1
           /\ \A h \in Ids, k \in Nat :
                k \in cancelled \/ requests[h] = k => k \in cancelled' \/ requests'[h] = k
  BY ImportAssumption DEF Register, ImportTypeOK

LEMMA UnregisterFits ==
    ASSUME ImportTypeOK, NEW id \in Ids, NEW token, Unregister(id, token)
    PROVE  requests' \in [Ids -> Nat \cup {NoToken}]
  BY DEF Unregister, ImportTypeOK

\* The pending import is taken away, and its table with it.
LEMMA TakePendingStep ==
    ASSUME ImportInv, op = Free, pending # NoImport, TakePending,
           UNCHANGED <<sent, files, accepted, savedOffline, offline, active, cancelled, tokens, op>>
    PROVE  ImportInv'
  <1>1. pending \in Imports /\ pending.id \in Ids /\ pending' = NoImport /\ staging' = NoTable
        /\ Unregister(pending.id, pending.token)
    BY DEF ImportInv, ImportTypeOK, Imports, TakePending
  <1>2. requests' \in [Ids -> Nat \cup {NoToken}]
    BY <1>1, UnregisterFits DEF ImportInv
  <1>3. ImportTypeOK'
    BY <1>1, <1>2 DEF ImportInv, ImportTypeOK
  <1>4. OperationFits(op)'
    BY <1>1, FreeOperation DEF ImportInv, OperationFits
  <1>5. PendingFits' /\ ReplacedAtOnce'
    BY <1>1 DEF ImportInv, PendingFits, ReplacedAtOnce
  <1>6. QED
    BY <1>3, <1>4, <1>5 DEF ImportInv

LEMMA BeginStep ==
    ASSUME ImportInv, NEW id \in Ids, Begin(id)
    PROVE  ImportInv'
  <1>1. /\ op = Free /\ ~active /\ pending = NoImport /\ staging' = {} /\ Register(id) /\ sent' = <<>>
        /\ UNCHANGED <<files, accepted, savedOffline, offline, active, op>>
        /\ pending' = [id |-> id, rows |-> 0, token |-> tokens + 1]
    BY DEF Begin
  <1>2. /\ requests' \in [Ids -> Nat \cup {NoToken}] /\ tokens' \in Nat /\ requests'[id] = tokens'
        /\ tokens' = tokens + 1
    BY <1>1, RegisterFits DEF ImportInv
  <1>3. /\ pending' \in Imports /\ pending' # NoImport /\ pending'.rows = 0 /\ pending'.id = id
        /\ pending'.token = tokens'
    BY <1>1, <1>2, ImportAssumption DEF Imports
  <1>4. ImportTypeOK'
    BY <1>1, <1>2, <1>3, EmptyTable DEF ImportInv, ImportTypeOK
  <1>5. OperationFits(op)'
    BY <1>1, FreeOperation DEF OperationFits
  <1>6. PendingFits'
    BY <1>1, <1>2, <1>3, EmptyTable DEF PendingFits
  <1>7. ReplacedAtOnce'
    BY <1>1 DEF ImportInv, ReplacedAtOnce
  <1>8. QED
    BY <1>4, <1>5, <1>6, <1>7 DEF ImportInv

LEMMA AppendRowsStep ==
    ASSUME ImportInv, NEW id \in Ids, NEW batch \in Batches, AppendRows(id, batch)
    PROVE  ImportInv'
  <1>1. /\ op = Free /\ pending # NoImport
        /\ UNCHANGED <<files, accepted, savedOffline, offline, active, cancelled, tokens, op>>
    BY DEF AppendRows
  <1>2. CASE TakePending /\ UNCHANGED sent
    BY <1>1, <1>2, TakePendingStep
  <1>3. CASE /\ StageRows(batch, pending.rows)
             /\ pending' = [pending EXCEPT !.rows = @ + Len(batch)]
             /\ sent' = sent \o batch
             /\ UNCHANGED requests
    <2>1. batch \in Seq(ListedPaths) /\ sent \in Seq(ListedPaths) /\ pending \in Imports
      BY <1>1, ImportAssumption DEF ImportInv, ImportTypeOK
    <2>2. /\ sent' \in Seq(ListedPaths) /\ Len(sent') = Len(sent) + Len(batch) /\ Len(sent') \in Nat
      BY <1>3, <2>1, ConcatProperties
    <2>3. pending.rows = Len(sent) /\ staging = Table(sent)
      BY <1>1 DEF ImportInv, PendingFits
    <2>4. PICK n \in Nat : n = Len(sent')
      BY <2>2
    <2>5. pending' = [pending EXCEPT !.rows = n]
      BY <1>3, <2>1, <2>2, <2>3, <2>4 DEF Imports
    <2>6. /\ pending' \in Imports /\ pending' # NoImport /\ pending'.rows = n /\ pending'.id = pending.id
          /\ pending'.token = pending.token
      BY <2>1, <2>5, ImportAssumption DEF Imports
    <2>7. staging' = Table(sent')
      BY <1>3, <2>1, <2>3, TableOfAppended DEF StageRows
    <2>8. ImportTypeOK'
      BY <1>1, <1>3, <2>2, <2>6 DEF ImportInv, ImportTypeOK
    <2>9. OperationFits(op)'
      BY <1>1, FreeOperation DEF OperationFits
    <2>10. PendingFits'
      BY <1>1, <1>3, <2>4, <2>6, <2>7 DEF ImportInv, PendingFits
    <2>11. ReplacedAtOnce'
      BY <1>1 DEF ImportInv, ReplacedAtOnce
    <2>12. QED
      BY <2>8, <2>9, <2>10, <2>11 DEF ImportInv
  <1>4. QED
    BY <1>2, <1>3 DEF AppendRows

LEMMA FinishStep ==
    ASSUME ImportInv, NEW id \in Ids, Finish(id)
    PROVE  ImportInv'
  <1>1. /\ op = Free /\ pending # NoImport /\ pending.id = id
        /\ UNCHANGED <<sent, files, accepted, savedOffline, offline, active, cancelled, tokens>>
    BY DEF Finish
  <1>2. CASE pending.token \in cancelled
    BY <1>1, <1>2, TakePendingStep DEF Finish
  <1>3. CASE pending.token \notin cancelled
    <2>1. /\ op' = [kind |-> "finish", pc |-> "commit", id |-> id, token |-> pending.token,
                    rest |-> <<>>, all |-> sent]
          /\ UNCHANGED <<pending, requests, staging>>
      BY <1>3 DEF Finish
    <2>2. pending \in Imports /\ sent \in Seq(ListedPaths)
      BY <1>1 DEF ImportInv, ImportTypeOK
    <2>3. pending.token \in Nat
      BY <2>2 DEF Imports
    <2>4. /\ op' \in Operations /\ op'.kind = "finish" /\ op'.pc = "commit" /\ op'.id = id
          /\ op'.token = pending.token /\ op'.all = sent
      BY <2>1, <2>2, <2>3, EmptyTable DEF Operations
    <2>5. op' # Free
      BY <2>4, FreeOperation
    <2>6. ImportTypeOK'
      BY <1>1, <2>1, <2>4 DEF ImportInv, ImportTypeOK
    <2>7. OperationFits(op)'
      <3>1. staging = Table(sent)
        BY <1>1 DEF ImportInv, PendingFits
      <3>2. QED
        BY <1>1, <2>1, <2>4, <3>1 DEF OperationFits
    <2>8. PendingFits'
      BY <1>1, <2>1, <2>5 DEF ImportInv, PendingFits
    <2>9. ReplacedAtOnce'
      BY <1>1, <2>4, FreeOperation DEF ImportInv, ReplacedAtOnce
    <2>10. QED
      BY <2>6, <2>7, <2>8, <2>9 DEF ImportInv
  <1>4. QED
    BY <1>2, <1>3

LEMMA OneShotStep ==
    ASSUME ImportInv, NEW id \in Ids, NEW list \in Seq(ListedPaths), OneShot(id, list)
    PROVE  ImportInv'
  <1>1. /\ op = Free /\ ~active /\ pending = NoImport /\ Register(id) /\ staging' = {} /\ sent' = <<>>
        /\ UNCHANGED <<pending, files, accepted, savedOffline, offline, active>>
        /\ op' = [kind |-> "all", pc |-> "stage", id |-> id, token |-> tokens + 1, rest |-> list,
                  all |-> list]
    BY DEF OneShot
  <1>2. requests' \in [Ids -> Nat \cup {NoToken}] /\ tokens' \in Nat /\ tokens' = tokens + 1
    BY <1>1, RegisterFits DEF ImportInv
  <1>3. op' = [kind |-> "all", pc |-> "stage", id |-> id, token |-> tokens', rest |-> list, all |-> list]
    BY <1>1, <1>2
  <1>4. /\ op' \in Operations /\ op'.kind = "all" /\ op'.pc = "stage" /\ op'.id = id
        /\ op'.rest = list /\ op'.all = list
    BY <1>2, <1>3 DEF Operations
  <1>5. op' # Free
    BY <1>4, FreeOperation
  <1>6. ImportTypeOK'
    BY <1>1, <1>2, <1>4, EmptyTable DEF ImportInv, ImportTypeOK
  <1>7. OperationFits(op)'
    <2>1. <<>> \o list = list
      BY ConcatEmptySeq
    <2>2. QED
      BY <1>1, <1>4, <2>1, EmptyTable DEF OperationFits
  <1>8. PendingFits' /\ ReplacedAtOnce'
    BY <1>1, <1>4, <1>5, FreeOperation DEF ImportInv, PendingFits, ReplacedAtOnce
  <1>9. QED
    BY <1>6, <1>7, <1>8 DEF ImportInv

\* The request at work moves on; nobody else's state does.
LEMMA OperationMoves ==
    ASSUME ImportInv, op.kind # "none", op' \in Operations, op'.kind = op.kind, op'.id = op.id,
           op'.token = op.token, op'.pc # "none", op.kind = "finish" => op'.pc # "stage",
           sent' \in Seq(ListedPaths), accepted' \in Seq(ListedPaths) \cup {NoImport},
           op'.pc = "stage" => staging' = Table(sent') /\ sent' \o op'.rest = op'.all,
           op'.pc = "commit" => staging' = Table(op'.all),
           UNCHANGED <<pending, requests, tokens, cancelled, active>>, ReplacedAtOnce'
    PROVE  ImportInv'
  <1>1. ImportTypeOK'
    BY DEF ImportInv, ImportTypeOK
  <1>2. op # Free /\ op' # Free
    BY FreeOperation
  <1>3. OperationFits(op)'
    <2>1. OperationFits(op)
      BY DEF ImportInv
    <2>2. op'.kind # "none"
      OBVIOUS
    <2>3. op'.pc \in {"stage", "commit", "flags", "clean"}
      BY DEF Operations
    <2>4. op'.kind = "all" => pending' = NoImport /\ op'.pc # "none" /\ op'.id \in Ids
      BY <2>1 DEF OperationFits
    <2>5. op'.kind = "finish" => /\ pending' # NoImport /\ op'.pc \in {"commit", "flags", "clean"}
                                 /\ op'.id = pending'.id /\ op'.token = pending'.token
      BY <2>1, <2>3 DEF OperationFits
    <2>6. QED
      BY <2>2, <2>4, <2>5 DEF OperationFits
  <1>4. PendingFits'
    BY <1>2 DEF ImportInv, PendingFits
  <1>5. QED
    BY <1>1, <1>3, <1>4 DEF ImportInv

LEMMA StageBatchStep ==
    ASSUME ImportInv, StageBatch
    PROVE  ImportInv'
  <1>1. /\ op.kind = "all" /\ op.pc = "stage" /\ op \in Operations /\ sent \in Seq(ListedPaths)
        /\ UNCHANGED <<pending, files, accepted, savedOffline, offline, active, requests, cancelled, tokens>>
        /\ staging = Table(sent) /\ sent \o op.rest = op.all
    BY DEF StageBatch, ImportInv, ImportTypeOK, OperationFits
  <1>2. PICK n \in DOMAIN op.rest :
          /\ StageRows(SubSeq(op.rest, 1, n), Len(sent))
          /\ sent' = sent \o SubSeq(op.rest, 1, n)
          /\ op' = [op EXCEPT !.rest = SubSeq(op.rest, n + 1, Len(op.rest))]
    BY DEF StageBatch
  <1>3. PICK rest \in Seq(ListedPaths) : rest = op.rest
    BY <1>1 DEF Operations
  <1>4. n \in 1 .. Len(rest) /\ Len(rest) \in Nat
    BY <1>3
  <1>5. PICK batch \in Seq(ListedPaths) : batch = SubSeq(rest, 1, n)
    <2>1. SubSeq(rest, 1, n) \in Seq(ListedPaths)
      BY <1>4
    <2>2. QED
      BY <2>1, Zenon
  <1>6. PICK left \in Seq(ListedPaths) : left = SubSeq(rest, n + 1, Len(rest))
    <2>1. SubSeq(rest, n + 1, Len(rest)) \in Seq(ListedPaths)
      BY <1>4
    <2>2. QED
      BY <2>1, Zenon
  <1>7. batch \o left = rest
    <2>1. 1 \in 1 .. Len(rest) + 1 /\ n \in 1 - 1 .. Len(rest) /\ Len(rest) \in n .. Len(rest)
      BY <1>4
    <2>2. SubSeq(rest, 1, n) \o SubSeq(rest, n + 1, Len(rest)) = SubSeq(rest, 1, Len(rest))
      BY <2>1, ConcatAdjacentSubSeq
    <2>3. SubSeq(rest, 1, Len(rest)) = rest
      OBVIOUS
    <2>4. QED
      BY <1>5, <1>6, <2>2, <2>3
  <1>8. sent' = sent \o batch /\ op' = [op EXCEPT !.rest = left] /\ StageRows(batch, Len(sent))
    BY <1>2, <1>3, <1>5, <1>6
  <1>9. /\ op' \in Operations /\ op'.kind = op.kind /\ op'.id = op.id /\ op'.token = op.token
        /\ op'.pc = "stage" /\ op'.rest = left /\ op'.all = op.all
    BY <1>1, <1>8 DEF Operations
  <1>10. sent' \in Seq(ListedPaths)
    BY <1>1, <1>8, ConcatProperties
  <1>11. staging' = Table(sent')
    BY <1>1, <1>8, TableOfAppended DEF StageRows
  <1>12. sent' \o op'.rest = op'.all
    <2>1. (sent \o batch) \o left = sent \o (batch \o left)
      BY <1>1, ConcatAssociative, SMTT(40)
    <2>2. QED
      BY <1>1, <1>3, <1>7, <1>8, <1>9, <2>1
  <1>13. ReplacedAtOnce'
    BY <1>1, <1>9 DEF ImportInv, ReplacedAtOnce
  <1>14. accepted' \in Seq(ListedPaths) \cup {NoImport}
    BY <1>1 DEF ImportInv, ImportTypeOK
  <1>15. QED
    BY <1>1, <1>9, <1>10, <1>11, <1>12, <1>13, <1>14, OperationMoves

LEMMA MoveOnSteps ==
    ASSUME ImportInv, StageDone \/ SetOffline \/ StopStaging
    PROVE  ImportInv'
  <1>1. /\ op \in Operations /\ sent \in Seq(ListedPaths)
        /\ UNCHANGED <<pending, staging, sent, files, accepted, savedOffline, active, requests, cancelled, tokens>>
        /\ accepted' \in Seq(ListedPaths) \cup {NoImport}
    BY DEF StageDone, SetOffline, StopStaging, ImportInv, ImportTypeOK
  <1>2. CASE StageDone
    <2>1. /\ op.kind = "all" /\ op.pc = "stage" /\ op.rest = <<>> /\ UNCHANGED offline
          /\ op' = [op EXCEPT !.pc = "commit"]
      BY <1>2 DEF StageDone
    <2>2. /\ op' \in Operations /\ op'.kind = op.kind /\ op'.id = op.id /\ op'.token = op.token
          /\ op'.pc = "commit" /\ op'.all = op.all
      BY <1>1, <2>1 DEF Operations
    <2>3. staging' = Table(op'.all)
      <3>1. sent \o <<>> = sent
        BY <1>1, ConcatEmptySeq
      <3>2. QED
        BY <1>1, <2>1, <2>2, <3>1 DEF ImportInv, OperationFits
    <2>4. ReplacedAtOnce'
      BY <1>1, <2>1, <2>2 DEF ImportInv, ReplacedAtOnce
    <2>5. QED
      BY <1>1, <2>1, <2>2, <2>3, <2>4, OperationMoves
  <1>3. CASE SetOffline
    <2>1. op.kind # "none" /\ op.pc = "flags" /\ offline' = TRUE /\ op' = [op EXCEPT !.pc = "clean"]
      BY <1>3 DEF SetOffline
    <2>2. /\ op' \in Operations /\ op'.kind = op.kind /\ op'.id = op.id /\ op'.token = op.token
          /\ op'.pc = "clean"
      BY <1>1, <2>1 DEF Operations
    <2>3. savedOffline
      BY <2>1 DEF ImportInv, ReplacedAtOnce
    <2>4. ReplacedAtOnce'
      BY <1>1, <2>1, <2>2, <2>3 DEF ImportInv, ReplacedAtOnce
    <2>5. QED
      BY <1>1, <2>1, <2>2, <2>4, OperationMoves
  <1>4. CASE StopStaging
    <2>1. op.kind = "all" /\ op.pc = "stage" /\ UNCHANGED offline /\ op' = [op EXCEPT !.pc = "clean"]
      BY <1>4 DEF StopStaging
    <2>2. /\ op' \in Operations /\ op'.kind = op.kind /\ op'.id = op.id /\ op'.token = op.token
          /\ op'.pc = "clean"
      BY <1>1, <2>1 DEF Operations
    <2>3. ReplacedAtOnce'
      BY <1>1, <2>1, <2>2 DEF ImportInv, ReplacedAtOnce
    <2>4. QED
      BY <1>1, <2>1, <2>2, <2>3, OperationMoves
  <1>5. QED
    BY <1>2, <1>3, <1>4

LEMMA CommitImportStep ==
    ASSUME ImportInv, CommitImport
    PROVE  ImportInv'
  <1>1. /\ op.kind # "none" /\ op.pc = "commit" /\ op \in Operations /\ sent \in Seq(ListedPaths)
        /\ UNCHANGED <<pending, sent, offline, active, requests, cancelled, tokens>>
        /\ staging = Table(op.all) /\ op.all \in Seq(ListedPaths)
    BY DEF CommitImport, ImportInv, ImportTypeOK, OperationFits, Operations
  <1>2. CASE /\ files' = [imported |-> TRUE, rows |-> staging] /\ accepted' = op.all /\ savedOffline' = TRUE
             /\ op' = [op EXCEPT !.pc = "flags"]
    <2>1. /\ op' \in Operations /\ op'.kind = op.kind /\ op'.id = op.id /\ op'.token = op.token
          /\ op'.pc = "flags"
      BY <1>1, <1>2 DEF Operations
    <2>2. ReplacedAtOnce'
      BY <1>1, <1>2, <2>1, ImportAssumption DEF ReplacedAtOnce
    <2>3. QED
      BY <1>1, <1>2, <2>1, <2>2, OperationMoves
  <1>3. CASE /\ op' = [op EXCEPT !.pc = "clean"]
             /\ UNCHANGED <<files, accepted, savedOffline, staging>>
    <2>1. /\ op' \in Operations /\ op'.kind = op.kind /\ op'.id = op.id /\ op'.token = op.token
          /\ op'.pc = "clean"
      BY <1>1, <1>3 DEF Operations
    <2>2. ReplacedAtOnce' /\ accepted' \in Seq(ListedPaths) \cup {NoImport}
      BY <1>1, <1>3, <2>1 DEF ImportInv, ImportTypeOK, ReplacedAtOnce
    <2>3. QED
      BY <1>1, <1>3, <2>1, <2>2, OperationMoves
  <1>4. QED
    BY <1>2, <1>3 DEF CommitImport

LEMMA CleanUpStep ==
    ASSUME ImportInv, CleanUp
    PROVE  ImportInv'
  <1>1. /\ op.kind # "none" /\ op.pc = "clean" /\ Unregister(op.id, op.token) /\ staging' = NoTable
        /\ op' = Free /\ UNCHANGED <<sent, files, accepted, savedOffline, offline, active, cancelled, tokens>>
        /\ pending' = IF op.kind = "finish" THEN NoImport ELSE pending
    BY DEF CleanUp
  <1>2. op.kind \in {"all", "finish"}
    BY <1>1 DEF ImportInv, ImportTypeOK, Operations
  <1>3. op.id \in Ids
    <2>1. op.kind = "finish" => pending \in Imports /\ op.id = pending.id
      BY DEF ImportInv, OperationFits, ImportTypeOK
    <2>2. QED
      BY <1>2, <2>1 DEF ImportInv, OperationFits, Imports
  <1>4. pending' = NoImport
    BY <1>1, <1>2 DEF ImportInv, OperationFits
  <1>5. requests' \in [Ids -> Nat \cup {NoToken}]
    BY <1>1, <1>3, UnregisterFits DEF ImportInv
  <1>6. ImportTypeOK'
    BY <1>1, <1>4, <1>5, FreeOperation DEF ImportInv, ImportTypeOK
  <1>7. OperationFits(op)'
    BY <1>1, FreeOperation DEF OperationFits
  <1>8. PendingFits' /\ ReplacedAtOnce'
    BY <1>1, <1>4, FreeOperation DEF ImportInv, PendingFits, ReplacedAtOnce
  <1>9. QED
    BY <1>6, <1>7, <1>8 DEF ImportInv

LEMMA CancellationSteps ==
    ASSUME ImportInv, NEW id \in Ids,
           CancelToken(id) \/ CancelImport(id) \/ OtherRequest(id) \/ OtherRequestEnds(id) \/ Abort(id)
    PROVE  ImportInv'
  <1>1. /\ ImportTypeOK
        /\ pending # NoImport => /\ pending \in Imports /\ pending.id \in Ids /\ pending.token \in Nat
                                 /\ ~active
                                 /\ pending.token \in cancelled \/ requests[pending.id] = pending.token
    BY DEF ImportInv, PendingFits, ImportTypeOK, Imports
  <1>2. CASE CancelToken(id)
    BY <1>1, <1>2, ImportKeeps DEF CancelToken, ImportTypeOK
  <1>3. CASE CancelImport(id)
    <2>1. CASE pending # NoImport /\ pending.id = id
      BY <1>3, <2>1, TakePendingStep DEF CancelImport
    <2>2. CASE ~(pending # NoImport /\ pending.id = id)
      BY <1>1, <1>3, <2>2, ImportKeeps DEF CancelImport, ImportTypeOK
    <2>3. QED
      BY <2>1, <2>2
  <1>4. CASE OtherRequest(id)
    <2>1. /\ requests' \in [Ids -> Nat \cup {NoToken}] /\ tokens' \in Nat
          /\ \A h \in Ids, k \in Nat :
               k \in cancelled \/ requests[h] = k => k \in cancelled' \/ requests'[h] = k
      BY <1>1, <1>4, RegisterFits DEF OtherRequest
    <2>2. QED
      BY <1>1, <1>4, <2>1, ImportKeeps DEF OtherRequest
  <1>5. CASE OtherRequestEnds(id)
    <2>1. requests' = [requests EXCEPT ![id] = NoToken] /\ (pending # NoImport => pending.token # requests[id])
      BY <1>5 DEF OtherRequestEnds
    <2>2. /\ requests' \in [Ids -> Nat \cup {NoToken}]
          /\ \A h \in Ids : h # id => requests'[h] = requests[h]
      BY <1>1, <2>1 DEF ImportTypeOK
    <2>3. QED
      BY <1>1, <1>5, <2>1, <2>2, ImportKeeps DEF OtherRequestEnds, ImportTypeOK
  <1>6. CASE Abort(id)
    BY <1>6, TakePendingStep DEF Abort
  <1>7. QED
    BY <1>2, <1>3, <1>4, <1>5, <1>6

LEMMA WorkerAndCrashSteps ==
    ASSUME ImportInv, StartWorker \/ WorkerEnds \/ ImportCrash
    PROVE  ImportInv'
  <1>1. /\ ImportTypeOK
        /\ pending # NoImport =>
             ~active /\ (pending.token \in cancelled \/ requests[pending.id] = pending.token)
    BY DEF ImportInv, PendingFits
  <1>2. CASE StartWorker
    BY <1>1, <1>2, ImportKeeps DEF StartWorker, ImportTypeOK
  <1>3. CASE WorkerEnds
    BY <1>1, <1>3, ImportKeeps DEF WorkerEnds, ImportTypeOK
  <1>4. CASE ImportCrash
    <2>1. /\ pending' = NoImport /\ staging' = NoTable /\ op' = Free /\ offline' = savedOffline
          /\ requests' = [i \in Ids |-> NoToken]
          /\ UNCHANGED <<sent, files, accepted, savedOffline, cancelled, tokens>>
      BY <1>4 DEF ImportCrash
    <2>2. ImportTypeOK'
      BY <1>1, <2>1, FreeOperation DEF ImportTypeOK
    <2>3. OperationFits(op)' /\ PendingFits' /\ ReplacedAtOnce'
      BY <2>1, FreeOperation DEF ImportInv, OperationFits, PendingFits, ReplacedAtOnce
    <2>4. QED
      BY <2>2, <2>3 DEF ImportInv
  <1>5. QED
    BY <1>2, <1>3, <1>4

\* The inductive invariant of the imports, for lists and batches of any length,
\* any number of requests and crashes.
THEOREM ImportInvariant == ImportSpec => []ImportInv
  <1>1. ImportInit => ImportInv
    <2>1. SUFFICES ASSUME ImportInit PROVE ImportInv
      OBVIOUS
    <2>2. ImportTypeOK
      BY <2>1, FreeOperation, EmptyTable DEF ImportInit, ImportTypeOK
    <2>3. OperationFits(op) /\ PendingFits
      BY <2>1, FreeOperation DEF ImportInit, OperationFits, PendingFits
    <2>4. ReplacedAtOnce
      BY <2>1, FreeOperation DEF ImportInit, ReplacedAtOnce, ScannedRows
    <2>5. QED
      BY <2>2, <2>3, <2>4 DEF ImportInv
  <1>2. ASSUME ImportInv, ImportNext PROVE ImportInv'
    <2>1. \A b1, b2 \in Batches : b1 \o b2 \in Seq(ListedPaths)
      BY ImportAssumption, ConcatProperties
    <2>2. ASSUME NEW id \in Ids,
                 \/ Begin(id) \/ Abort(id) \/ Finish(id) \/ \E b \in Batches : AppendRows(id, b)
                 \/ \E b1, b2 \in Batches : OneShot(id, b1 \o b2)
                 \/ CancelToken(id) \/ CancelImport(id) \/ OtherRequest(id) \/ OtherRequestEnds(id)
          PROVE  ImportInv'
      BY <1>2, <2>1, <2>2, BeginStep, FinishStep, AppendRowsStep, OneShotStep, CancellationSteps
    <2>3. CASE StageBatch \/ StageDone \/ StopStaging \/ CommitImport \/ SetOffline \/ CleanUp
      BY <1>2, <2>3, StageBatchStep, MoveOnSteps, CommitImportStep, CleanUpStep
    <2>4. CASE StartWorker \/ WorkerEnds \/ ImportCrash
      BY <1>2, <2>4, WorkerAndCrashSteps
    <2>5. QED
      BY <1>2, <2>2, <2>3, <2>4 DEF ImportNext
  <1>3. ASSUME ImportInv, UNCHANGED importVars PROVE ImportInv'
    BY <1>3, ImportKeeps DEF importVars, ImportInv, ImportTypeOK, PendingFits
  <1>4. QED
    BY <1>1, <1>2, <1>3, PTL DEF ImportSpec

\* The index is what was scanned or one whole list with every row numbered by
\* its place, through cancellations, reused ids, refused batches and crashes
\* (finish_file_list_import, staged_file_list_import, cancel_file_list_import).
THEOREM ImportsAreWhole == ImportSpec => []ImportIsWhole
  <1>1. ImportInv => ImportIsWhole
    BY FreeOperation DEF ImportInv, PendingFits, ReplacedAtOnce, ImportIsWhole
  <1>2. QED
    BY <1>1, ImportInvariant, PTL

-----------------------------------------------------------------------------
(* Engines of imported lists. *)

LEMMA LeastNatural ==
    ASSUME NEW T, T \subseteq Nat, T # {}
    PROVE  \E x \in T : \A y \in T : x <= y
  <1> DEFINE R == OpToRel(<, Nat)
  <1>1. IsWellFoundedOn(R, Nat)
    BY NatLessThanWellFounded
  <1>2. \A x, y \in Nat : <<y, x>> \in R <=> y < x
    BY Zenon DEF OpToRel
  <1> HIDE DEF R
  <1>3. PICK x \in T : \A y \in T : ~(<<y, x>> \in R)
    BY <1>1, WFMin, Zenon
  <1>4. \A y \in T : ~(y < x)
    BY <1>2, <1>3, Zenon
  <1>5. x \in Nat /\ \A y \in T : y \in Nat
    BY Zenon
  <1>6. \A y \in T : x <= y
    BY <1>4, <1>5
  <1>7. QED
    BY <1>6, Zenon

\* A number is free when there is one.
LEMMA FreeIsFree ==
    ASSUME NEW ids \in SUBSET Nat, NEW f, FreeIds(ids, f) # {}
    PROVE  NextFree(ids, f) \in ids /\ NextFree(ids, f) \notin DOMAIN f
  <1>1. FreeIds(ids, f) \subseteq Nat
    BY DEF FreeIds
  <1>2. \E i \in FreeIds(ids, f) : \A j \in FreeIds(ids, f) : i <= j
    BY <1>1, LeastNatural
  <1>3. NextFree(ids, f) \in FreeIds(ids, f)
    BY <1>2 DEF NextFree
  <1>4. QED
    BY <1>3 DEF FreeIds

LEMMA CountedOut ==
    ASSUME NEW S, IsFiniteSet(S)
    PROVE  /\ Cardinality(S) \in Nat
           /\ (Cardinality(S) = 0 <=> S = {})
           /\ \A x : x \notin S => Cardinality(S \cup {x}) = Cardinality(S) + 1
           /\ \A x \in S : Cardinality(S \ {x}) = Cardinality(S) - 1
  BY FS_CardinalityType, FS_EmptySet, FS_AddElement, FS_RemoveElement

-----------------------------------------------------------------------------
\* The invariant of the registry, for any registry, leases and requests.
Holding(hd, e) == {l \in DOMAIN hd : hd[l] = e}
Awaiting(cl, e) == {c \in Callers : cl[c].pc = "wait" /\ cl[c].entry = e}

RegistryTyped(tb, es, hd, cl) ==
    /\ tb \in [Lists -> EntryIds \cup {Nothing}]
    /\ DOMAIN es \subseteq EntryIds /\ es \in [DOMAIN es -> Engines]
    /\ DOMAIN hd \subseteq LeaseIds /\ hd \in [DOMAIN hd -> EntryIds]
    /\ cl \in [Callers -> Calls]
Listed(tb, es) ==
    /\ \A i \in Lists : tb[i] # Nothing =>
        tb[i] \in DOMAIN es /\ es[tb[i]].list = i /\ es[tb[i]].state # "failed"
    /\ \A e \in DOMAIN es : es[e].state # "failed" => tb[es[e].list] = e
Leased(es, hd, cl) ==
    /\ \A l \in DOMAIN hd : hd[l] \in DOMAIN es /\ es[hd[l]].state = "loaded"
    /\ \A c \in Callers : IF cl[c].pc \in Served THEN cl[c].lease \in DOMAIN hd
                          ELSE cl[c].lease = Nothing
Loads(es, cl) ==
    /\ \A c \in Callers : cl[c].pc = "load" =>
        /\ cl[c].entry \in DOMAIN es /\ es[cl[c].entry].state = "loading"
        /\ \A d \in Callers : cl[d].pc = "load" /\ cl[d].entry = cl[c].entry => d = c
    /\ \A c \in Callers : cl[c].pc = "wait" => cl[c].entry \in DOMAIN es
Counted(es, hd, cl, e) ==
    /\ Cardinality(Awaiting(cl, e)) = es[e].waiters + es[e].signals
    /\ IF es[e].state = "loading" THEN es[e].signals = 0 ELSE es[e].waiters = 0
    /\ es[e].state = "loaded" => es[e].references = Cardinality(Holding(hd, e)) + es[e].signals
RegistryFits(tb, es, hd, cl) ==
    /\ RegistryTyped(tb, es, hd, cl) /\ Listed(tb, es) /\ Leased(es, hd, cl) /\ Loads(es, cl)
    /\ \A e \in DOMAIN es : Counted(es, hd, cl, e)
Idle(es, e) == e \in DOMAIN es /\ es[e].state = "loaded" /\ es[e].references = 0
Ordered(es, order) ==
    \A e, f \in DOMAIN es : es[e].state = "loaded" /\ es[f].state = "loaded" /\ e # f =>
        << e, f >> \in order \/ << f, e >> \in order
OneIdle(es) == \A e, f : Idle(es, e) /\ Idle(es, f) => e = f
ReferencesHeld(hd) == \A r \in DOMAIN reference : reference[r].lease \in DOMAIN hd

LEMMA RegistryMeans ==
    EnginesInv <=> /\ RegistryFits(table, entry, handed, call) /\ Ordered(entry, older)
                   /\ OneIdle(entry) /\ ReferencesHeld(handed) /\ OfflineTypeOK
  BY DEF EnginesInv, OfflineTypeOK, TableFits, LeasesAreLive, LoadsAreAwaited, EnginesCounted,
    UsesAreOrdered, IdleEngines, LeasesOf, WaitersOf, RegistryFits, RegistryTyped, Listed, Leased,
    Loads, Counted, Holding, Awaiting, Idle, Ordered, OneIdle, ReferencesHeld

LEMMA WaitersFinite == ASSUME NEW cl, NEW e PROVE IsFiniteSet(Awaiting(cl, e))
  BY FS_Subset, OfflineAssumption DEF Awaiting

LEMMA HoldersFinite == ASSUME NEW hd, DOMAIN hd \subseteq LeaseIds, NEW e PROVE IsFiniteSet(Holding(hd, e))
  BY FS_Subset, OfflineAssumption DEF Holding

-----------------------------------------------------------------------------
\* One entry changes: the table is right while the entry stays failed or does not
\* become so, and only its own counts need to be looked at.
LEMMA EntryChanges ==
    ASSUME NEW tb, NEW es, NEW hd, NEW cl, RegistryFits(tb, es, hd, cl),
           NEW e \in DOMAIN es, NEW r \in Engines,
           r.list = es[e].list, r.state = "failed" <=> es[e].state = "failed",
           NEW hd2, NEW cl2, RegistryTyped(tb, es, hd2, cl2),
           \A x \in DOMAIN es \ {e} : Holding(hd2, x) = Holding(hd, x) /\ Awaiting(cl2, x) = Awaiting(cl, x),
           NEW es2, es2 = [es EXCEPT ![e] = r],
           Leased(es2, hd2, cl2), Loads(es2, cl2), Counted(es2, hd2, cl2, e)
    PROVE  RegistryFits(tb, es2, hd2, cl2)
  <1>1. RegistryTyped(tb, es, hd, cl) /\ Listed(tb, es)
    BY DEF RegistryFits
  <1>2. DOMAIN es2 = DOMAIN es /\ es2[e] = r /\ \A x \in DOMAIN es \ {e} : es2[x] = es[x]
    BY <1>1 DEF RegistryTyped
  <1>3. RegistryTyped(tb, es2, hd2, cl2)
    BY <1>1, <1>2 DEF RegistryTyped
  <1>4. Listed(tb, es2)
    BY <1>1, <1>2 DEF Listed
  <1>5. ASSUME NEW x \in DOMAIN es \ {e} PROVE Counted(es2, hd2, cl2, x)
    <2>1. Counted(es, hd, cl, x)
      BY DEF RegistryFits
    <2>2. QED
      BY <1>2, <2>1 DEF Counted
  <1>6. \A x \in DOMAIN es2 : Counted(es2, hd2, cl2, x)
    BY <1>2, <1>5
  <1>7. QED
    BY <1>3, <1>4, <1>6 DEF RegistryFits

Gains(hd, hd2, l, e) ==
    /\ DOMAIN hd2 = DOMAIN hd \cup {l} /\ hd2 \in [DOMAIN hd2 -> EntryIds]
    /\ hd2[l] = e /\ \A m \in DOMAIN hd : hd2[m] = hd[m]
    /\ Holding(hd2, e) = Holding(hd, e) \cup {l} /\ l \notin Holding(hd, e)
    /\ \A x : x # e => Holding(hd2, x) = Holding(hd, x)

LEMMA LeaseAdded ==
    ASSUME NEW hd, hd \in [DOMAIN hd -> EntryIds], NEW l, l \notin DOMAIN hd, NEW e \in EntryIds
    PROVE  Gains(hd, Put(hd, l, e), l, e)
  <1> DEFINE hd2 == Put(hd, l, e)
  <1>1. /\ DOMAIN hd2 = DOMAIN hd \cup {l} /\ hd2 \in [DOMAIN hd2 -> EntryIds]
        /\ hd2[l] = e /\ \A m \in DOMAIN hd : m # l => hd2[m] = hd[m]
    BY DEF Put
  <1> HIDE DEF hd2
  <1>2. Holding(hd2, e) = Holding(hd, e) \cup {l} /\ l \notin Holding(hd, e)
    BY <1>1 DEF Holding
  <1>3. \A x : x # e => Holding(hd2, x) = Holding(hd, x)
    BY <1>1 DEF Holding
  <1>4. QED
    BY <1>1, <1>2, <1>3 DEF Gains, hd2

\* A lease of a loaded engine is made for a caller.
LEMMA Granting ==
    ASSUME NEW tb, NEW es, NEW hd, NEW cl, RegistryFits(tb, es, hd, cl),
           NEW c \in Callers, NEW e \in DOMAIN es, es[e].state # "failed",
           es[e].state = "loading" => \A d \in Callers : cl[d].pc = "load" /\ cl[d].entry = e => d = c,
           cl[c].pc = "wait" => cl[c].entry = e,
           NEW r \in Engines, r.list = es[e].list, r.state = "loaded", r.waiters = 0,
           NEW l \in LeaseIds, l \notin DOMAIN hd,
           NEW k \in Calls, k.pc = "call", k.lease = l,
           Cardinality(Awaiting(cl, e) \ {c}) = r.signals,
           r.references = Cardinality(Holding(hd, e)) + 1 + r.signals
    PROVE  RegistryFits(tb, [es EXCEPT ![e] = r], Put(hd, l, e), [cl EXCEPT ![c] = k])
  <1> DEFINE es2 == [es EXCEPT ![e] = r]
             hd2 == Put(hd, l, e)
             cl2 == [cl EXCEPT ![c] = k]
  <1>1. RegistryTyped(tb, es, hd, cl) /\ Leased(es, hd, cl) /\ Loads(es, cl)
    BY DEF RegistryFits
  <1>2. /\ e \in EntryIds /\ cl \in [Callers -> Calls] /\ hd \in [DOMAIN hd -> EntryIds]
        /\ DOMAIN hd \subseteq LeaseIds /\ es \in [DOMAIN es -> Engines]
    BY <1>1 DEF RegistryTyped
  <1>3. Gains(hd, hd2, l, e)
    BY <1>2, LeaseAdded
  <1>4. /\ cl2 \in [Callers -> Calls] /\ cl2[c] = k /\ \A d \in Callers : d # c => cl2[d] = cl[d]
    BY <1>2
  <1>5. DOMAIN es2 = DOMAIN es /\ es2[e] = r /\ \A x \in DOMAIN es : x # e => es2[x] = es[x]
    BY <1>2
  <1> HIDE DEF hd2, cl2, es2
  <1>6. /\ DOMAIN hd2 = DOMAIN hd \cup {l} /\ hd2 \in [DOMAIN hd2 -> EntryIds]
        /\ hd2[l] = e /\ (\A m \in DOMAIN hd : hd2[m] = hd[m])
        /\ Holding(hd2, e) = Holding(hd, e) \cup {l} /\ l \notin Holding(hd, e)
        /\ \A x : x # e => Holding(hd2, x) = Holding(hd, x)
    BY <1>3 DEF Gains
  <1>7. Awaiting(cl2, e) = Awaiting(cl, e) \ {c} /\ \A x : x # e => Awaiting(cl2, x) = Awaiting(cl, x)
    BY <1>4 DEF Awaiting
  <1>8. RegistryTyped(tb, es, hd2, cl2)
    BY <1>1, <1>2, <1>4, <1>6 DEF RegistryTyped
  <1>9. Leased(es2, hd2, cl2)
    BY <1>1, <1>4, <1>5, <1>6 DEF Leased, Served
  <1>10. Loads(es2, cl2)
    BY <1>1, <1>4, <1>5 DEF Loads
  <1>11. Counted(es2, hd2, cl2, e)
    <2>1. IsFiniteSet(Holding(hd, e))
      BY <1>2, HoldersFinite
    <2>2. Cardinality(Holding(hd, e)) \in Nat /\ Cardinality(Holding(hd2, e)) = Cardinality(Holding(hd, e)) + 1
      BY <1>6, <2>1, CountedOut
    <2>3. r.signals \in Nat
      BY DEF Engines
    <2>4. QED
      BY <1>5, <1>7, <2>2, <2>3 DEF Counted
  <1>12. RegistryFits(tb, es2, hd2, cl2)
    BY <1>6, <1>7, <1>8, <1>9, <1>10, <1>11, EntryChanges DEF es2
  <1>13. QED
    BY <1>12 DEF es2, hd2, cl2

LEMMA CountsTyped ==
    ASSUME NEW tb, NEW es, NEW hd, NEW cl, RegistryFits(tb, es, hd, cl), NEW e \in DOMAIN es
    PROVE  /\ IsFiniteSet(Holding(hd, e)) /\ IsFiniteSet(Awaiting(cl, e))
           /\ Cardinality(Holding(hd, e)) \in Nat /\ Cardinality(Awaiting(cl, e)) \in Nat
           /\ es[e] \in Engines /\ es[e].list \in Lists /\ es[e].references \in Nat /\ es[e].waiters \in Nat /\ es[e].signals \in Nat
           /\ es[e].state \in {"loading", "loaded", "failed"}
           /\ Counted(es, hd, cl, e)
           /\ es[e].state = "loading" => Holding(hd, e) = {} /\ Cardinality(Holding(hd, e)) = 0
  <1>1. RegistryTyped(tb, es, hd, cl) /\ Leased(es, hd, cl) /\ Counted(es, hd, cl, e)
    BY DEF RegistryFits
  <1>2. IsFiniteSet(Holding(hd, e)) /\ IsFiniteSet(Awaiting(cl, e))
    BY <1>1, HoldersFinite, WaitersFinite DEF RegistryTyped
  <1>3. es[e] \in Engines
    BY <1>1 DEF RegistryTyped
  <1>4. es[e].state = "loading" => Holding(hd, e) = {}
    BY <1>1 DEF Leased, Holding
  <1>5. QED
    BY <1>1, <1>2, <1>3, <1>4, CountedOut DEF Engines

LEMMA SharingFits ==
    ASSUME NEW tb, NEW es, NEW hd, NEW cl, RegistryFits(tb, es, hd, cl),
           NEW c \in Callers, cl[c].pc \notin {"load", "wait"},
           NEW e \in DOMAIN es, es[e].state = "loaded", NEW l \in LeaseIds, l \notin DOMAIN hd,
           NEW k \in Calls, k.pc = "call", k.lease = l
    PROVE  RegistryFits(tb, [es EXCEPT ![e].references = @ + 1], Put(hd, l, e), [cl EXCEPT ![c] = k])
  <1> DEFINE r == [es[e] EXCEPT !.references = es[e].references + 1]
  <1>1. /\ Counted(es, hd, cl, e) /\ Cardinality(Holding(hd, e)) \in Nat
        /\ es[e] \in Engines /\ es[e].references \in Nat /\ es[e].signals \in Nat /\ es[e].waiters \in Nat
    BY CountsTyped
  <1>2. /\ r \in Engines /\ r.list = es[e].list /\ r.state = "loaded" /\ r.waiters = es[e].waiters
        /\ r.signals = es[e].signals /\ r.references = es[e].references + 1
    BY <1>1 DEF Engines
  <1>3. [es EXCEPT ![e].references = @ + 1] = [es EXCEPT ![e] = r]
    OBVIOUS
  <1> HIDE DEF r
  <1>4. Awaiting(cl, e) \ {c} = Awaiting(cl, e)
    BY DEF Awaiting
  <1>8. /\ Cardinality(Awaiting(cl, e)) = es[e].waiters + es[e].signals /\ es[e].waiters = 0
        /\ es[e].references = Cardinality(Holding(hd, e)) + es[e].signals
    BY <1>1 DEF Counted
  <1>5. /\ r.waiters = 0 /\ Cardinality(Awaiting(cl, e) \ {c}) = r.signals
        /\ r.references = Cardinality(Holding(hd, e)) + 1 + r.signals
    <2>1. Cardinality(Awaiting(cl, e) \ {c}) = Cardinality(Awaiting(cl, e))
      BY <1>4, Zenon
    <2> HIDE DEF Counted
    <2>2. QED
      BY <1>1, <1>2, <1>8, <2>1
  <1>6. RegistryFits(tb, [es EXCEPT ![e] = r], Put(hd, l, e), [cl EXCEPT ![c] = k])
    BY <1>2, <1>5, Granting
  <1>7. QED
    BY <1>3, <1>6

LEMMA EngineMade ==
    ASSUME NEW i \in Lists, NEW s \in {"loading", "loaded", "failed"}, NEW n \in Nat, NEW w \in Nat,
           NEW g \in Nat,
           NEW r, r = [list |-> i, state |-> s, references |-> n, waiters |-> w, signals |-> g]
    PROVE  /\ r \in Engines /\ r.list = i /\ r.state = s /\ r.references = n /\ r.waiters = w
           /\ r.signals = g
  BY DEF Engines

Made(r, i, s, n, w, g) ==
    /\ r \in Engines /\ r.list = i /\ r.state = s /\ r.references = n /\ r.waiters = w
    /\ r.signals = g

LEMMA EngineAnswered ==
    ASSUME NEW x \in Engines, NEW s \in {"loading", "loaded", "failed"}, NEW w \in Nat, NEW g \in Nat
    PROVE  /\ Made([x EXCEPT !.state = s, !.waiters = w, !.signals = g], x.list, s, x.references, w, g)
           /\ \A n \in Nat :
                Made([x EXCEPT !.state = s, !.waiters = w, !.signals = g, !.references = n],
                     x.list, s, n, w, g)
  BY DEF Engines, Made

LEMMA EngineLoaded ==
    ASSUME NEW x \in Engines
    PROVE  Made([x EXCEPT !.state = "loaded", !.waiters = 0, !.signals = x.waiters,
                          !.references = 1 + x.waiters],
                x.list, "loaded", 1 + x.waiters, 0, x.waiters)
  <1>1. x.waiters \in Nat
    BY DEF Engines
  <1>2. 0 \in Nat /\ 1 + x.waiters \in Nat /\ "loaded" \in {"loading", "loaded", "failed"}
    BY <1>1
  <1>3. QED
    BY <1>1, <1>2, EngineAnswered, Zenon

LEMMA EngineFailed ==
    ASSUME NEW x \in Engines
    PROVE  Made([x EXCEPT !.state = "failed", !.waiters = 0, !.signals = x.waiters],
                x.list, "failed", x.references, 0, x.waiters)
  <1>1. x.waiters \in Nat
    BY DEF Engines
  <1>2. 0 \in Nat /\ "failed" \in {"loading", "loaded", "failed"}
    OBVIOUS
  <1>3. QED
    BY <1>1, <1>2, EngineAnswered, Zenon

LEMMA LoadingFits ==
    ASSUME NEW tb, NEW es, NEW hd, NEW cl, RegistryFits(tb, es, hd, cl),
           NEW c \in Callers, cl[c].pc = "load", NEW e, e = cl[c].entry,
           NEW r \in Engines, r.list = es[e].list, r.state = "loaded", r.waiters = 0,
           r.signals = es[e].waiters, r.references = 1 + es[e].waiters,
           NEW l \in LeaseIds, l \notin DOMAIN hd,
           NEW k \in Calls, k.pc = "call", k.lease = l
    PROVE  e \in DOMAIN es /\ RegistryFits(tb, [es EXCEPT ![e] = r], Put(hd, l, e), [cl EXCEPT ![c] = k])
  <1>0. e \in DOMAIN es /\ es[e].state = "loading"
        /\ \A d \in Callers : cl[d].pc = "load" /\ cl[d].entry = e => d = c
    BY DEF RegistryFits, Loads
  <1>1. /\ Counted(es, hd, cl, e) /\ Cardinality(Holding(hd, e)) = 0
        /\ es[e] \in Engines /\ es[e].references \in Nat /\ es[e].signals \in Nat /\ es[e].waiters \in Nat
    BY <1>0, CountsTyped
  <1>3. Awaiting(cl, e) \ {c} = Awaiting(cl, e)
    BY DEF Awaiting
  <1>6. Cardinality(Awaiting(cl, e)) = es[e].waiters + es[e].signals /\ es[e].signals = 0
    BY <1>0, <1>1 DEF Counted
  <1>4. /\ Cardinality(Awaiting(cl, e) \ {c}) = r.signals
        /\ r.references = Cardinality(Holding(hd, e)) + 1 + r.signals
    <2>1. Cardinality(Awaiting(cl, e) \ {c}) = Cardinality(Awaiting(cl, e))
      BY <1>3, Zenon
    <2>2. QED
      BY <1>1, <1>6, <2>1
  <1>5. QED
    BY <1>0, <1>4, Granting

LEMMA WakingFits ==
    ASSUME NEW tb, NEW es, NEW hd, NEW cl, RegistryFits(tb, es, hd, cl),
           NEW c \in Callers, cl[c].pc = "wait", NEW e, e = cl[c].entry, es[e].state = "loaded",
           NEW l \in LeaseIds, l \notin DOMAIN hd,
           NEW k \in Calls, k.pc = "call", k.lease = l
    PROVE  RegistryFits(tb, [es EXCEPT ![e].signals = @ - 1], Put(hd, l, e), [cl EXCEPT ![c] = k])
  <1> DEFINE r == [es[e] EXCEPT !.signals = es[e].signals - 1]
  <1>0. e \in DOMAIN es
    BY DEF RegistryFits, Loads
  <1>1. /\ Counted(es, hd, cl, e) /\ Cardinality(Holding(hd, e)) \in Nat /\ IsFiniteSet(Awaiting(cl, e))
        /\ es[e] \in Engines /\ es[e].references \in Nat /\ es[e].signals \in Nat /\ es[e].waiters \in Nat
    BY <1>0, CountsTyped
  <1>2. c \in Awaiting(cl, e)
    BY DEF Awaiting
  <1>3. /\ Cardinality(Awaiting(cl, e)) = es[e].signals /\ es[e].waiters = 0
        /\ es[e].references = Cardinality(Holding(hd, e)) + es[e].signals
    BY <1>1 DEF Counted
  <1>4. Cardinality(Awaiting(cl, e) \ {c}) = es[e].signals - 1 /\ es[e].signals # 0
    BY <1>1, <1>2, <1>3, CountedOut
  <1>5. /\ r \in Engines /\ r.list = es[e].list /\ r.state = "loaded" /\ r.waiters = 0
        /\ r.signals = es[e].signals - 1 /\ r.references = es[e].references
    BY <1>1, <1>3, <1>4 DEF Engines
  <1>6. [es EXCEPT ![e].signals = @ - 1] = [es EXCEPT ![e] = r]
    OBVIOUS
  <1> HIDE DEF r
  <1>7. r.references = Cardinality(Holding(hd, e)) + 1 + r.signals
    BY <1>1, <1>3, <1>5
  <1>8. RegistryFits(tb, [es EXCEPT ![e] = r], Put(hd, l, e), [cl EXCEPT ![c] = k])
    BY <1>0, <1>4, <1>5, <1>7, Granting
  <1>9. QED
    BY <1>6, <1>8

-----------------------------------------------------------------------------
\* A request that neither loads nor waits afterwards changes nothing of the registry.
LEMMA RequestFits ==
    ASSUME NEW tb, NEW es, NEW hd, NEW cl, RegistryFits(tb, es, hd, cl),
           NEW c \in Callers, cl[c].pc # "wait", NEW k \in Calls, k.pc \notin {"load", "wait"},
           IF k.pc \in Served THEN k.lease \in DOMAIN hd ELSE k.lease = Nothing
    PROVE  RegistryFits(tb, es, hd, [cl EXCEPT ![c] = k])
  <1> DEFINE cl2 == [cl EXCEPT ![c] = k]
  <1>1. RegistryTyped(tb, es, hd, cl) /\ Leased(es, hd, cl) /\ Loads(es, cl) /\ Listed(tb, es)
    BY DEF RegistryFits
  <1>2. /\ cl2 \in [Callers -> Calls] /\ cl2[c] = k /\ \A d \in Callers : d # c => cl2[d] = cl[d]
    BY <1>1 DEF RegistryTyped
  <1> HIDE DEF cl2
  <1>3. RegistryTyped(tb, es, hd, cl2)
    BY <1>1, <1>2 DEF RegistryTyped
  <1>4. Leased(es, hd, cl2)
    BY <1>1, <1>2 DEF Leased
  <1>5. Loads(es, cl2)
    BY <1>1, <1>2 DEF Loads
  <1>6. \A x : Awaiting(cl2, x) = Awaiting(cl, x)
    BY <1>2 DEF Awaiting
  <1>7. ASSUME NEW x \in DOMAIN es PROVE Counted(es, hd, cl2, x)
    <2>1. Counted(es, hd, cl, x)
      BY DEF RegistryFits
    <2>2. QED
      BY <1>6, <2>1 DEF Counted
  <1>8. QED
    BY <1>1, <1>3, <1>4, <1>5, <1>7 DEF RegistryFits, cl2

\* acquire, while another request opens the engine.
LEMMA AwaitingFits ==
    ASSUME NEW tb, NEW es, NEW hd, NEW cl, RegistryFits(tb, es, hd, cl),
           NEW c \in Callers, cl[c].pc \notin {"load", "wait"},
           NEW e \in DOMAIN es, es[e].state = "loading",
           NEW k \in Calls, k.pc = "wait", k.entry = e, k.lease = Nothing
    PROVE  RegistryFits(tb, [es EXCEPT ![e].waiters = @ + 1], hd, [cl EXCEPT ![c] = k])
  <1> DEFINE r == [es[e] EXCEPT !.waiters = es[e].waiters + 1]
             es2 == [es EXCEPT ![e] = r]
             cl2 == [cl EXCEPT ![c] = k]
  <1>1. /\ Counted(es, hd, cl, e) /\ IsFiniteSet(Awaiting(cl, e))
        /\ es[e] \in Engines /\ es[e].references \in Nat /\ es[e].signals \in Nat /\ es[e].waiters \in Nat
    BY CountsTyped
  <1>2. /\ r \in Engines /\ r.list = es[e].list /\ r.state = "loading" /\ r.waiters = es[e].waiters + 1
        /\ r.signals = es[e].signals /\ r.references = es[e].references
    BY <1>1 DEF Engines
  <1>3. [es EXCEPT ![e].waiters = @ + 1] = es2
    OBVIOUS
  <1>4. RegistryTyped(tb, es, hd, cl) /\ Leased(es, hd, cl) /\ Loads(es, cl)
    BY DEF RegistryFits
  <1>5. /\ cl2 \in [Callers -> Calls] /\ cl2[c] = k /\ \A d \in Callers : d # c => cl2[d] = cl[d]
    BY <1>4 DEF RegistryTyped
  <1>6. DOMAIN es2 = DOMAIN es /\ es2[e] = r /\ \A x \in DOMAIN es : x # e => es2[x] = es[x]
    BY <1>4 DEF RegistryTyped
  <1> HIDE DEF cl2, es2, r
  <1>7. /\ Awaiting(cl2, e) = Awaiting(cl, e) \cup {c} /\ c \notin Awaiting(cl, e)
        /\ \A x : x # e => Awaiting(cl2, x) = Awaiting(cl, x)
    BY <1>5 DEF Awaiting
  <1>8. RegistryTyped(tb, es, hd, cl2)
    BY <1>4, <1>5 DEF RegistryTyped
  <1>9. Leased(es2, hd, cl2)
    BY <1>2, <1>4, <1>5, <1>6 DEF Leased, Served
  <1>10. Loads(es2, cl2)
    BY <1>2, <1>4, <1>5, <1>6 DEF Loads
  <1>11. Cardinality(Awaiting(cl2, e)) = Cardinality(Awaiting(cl, e)) + 1
    BY <1>1, <1>7, CountedOut
  <1>12. Cardinality(Awaiting(cl, e)) = es[e].waiters + es[e].signals /\ es[e].signals = 0
    BY <1>1 DEF Counted
  <1>13. Counted(es2, hd, cl2, e)
    BY <1>1, <1>2, <1>6, <1>11, <1>12 DEF Counted
  <1>14. RegistryFits(tb, es2, hd, cl2)
    BY <1>2, <1>7, <1>8, <1>9, <1>10, <1>13, EntryChanges DEF es2
  <1>15. QED
    BY <1>3, <1>14 DEF cl2

\* acquire, by the request that opens the engine.
LEMMA OpeningFits ==
    ASSUME NEW tb, NEW es, NEW hd, NEW cl, RegistryFits(tb, es, hd, cl),
           NEW c \in Callers, cl[c].pc \notin {"load", "wait"},
           NEW i \in Lists, tb[i] = Nothing, NEW n \in EntryIds, n \notin DOMAIN es,
           NEW r \in Engines, r.list = i, r.state = "loading", r.waiters = 0, r.signals = 0,
           NEW k \in Calls, k.pc = "load", k.entry = n, k.lease = Nothing
    PROVE  RegistryFits([tb EXCEPT ![i] = n], Put(es, n, r), hd, [cl EXCEPT ![c] = k])
  <1> DEFINE es2 == Put(es, n, r)
             tb2 == [tb EXCEPT ![i] = n]
             cl2 == [cl EXCEPT ![c] = k]
  <1>1. RegistryTyped(tb, es, hd, cl) /\ Leased(es, hd, cl) /\ Loads(es, cl) /\ Listed(tb, es)
    BY DEF RegistryFits
  <1>2. /\ cl2 \in [Callers -> Calls] /\ cl2[c] = k /\ \A d \in Callers : d # c => cl2[d] = cl[d]
    BY <1>1 DEF RegistryTyped
  <1>3. /\ DOMAIN es2 = DOMAIN es \cup {n} /\ es2[n] = r /\ \A x \in DOMAIN es : es2[x] = es[x]
        /\ es2 \in [DOMAIN es2 -> Engines]
    BY <1>1 DEF RegistryTyped, Put
  <1>4. /\ tb2 \in [Lists -> EntryIds \cup {Nothing}] /\ tb2[i] = n
        /\ \A j \in Lists : j # i => tb2[j] = tb[j]
    BY <1>1 DEF RegistryTyped
  <1>5. Nothing \notin EntryIds
    BY OfflineAssumption
  <1> HIDE DEF cl2, es2, tb2
  <1>6. RegistryTyped(tb2, es2, hd, cl2)
    BY <1>1, <1>2, <1>3, <1>4 DEF RegistryTyped
  <1>7. Leased(es2, hd, cl2)
    BY <1>1, <1>2, <1>3 DEF Leased, Served
  <1>8. Loads(es2, cl2)
    BY <1>1, <1>2, <1>3 DEF Loads
  <1>9. Listed(tb2, es2)
    <2>1. \A x \in DOMAIN es : x \in EntryIds /\ es[x].list \in Lists
      BY <1>1 DEF RegistryTyped, Engines
    <2>2. \A x \in DOMAIN es : es[x].state # "failed" => es[x].list # i
      BY <1>1, <1>5, <2>1 DEF Listed
    <2>3. QED
      BY <1>1, <1>3, <1>4, <2>1, <2>2 DEF Listed
  <1>10. \A x : Awaiting(cl2, x) = Awaiting(cl, x)
    BY <1>2 DEF Awaiting
  <1>11. Awaiting(cl, n) = {}
    BY <1>1 DEF Loads, Awaiting
  <1>12. Counted(es2, hd, cl2, n)
    <2>1. Cardinality(Awaiting(cl2, n)) = 0
      BY <1>10, <1>11, FS_EmptySet
    <2>2. QED
      BY <1>3, <2>1 DEF Counted
  <1>13. ASSUME NEW x \in DOMAIN es PROVE Counted(es2, hd, cl2, x)
    <2>1. Counted(es, hd, cl, x)
      BY DEF RegistryFits
    <2>2. QED
      BY <1>3, <1>10, <2>1 DEF Counted
  <1>14. QED
    BY <1>3, <1>6, <1>7, <1>8, <1>9, <1>12, <1>13 DEF RegistryFits, cl2, es2, tb2

\* Entries that nobody holds, awaits or loads go, and the table forgets them.
Forgotten(tb, gone) == [i \in Lists |-> IF tb[i] \in gone THEN Nothing ELSE tb[i]]

LEMMA ForgettingFits ==
    ASSUME NEW tb, NEW es, NEW hd, NEW cl, RegistryFits(tb, es, hd, cl), NEW gone,
           \A e \in gone \cap DOMAIN es :
              /\ Holding(hd, e) = {} /\ Awaiting(cl, e) = {}
              /\ \A c \in Callers : cl[c].pc = "load" => cl[c].entry # e
    PROVE  RegistryFits(Forgotten(tb, gone), Omit(es, gone), hd, cl)
  <1> DEFINE tb2 == Forgotten(tb, gone)
             es2 == Omit(es, gone)
  <1>1. RegistryTyped(tb, es, hd, cl) /\ Leased(es, hd, cl) /\ Loads(es, cl) /\ Listed(tb, es)
    BY DEF RegistryFits
  <1>2. /\ DOMAIN es2 = DOMAIN es \ gone /\ \A x \in DOMAIN es \ gone : es2[x] = es[x]
        /\ es2 \in [DOMAIN es2 -> Engines]
    BY <1>1 DEF RegistryTyped, Omit, Restrict
  <1>3. /\ tb2 \in [Lists -> EntryIds \cup {Nothing}]
        /\ \A i \in Lists : tb2[i] = IF tb[i] \in gone THEN Nothing ELSE tb[i]
    BY <1>1 DEF RegistryTyped, Forgotten
  <1> HIDE DEF es2, tb2
  <1>4. RegistryTyped(tb2, es2, hd, cl)
    BY <1>1, <1>2, <1>3 DEF RegistryTyped
  <1>5. Leased(es2, hd, cl)
    BY <1>1, <1>2 DEF Leased, Holding
  <1>6. Loads(es2, cl)
    BY <1>1, <1>2 DEF Loads, Awaiting
  <1>7. Listed(tb2, es2)
    <2>1. \A x \in DOMAIN es : es[x].list \in Lists
      BY <1>1 DEF RegistryTyped, Engines
    <2>2. QED
      BY <1>1, <1>2, <1>3, <2>1 DEF Listed
  <1>8. ASSUME NEW x \in DOMAIN es2 PROVE Counted(es2, hd, cl, x)
    <2>1. Counted(es, hd, cl, x) /\ es2[x] = es[x]
      BY <1>2 DEF RegistryFits
    <2>2. QED
      BY <2>1 DEF Counted
  <1>9. QED
    BY <1>4, <1>5, <1>6, <1>7, <1>8 DEF RegistryFits, es2, tb2

LEMMA IdleUnused ==
    ASSUME NEW tb, NEW es, NEW hd, NEW cl, RegistryFits(tb, es, hd, cl), NEW e, Idle(es, e)
    PROVE  /\ Holding(hd, e) = {} /\ Awaiting(cl, e) = {}
           /\ \A c \in Callers : cl[c].pc = "load" => cl[c].entry # e
  <1>1. e \in DOMAIN es /\ es[e].state = "loaded" /\ es[e].references = 0
    BY DEF Idle
  <1>2. /\ Counted(es, hd, cl, e) /\ IsFiniteSet(Holding(hd, e)) /\ IsFiniteSet(Awaiting(cl, e))
        /\ Cardinality(Holding(hd, e)) \in Nat /\ Cardinality(Awaiting(cl, e)) \in Nat
        /\ es[e].signals \in Nat
    BY <1>1, CountsTyped
  <1>3. /\ Cardinality(Awaiting(cl, e)) = 0 + es[e].signals
        /\ 0 = Cardinality(Holding(hd, e)) + es[e].signals
    BY <1>1, <1>2 DEF Counted
  <1>4. Cardinality(Awaiting(cl, e)) = 0 /\ Cardinality(Holding(hd, e)) = 0
    BY <1>2, <1>3
  <1>5. Holding(hd, e) = {} /\ Awaiting(cl, e) = {}
    BY <1>2, <1>4, CountedOut
  <1>6. QED
    BY <1>1, <1>5 DEF RegistryFits, Loads

\* A load that failed leaves an entry for its waiters alone.
LEMMA FailingFits ==
    ASSUME NEW tb, NEW es, NEW hd, NEW cl, RegistryFits(tb, es, hd, cl),
           NEW e \in DOMAIN es, es[e].state = "loading",
           \A c \in Callers : cl[c].pc = "load" => cl[c].entry # e,
           NEW r \in Engines, r.list = es[e].list, r.state = "failed", r.waiters = 0, r.signals = es[e].waiters
    PROVE  RegistryFits([tb EXCEPT ![es[e].list] = Nothing], [es EXCEPT ![e] = r], hd, cl)
  <1> DEFINE i == es[e].list
             tb2 == [tb EXCEPT ![es[e].list] = Nothing]
             es2 == [es EXCEPT ![e] = r]
  <1>1. RegistryTyped(tb, es, hd, cl) /\ Leased(es, hd, cl) /\ Loads(es, cl) /\ Listed(tb, es)
    BY DEF RegistryFits
  <1>2. Counted(es, hd, cl, e) /\ i \in Lists /\ es[e].waiters \in Nat /\ es[e].signals \in Nat
    BY CountsTyped
  <1>3. /\ DOMAIN es2 = DOMAIN es /\ es2[e] = r /\ \A x \in DOMAIN es : x # e => es2[x] = es[x]
        /\ es2 \in [DOMAIN es2 -> Engines]
    BY <1>1 DEF RegistryTyped
  <1>4. /\ tb2 \in [Lists -> EntryIds \cup {Nothing}] /\ tb2[i] = Nothing
        /\ \A j \in Lists : j # i => tb2[j] = tb[j]
    BY <1>1, <1>2 DEF RegistryTyped
  <1>10. r.list = i /\ i = es[e].list
    OBVIOUS
  <1> HIDE DEF es2, tb2, i
  <1>5. RegistryTyped(tb2, es2, hd, cl)
    BY <1>1, <1>3, <1>4 DEF RegistryTyped
  <1>6. Leased(es2, hd, cl) /\ Loads(es2, cl)
    BY <1>1, <1>3 DEF Leased, Loads
  <1>7. Listed(tb2, es2)
    <2>1. tb[i] = e
      BY <1>1, <1>10 DEF Listed
    <2>2. \A x \in DOMAIN es : es[x].list \in Lists
      BY <1>1 DEF RegistryTyped, Engines
    <2>3. QED
      BY <1>1, <1>3, <1>4, <1>10, <2>1, <2>2 DEF Listed
  <1>8. Counted(es2, hd, cl, e)
    <2>1. Cardinality(Awaiting(cl, e)) = es[e].waiters + es[e].signals /\ es[e].signals = 0
      BY <1>2 DEF Counted
    <2>2. QED
      BY <1>2, <1>3, <2>1 DEF Counted
  <1>9. ASSUME NEW x \in DOMAIN es, x # e PROVE Counted(es2, hd, cl, x)
    <2>1. Counted(es, hd, cl, x) /\ es2[x] = es[x]
      BY <1>3, <1>9 DEF RegistryFits
    <2>2. QED
      BY <2>1 DEF Counted
  <1>11. QED
    BY <1>3, <1>5, <1>6, <1>7, <1>8, <1>9 DEF RegistryFits, es2, tb2

\* A waiter that is told of the failure goes.
LEMMA TellingFits ==
    ASSUME NEW tb, NEW es, NEW hd, NEW cl, RegistryFits(tb, es, hd, cl),
           NEW c \in Callers, cl[c].pc = "wait", NEW e, e = cl[c].entry, es[e].state = "failed",
           NEW k \in Calls, k.pc = "idle", k.lease = Nothing
    PROVE  /\ e \in DOMAIN es
           /\ RegistryFits(tb, [es EXCEPT ![e].signals = @ - 1], hd, [cl EXCEPT ![c] = k])
           /\ es[e].signals = 1 => Awaiting([cl EXCEPT ![c] = k], e) = {}
  <1> DEFINE r == [es[e] EXCEPT !.signals = es[e].signals - 1]
             es2 == [es EXCEPT ![e] = r]
             cl2 == [cl EXCEPT ![c] = k]
  <1>1. RegistryTyped(tb, es, hd, cl) /\ Leased(es, hd, cl) /\ Loads(es, cl) /\ e \in DOMAIN es
    BY DEF RegistryFits, Loads
  <1>2. /\ Counted(es, hd, cl, e) /\ IsFiniteSet(Awaiting(cl, e))
        /\ es[e] \in Engines /\ es[e].references \in Nat /\ es[e].signals \in Nat /\ es[e].waiters \in Nat
    BY <1>1, CountsTyped
  <1>3. c \in Awaiting(cl, e)
    BY DEF Awaiting
  <1>4. Cardinality(Awaiting(cl, e)) = es[e].signals /\ es[e].waiters = 0
    BY <1>2 DEF Counted
  <1>5. Cardinality(Awaiting(cl, e) \ {c}) = es[e].signals - 1 /\ es[e].signals # 0
    BY <1>2, <1>3, <1>4, CountedOut
  <1>6. /\ r \in Engines /\ r.list = es[e].list /\ r.state = "failed" /\ r.waiters = 0
        /\ r.signals = es[e].signals - 1
    BY <1>2, <1>4, <1>5 DEF Engines
  <1>7. [es EXCEPT ![e].signals = @ - 1] = es2
    OBVIOUS
  <1>8. /\ cl2 \in [Callers -> Calls] /\ cl2[c] = k /\ \A d \in Callers : d # c => cl2[d] = cl[d]
    BY <1>1 DEF RegistryTyped
  <1>9. DOMAIN es2 = DOMAIN es /\ es2[e] = r /\ \A x \in DOMAIN es : x # e => es2[x] = es[x]
    BY <1>1 DEF RegistryTyped
  <1> HIDE DEF cl2, es2, r
  <1>10. Awaiting(cl2, e) = Awaiting(cl, e) \ {c} /\ \A x : x # e => Awaiting(cl2, x) = Awaiting(cl, x)
    BY <1>8 DEF Awaiting
  <1>11. RegistryTyped(tb, es, hd, cl2)
    BY <1>1, <1>8 DEF RegistryTyped
  <1>12. Leased(es2, hd, cl2)
    BY <1>1, <1>6, <1>8, <1>9 DEF Leased, Served
  <1>13. Loads(es2, cl2)
    BY <1>1, <1>6, <1>8, <1>9 DEF Loads
  <1>14. Cardinality(Awaiting(cl2, e)) = es[e].signals - 1
    BY <1>5, <1>10
  <1>15. Counted(es2, hd, cl2, e)
    BY <1>2, <1>6, <1>9, <1>14 DEF Counted
  <1>16. RegistryFits(tb, es2, hd, cl2)
    BY <1>1, <1>6, <1>10, <1>11, <1>12, <1>13, <1>15, EntryChanges DEF es2
  <1>17. es[e].signals = 1 => Awaiting(cl2, e) = {}
    <2>1. IsFiniteSet(Awaiting(cl2, e))
      BY WaitersFinite
    <2>2. QED
      BY <1>14, <2>1, CountedOut
  <1>18. QED
    BY <1>1, <1>7, <1>16, <1>17 DEF cl2

\* OfflineEngineLease.deinit: a lease that nobody holds goes.
LEMMA ReturningFits ==
    ASSUME NEW tb, NEW es, NEW hd, NEW cl, RegistryFits(tb, es, hd, cl),
           NEW l \in DOMAIN hd, \A c \in Callers : cl[c].lease # l, NEW e, e = hd[l]
    PROVE  /\ e \in DOMAIN es /\ es[e].state = "loaded" /\ tb[es[e].list] = e
           /\ RegistryFits(tb, [es EXCEPT ![e].references = @ - 1], Omit(hd, {l}), cl)
  <1> DEFINE r == [es[e] EXCEPT !.references = es[e].references - 1]
             es2 == [es EXCEPT ![e] = r]
             hd2 == Omit(hd, {l})
  <1>1. RegistryTyped(tb, es, hd, cl) /\ Leased(es, hd, cl) /\ Loads(es, cl) /\ Listed(tb, es)
    BY DEF RegistryFits
  <1>2. e \in DOMAIN es /\ es[e].state = "loaded" /\ tb[es[e].list] = e
    BY <1>1 DEF Leased, Listed
  <1>3. /\ Counted(es, hd, cl, e) /\ IsFiniteSet(Holding(hd, e)) /\ Cardinality(Holding(hd, e)) \in Nat
        /\ es[e] \in Engines /\ es[e].references \in Nat /\ es[e].signals \in Nat /\ es[e].waiters \in Nat
    BY <1>2, CountsTyped
  <1>4. l \in Holding(hd, e)
    BY DEF Holding
  <1>5. /\ Cardinality(Awaiting(cl, e)) = es[e].waiters + es[e].signals /\ es[e].waiters = 0
        /\ es[e].references = Cardinality(Holding(hd, e)) + es[e].signals
    BY <1>2, <1>3 DEF Counted
  <1>6. Cardinality(Holding(hd, e) \ {l}) = Cardinality(Holding(hd, e)) - 1 /\ Cardinality(Holding(hd, e)) # 0
    BY <1>3, <1>4, CountedOut
  <1>7. es[e].references - 1 \in Nat
    BY <1>3, <1>5, <1>6
  <1>8. /\ r \in Engines /\ r.list = es[e].list /\ r.state = "loaded" /\ r.waiters = 0
        /\ r.signals = es[e].signals /\ r.references = es[e].references - 1
    BY <1>2, <1>3, <1>5, <1>7 DEF Engines
  <1>9. [es EXCEPT ![e].references = @ - 1] = es2
    OBVIOUS
  <1>10. DOMAIN es2 = DOMAIN es /\ es2[e] = r /\ \A x \in DOMAIN es : x # e => es2[x] = es[x]
    BY <1>1, <1>2 DEF RegistryTyped
  <1>11. /\ DOMAIN hd2 = DOMAIN hd \ {l} /\ hd2 \in [DOMAIN hd2 -> EntryIds]
         /\ \A m \in DOMAIN hd \ {l} : hd2[m] = hd[m]
    BY <1>1 DEF RegistryTyped, Omit, Restrict
  <1> HIDE DEF hd2, es2, r
  <1>12. Holding(hd2, e) = Holding(hd, e) \ {l} /\ \A x : x # e => Holding(hd2, x) = Holding(hd, x)
    BY <1>11 DEF Holding
  <1>13. RegistryTyped(tb, es, hd2, cl)
    BY <1>1, <1>11 DEF RegistryTyped
  <1>14. Leased(es2, hd2, cl)
    BY <1>1, <1>2, <1>8, <1>10, <1>11 DEF Leased
  <1>15. Loads(es2, cl)
    BY <1>1, <1>2, <1>10 DEF Loads
  <1>16. Cardinality(Holding(hd2, e)) = Cardinality(Holding(hd, e)) - 1
    BY <1>6, <1>12
  <1>17. Counted(es2, hd2, cl, e)
    BY <1>3, <1>5, <1>8, <1>10, <1>16 DEF Counted
  <1>18. RegistryFits(tb, es2, hd2, cl)
    BY <1>2, <1>8, <1>12, <1>13, <1>14, <1>15, <1>17, EntryChanges DEF es2
  <1>19. QED
    BY <1>2, <1>9, <1>18 DEF hd2

-----------------------------------------------------------------------------
\* The engine used last is after every other loaded one.
LEMMA UsedLast ==
    ASSUME NEW es, Ordered(es, older), NEW e \in DOMAIN es,
           NEW es2, DOMAIN es2 = DOMAIN es, \A x \in DOMAIN es : x # e => es2[x].state = es[x].state,
           NEW es3, DOMAIN es3 = DOMAIN es, \A x \in DOMAIN es : x # e => es3[x].state = es[x].state
    PROVE  Ordered(es2, MoveLast(es3, e))
  <1>1. SUFFICES ASSUME NEW x \in DOMAIN es, NEW y \in DOMAIN es, x # y,
                        es2[x].state = "loaded", es2[y].state = "loaded"
                 PROVE  << x, y >> \in MoveLast(es3, e) \/ << y, x >> \in MoveLast(es3, e)
    BY DEF Ordered
  <1>2. CASE x = e
    BY <1>1, <1>2 DEF MoveLast
  <1>3. CASE y = e
    BY <1>1, <1>3 DEF MoveLast
  <1>4. CASE x # e /\ y # e
    <2>1. << x, y >> \in older \/ << y, x >> \in older
      BY <1>1, <1>4 DEF Ordered
    <2>2. QED
      BY <1>1, <1>4, <2>1 DEF MoveLast
  <1>5. QED
    BY <1>2, <1>3, <1>4

Kept(order, gone) == {u \in order : u[1] \notin gone /\ u[2] \notin gone}

\* evictIdleLocked leaves one idle engine.
LEMMA EvictingFits ==
    ASSUME NEW tb, NEW es, NEW hd, NEW cl, RegistryFits(tb, es, hd, cl),
           NEW order, Ordered(es, order),
           NEW excluded, \A e : Idle(es, e) => es[e].list # excluded,
           NEW gone, gone = Evicted(es, order, excluded)
    PROVE  /\ RegistryFits(Forgotten(tb, gone), Omit(es, gone), hd, cl)
           /\ Ordered(Omit(es, gone), Kept(order, gone))
           /\ OneIdle(Omit(es, gone))
  <1>1. \A e : e \in gone <=> Idle(es, e) /\ \E f : Idle(es, f) /\ << e, f >> \in order
    BY DEF Evicted, Idle
  <1>2. RegistryFits(Forgotten(tb, gone), Omit(es, gone), hd, cl)
    BY <1>1, IdleUnused, ForgettingFits
  <1> DEFINE es2 == Omit(es, gone)
  <1>3. es \in [DOMAIN es -> Engines]
    BY DEF RegistryFits, RegistryTyped
  <1>4. DOMAIN es2 = DOMAIN es \ gone /\ \A x \in DOMAIN es \ gone : es2[x] = es[x]
    BY <1>3 DEF Omit, Restrict
  <1> HIDE DEF es2
  <1>5. Ordered(es2, Kept(order, gone))
    BY <1>4 DEF Ordered, Kept
  <1>6. ASSUME NEW e, NEW f, Idle(es2, e), Idle(es2, f) PROVE e = f
    <2>1. Idle(es, e) /\ Idle(es, f) /\ e \notin gone /\ f \notin gone
      BY <1>4, <1>6 DEF Idle
    <2>2. << e, f >> \notin order /\ << f, e >> \notin order
      BY <1>1, <2>1
    <2>3. QED
      BY <2>1, <2>2 DEF Ordered, Idle
  <1>7. QED
    BY <1>2, <1>5, <1>6 DEF OneIdle, es2

-----------------------------------------------------------------------------
\* The actions on the registry.
LEMMA RegistryMeansNext ==
    EnginesInv' <=> /\ RegistryFits(table', entry', handed', call') /\ Ordered(entry', older')
                    /\ OneIdle(entry') /\ ReferencesHeld(handed)' /\ OfflineTypeOK'
  BY DEF EnginesInv, OfflineTypeOK, TableFits, LeasesAreLive, LoadsAreAwaited, EnginesCounted,
    UsesAreOrdered, IdleEngines, LeasesOf, WaitersOf, RegistryFits, RegistryTyped, Listed, Leased,
    Loads, Counted, Holding, Awaiting, Idle, Ordered, OneIdle, ReferencesHeld

\* What a registry step owes, when the references and their leases are left alone.
LEMMA RegistryStep ==
    ASSUME EnginesInv, RegistryFits(table', entry', handed', call'), Ordered(entry', older'),
           OneIdle(entry'), \A r \in DOMAIN reference : reference[r].lease \in DOMAIN handed',
           UNCHANGED << kept, reference, core, time >>
    PROVE  EnginesInv'
  <1>1. OfflineTypeOK'
    BY RegistryMeans DEF OfflineTypeOK, RegistryFits, RegistryTyped
  <1>2. ReferencesHeld(handed)'
    BY DEF ReferencesHeld
  <1>3. QED
    BY <1>1, <1>2, RegistryMeansNext

Granted(c, e, l, k) ==
    /\ l \in LeaseIds /\ l \notin DOMAIN handed /\ k \in Calls
    /\ k.pc = "call" /\ k.lease = l /\ k.ref = call[c].ref
    /\ handed' = Put(handed, l, e) /\ call' = [call EXCEPT ![c] = k]
    /\ DOMAIN handed' = DOMAIN handed \cup {l}
    /\ \A m \in DOMAIN handed : handed'[m] = handed[m]

LEMMA GrantMeans ==
    ASSUME OfflineTypeOK, NEW c \in Callers, NEW e \in EntryIds, MakeLease(c, e, "call")
    PROVE  \E l, k : Granted(c, e, l, k)
  <1> DEFINE l == NextFree(LeaseIds, handed)
             k == [call[c] EXCEPT !.pc = "call", !.lease = l]
  <1>1. l \in LeaseIds /\ l \notin DOMAIN handed
    BY FreeIsFree, OfflineAssumption DEF MakeLease
  <1>2. handed' = Put(handed, l, e) /\ call' = [call EXCEPT ![c] = k]
    BY DEF MakeLease
  <1>5. call[c] \in Calls
    BY DEF OfflineTypeOK
  <1> HIDE DEF l
  <1>3. k \in Calls /\ k.pc = "call" /\ k.lease = l /\ k.ref = call[c].ref
    BY <1>1, <1>5 DEF Calls, Served
  <1>4. DOMAIN handed' = DOMAIN handed \cup {l} /\ \A m \in DOMAIN handed : handed'[m] = handed[m]
    BY <1>1, <1>2 DEF Put
  <1> HIDE DEF k
  <1>6. Granted(c, e, l, k)
    BY <1>1, <1>2, <1>3, <1>4 DEF Granted
  <1>7. QED
    BY <1>6

LEMMA LeasesStay ==
    ASSUME EnginesInv, DOMAIN handed \subseteq DOMAIN handed'
    PROVE  \A r \in DOMAIN reference : reference[r].lease \in DOMAIN handed'
  BY RegistryMeans DEF ReferencesHeld

LEMMA AcquireKeeps ==
    ASSUME EnginesInv, NEW c \in Callers, call[c].list \in Lists, AcquireEngine(c)
    PROVE  EnginesInv'
  <1> DEFINE i == call[c].list
             e == table[i]
  <1>1. /\ RegistryFits(table, entry, handed, call) /\ Ordered(entry, older) /\ OneIdle(entry)
        /\ OfflineTypeOK
    BY RegistryMeans
  <1>2. /\ call[c].pc = "acquire" /\ call[c] \in Calls /\ call[c].lease = Nothing
        /\ UNCHANGED << kept, reference, core, time >>
    BY <1>1 DEF AcquireEngine, OfflineTypeOK, RegistryFits, Leased, Served
  <1>3. e # Nothing => e \in DOMAIN entry /\ e \in EntryIds /\ entry[e] \in Engines
    BY <1>1 DEF RegistryFits, Listed, OfflineTypeOK
  <1>4. CASE /\ e # Nothing /\ entry[e].state = "loaded"
             /\ entry' = [entry EXCEPT ![e].references = @ + 1]
             /\ older' = MoveLast(entry, e)
             /\ MakeLease(c, e, "call")
             /\ UNCHANGED table
    <2> HIDE DEF e
    <2>1. PICK l, k : Granted(c, e, l, k)
      BY <1>1, <1>3, <1>4, GrantMeans
    <2>2. RegistryFits(table, [entry EXCEPT ![e].references = @ + 1], Put(handed, l, e), [call EXCEPT ![c] = k])
      BY <1>1, <1>2, <1>3, <1>4, <2>1, SharingFits DEF Granted
    <2>3. RegistryFits(table', entry', handed', call')
      BY <1>4, <2>1, <2>2 DEF Granted
    <2>8. entry \in [DOMAIN entry -> Engines]
      BY <1>1 DEF OfflineTypeOK
    <2>4. DOMAIN entry' = DOMAIN entry /\ \A x \in DOMAIN entry : entry'[x].state = entry[x].state
      BY <1>3, <1>4, <2>8 DEF Engines
    <2>5. Ordered(entry', older')
      BY <1>1, <1>3, <1>4, <2>4, UsedLast
    <2>6. OneIdle(entry')
      <3>1. entry[e].references \in Nat /\ entry'[e].references = entry[e].references + 1
        BY <1>3, <1>4, <2>8 DEF Engines
      <3>2. \A x \in DOMAIN entry : x # e => entry'[x] = entry[x]
        BY <1>3, <1>4, <2>8
      <3>3. \A x : Idle(entry', x) => Idle(entry, x)
        BY <2>4, <3>1, <3>2 DEF Idle
      <3>4. QED
        BY <1>1, <3>3 DEF OneIdle
    <2>7. QED
      BY <1>2, <2>1, <2>3, <2>5, <2>6, RegistryStep, LeasesStay DEF Granted
  <1>5. CASE /\ e # Nothing /\ entry[e].state = "loading"
             /\ entry' = [entry EXCEPT ![e].waiters = @ + 1]
             /\ call' = [call EXCEPT ![c] = [@ EXCEPT !.pc = "wait", !.entry = e]]
             /\ UNCHANGED << table, older, handed >>
    <2> DEFINE k == [call[c] EXCEPT !.pc = "wait", !.entry = e]
    <2>9. call' = [call EXCEPT ![c] = k]
      BY <1>5
    <2> HIDE DEF e
    <2>1. k \in Calls /\ k.pc = "wait" /\ k.entry = e /\ k.lease = Nothing
      BY <1>2, <1>3, <1>5 DEF Calls, Served
    <2> HIDE DEF k
    <2>2. RegistryFits(table, [entry EXCEPT ![e].waiters = @ + 1], handed, [call EXCEPT ![c] = k])
      BY <1>1, <1>2, <1>3, <1>5, <2>1, AwaitingFits
    <2>3. RegistryFits(table', entry', handed', call')
      BY <1>5, <2>9, <2>2
    <2>8. entry \in [DOMAIN entry -> Engines]
      BY <1>1 DEF OfflineTypeOK
    <2>4. /\ DOMAIN entry' = DOMAIN entry
          /\ \A x \in DOMAIN entry : entry'[x].state = entry[x].state /\ entry'[x].references = entry[x].references
      BY <1>3, <1>5, <2>8 DEF Engines
    <2>5. Ordered(entry', older')
      BY <1>1, <1>5, <2>4 DEF Ordered
    <2>6. OneIdle(entry')
      BY <1>1, <2>4 DEF OneIdle, Idle
    <2>7. QED
      BY <1>2, <1>5, <2>3, <2>5, <2>6, RegistryStep, LeasesStay
  <1>6. CASE /\ e = Nothing /\ FreeIds(EntryIds, entry) # {}
             /\ LET n == NextFree(EntryIds, entry)
                IN  /\ entry' = Put(entry, n, [list |-> i, state |-> "loading", references |-> 0,
                                             waiters |-> 0, signals |-> 0])
                    /\ table' = [table EXCEPT ![i] = n]
                    /\ call' = [call EXCEPT ![c] = [@ EXCEPT !.pc = "load", !.entry = n]]
             /\ UNCHANGED << older, handed >>
    <2> DEFINE n == NextFree(EntryIds, entry)
               k == [call[c] EXCEPT !.pc = "load", !.entry = n]
               r == [list |-> i, state |-> "loading", references |-> 0, waiters |-> 0, signals |-> 0]
    <2>1. n \in EntryIds /\ n \notin DOMAIN entry
      BY <1>6, FreeIsFree, OfflineAssumption
    <2>2. /\ entry' = Put(entry, n, r) /\ table' = [table EXCEPT ![i] = n]
          /\ call' = [call EXCEPT ![c] = k]
      BY <1>6
    <2> HIDE DEF n
    <2>3. k \in Calls /\ k.pc = "load" /\ k.entry = n /\ k.lease = Nothing
      BY <1>2, <2>1 DEF Calls, Served
    <2>4. /\ r \in Engines /\ r.list = i /\ r.state = "loading" /\ r.references = 0 /\ r.waiters = 0
          /\ r.signals = 0
      BY EngineMade
    <2> HIDE DEF k, r
    <2>5. RegistryFits([table EXCEPT ![i] = n], Put(entry, n, r), handed, [call EXCEPT ![c] = k])
      BY <1>1, <1>2, <1>6, <2>1, <2>3, <2>4, OpeningFits
    <2>6. RegistryFits(table', entry', handed', call')
      BY <1>6, <2>2, <2>5
    <2>7. /\ DOMAIN entry' = DOMAIN entry \cup {n} /\ entry'[n] = r
          /\ \A x \in DOMAIN entry : entry'[x] = entry[x]
      BY <2>1, <2>2 DEF Put
    <2>8. Ordered(entry', older')
      BY <1>1, <1>6, <2>4, <2>7 DEF Ordered
    <2>9. OneIdle(entry')
      BY <1>1, <2>4, <2>7 DEF OneIdle, Idle
    <2>10. QED
      BY <1>2, <1>6, <2>6, <2>8, <2>9, RegistryStep, LeasesStay
  <1>7. QED
    BY <1>4, <1>5, <1>6 DEF AcquireEngine

LEMMA LoadKeeps ==
    ASSUME EnginesInv, NEW c \in Callers, LoadEngine(c)
    PROVE  EnginesInv'
  <1> DEFINE e == call[c].entry
             r == Loaded(e)
             es == [entry EXCEPT ![e] = Loaded(e)]
             order == MoveLast(es, e)
             excluded == entry[e].list
             gone == Evicted(es, order, excluded)
  <1>1. /\ RegistryFits(table, entry, handed, call) /\ Ordered(entry, older) /\ OneIdle(entry)
        /\ OfflineTypeOK
    BY RegistryMeans
  <1>2. /\ call[c].pc = "load" /\ e \in DOMAIN entry /\ entry[e].state = "loading"
        /\ UNCHANGED << kept, reference, core, time >>
    BY <1>1 DEF LoadEngine, RegistryFits, Loads
  <1>3. /\ entry[e] \in Engines /\ entry[e].waiters \in Nat /\ e \in EntryIds /\ entry[e].list \in Lists
        /\ entry \in [DOMAIN entry -> Engines]
    BY <1>1, <1>2 DEF OfflineTypeOK, Engines
  <1>4. /\ MakeLease(c, e, "call") /\ entry' = Omit(es, gone) /\ older' = Kept(order, gone)
        /\ table' = Forgotten(table, gone)
    BY DEF LoadEngine, Evict, Kept, Forgotten
  <1>6. /\ r \in Engines /\ r.list = entry[e].list /\ r.state = "loaded" /\ r.waiters = 0
        /\ r.signals = entry[e].waiters /\ r.references = 1 + entry[e].waiters
    <2>1. Made(r, entry[e].list, "loaded", 1 + entry[e].waiters, 0, entry[e].waiters)
      BY <1>3, EngineLoaded DEF Loaded
    <2> HIDE DEF r
    <2>2. QED
      BY <2>1 DEF Made
  <1>7. es = [entry EXCEPT ![e] = r]
    OBVIOUS
  <1>8. DOMAIN es = DOMAIN entry /\ es[e] = r /\ \A x \in DOMAIN entry : x # e => es[x] = entry[x]
    BY <1>2, <1>3
  <1> HIDE DEF e, r, es
  <1>9. PICK l, k : Granted(c, e, l, k)
    BY <1>1, <1>3, <1>4, GrantMeans
  <1>10. RegistryFits(table, es, handed', call')
    <2>1. RegistryFits(table, [entry EXCEPT ![e] = r], Put(handed, l, e), [call EXCEPT ![c] = k])
      BY <1>1, <1>2, <1>6, <1>9, LoadingFits DEF Granted, e
    <2>2. QED
      BY <1>7, <1>9, <2>1 DEF Granted
  <1>11. Ordered(es, order)
    BY <1>1, <1>2, <1>8, UsedLast
  <1>12. \A x : Idle(es, x) => es[x].list # excluded
    <2>1. Listed(table, es)
      BY <1>10 DEF RegistryFits
    <2>2. r.references # 0 /\ r.list = excluded /\ r.state # "failed"
      BY <1>3, <1>6
    <2>3. QED
      BY <1>2, <1>8, <2>1, <2>2 DEF Listed, Idle
  <1> HIDE DEF order, excluded, gone
  <1>13. /\ RegistryFits(Forgotten(table, gone), Omit(es, gone), handed', call')
         /\ Ordered(Omit(es, gone), Kept(order, gone)) /\ OneIdle(Omit(es, gone))
    <2>1. gone = Evicted(es, order, excluded)
      BY DEF gone
    <2>2. QED
      BY <1>10, <1>11, <1>12, <2>1, EvictingFits
  <1>14. RegistryFits(table', entry', handed', call') /\ Ordered(entry', older') /\ OneIdle(entry')
    BY <1>4, <1>13
  <1>15. QED
    BY <1>2, <1>9, <1>14, RegistryStep, LeasesStay DEF Granted

LEMMA RestingTyped ==
    /\ Resting \in Calls /\ Resting.pc = "idle" /\ Resting.lease = Nothing /\ Resting.ref = Nothing
  BY DEF Resting, Calls

LEMMA LoadFailsKeeps ==
    ASSUME EnginesInv, NEW c \in Callers, LoadFails(c)
    PROVE  EnginesInv'
  <1> DEFINE e == call[c].entry
             i == entry[e].list
             r == [entry[e] EXCEPT !.state = "failed", !.waiters = 0, !.signals = entry[e].waiters]
  <1>1. /\ RegistryFits(table, entry, handed, call) /\ Ordered(entry, older) /\ OneIdle(entry)
        /\ OfflineTypeOK
    BY RegistryMeans
  <1>2. /\ call[c].pc = "load" /\ e \in DOMAIN entry /\ entry[e].state = "loading"
        /\ \A d \in Callers : call[d].pc = "load" /\ call[d].entry = e => d = c
        /\ UNCHANGED << handed, older, kept, reference, core, time >>
    BY <1>1 DEF LoadFails, RegistryFits, Loads
  <1>3. /\ entry[e] \in Engines /\ entry[e].waiters \in Nat /\ e \in EntryIds /\ i \in Lists
        /\ entry[e].references \in Nat
        /\ entry \in [DOMAIN entry -> Engines] /\ call \in [Callers -> Calls]
        /\ table \in [Lists -> EntryIds \cup {Nothing}]
    BY <1>1, <1>2 DEF OfflineTypeOK, Engines
  <1>4. Made(r, i, "failed", entry[e].references, 0, entry[e].waiters)
    BY <1>3, EngineFailed
  <1>5. /\ table' = [table EXCEPT ![i] = Nothing]
        /\ entry' = IF r.signals = 0 THEN Omit(entry, {e}) ELSE [entry EXCEPT ![e] = r]
        /\ call' = [call EXCEPT ![c] = Resting]
    BY DEF LoadFails
  <1> HIDE DEF e, r
  <1>16. r.signals = entry[e].waiters
    BY <1>4 DEF Made
  <1>6. RegistryFits(table, entry, handed, call')
    BY <1>1, <1>2, <1>5, RequestFits, RestingTyped DEF Served
  <1>7. \A d \in Callers : call'[d].pc = "load" => call'[d].entry # e
    BY <1>2, <1>3, <1>5, RestingTyped
  <1>8. CASE r.signals = 0
    <2>1. entry' = Omit(entry, {e})
      BY <1>5, <1>8
    <2>2. /\ DOMAIN entry' = DOMAIN entry \ {e} /\ \A x \in DOMAIN entry \ {e} : entry'[x] = entry[x]
      BY <2>1, <1>3 DEF Omit, Restrict
    <2>3. table' = Forgotten(table, {e})
      <3>1. Listed(table, entry)
        BY <1>1 DEF RegistryFits
      <3>2. \A j \in Lists : table[j] = e <=> j = i
        BY <1>2, <1>3, <3>1, OfflineAssumption DEF Listed
      <3>3. \A j \in Lists : (IF table[j] \in {e} THEN Nothing ELSE table[j]) = IF j = i THEN Nothing ELSE table[j]
        BY <3>2
      <3>4. table' = [j \in Lists |-> IF j = i THEN Nothing ELSE table[j]]
        BY <1>3, <1>5
      <3>5. QED
        BY <3>3, <3>4 DEF Forgotten
    <2>4. Holding(handed, e) = {}
      BY <1>1, <1>2, CountsTyped
    <2>5. Awaiting(call', e) = {}
      <3>1. Counted(entry, handed, call', e) /\ IsFiniteSet(Awaiting(call', e))
        BY <1>2, <1>6, CountsTyped
      <3>2. Cardinality(Awaiting(call', e)) = entry[e].waiters + entry[e].signals /\ entry[e].signals = 0
        BY <1>2, <3>1 DEF Counted
      <3>3. Cardinality(Awaiting(call', e)) = 0
        BY <1>8, <1>16, <3>2
      <3>4. QED
        BY <3>1, <3>3, CountedOut
    <2>6. RegistryFits(Forgotten(table, {e}), Omit(entry, {e}), handed, call')
      BY <1>6, <1>7, <2>4, <2>5, ForgettingFits
    <2>7. RegistryFits(table', entry', handed', call')
      BY <1>2, <2>1, <2>3, <2>6
    <2>8. Ordered(entry', older') /\ OneIdle(entry')
      BY <1>1, <1>2, <2>2 DEF Ordered, OneIdle, Idle
    <2>9. QED
      BY <1>2, <2>7, <2>8, RegistryStep, LeasesStay
  <1>9. CASE r.signals # 0
    <2>1. entry' = [entry EXCEPT ![e] = r]
      BY <1>5, <1>9
    <2>2. /\ r \in Engines /\ r.list = i /\ r.state = "failed" /\ r.waiters = 0
          /\ r.signals = entry[e].waiters
      BY <1>4 DEF Made
    <2>7. RegistryFits([table EXCEPT ![entry[e].list] = Nothing], [entry EXCEPT ![e] = r], handed, call')
      BY <1>2, <1>6, <1>7, <2>2, FailingFits
    <2>3. RegistryFits(table', entry', handed, call')
      BY <1>5, <2>1, <2>7
    <2>4. DOMAIN entry' = DOMAIN entry /\ entry'[e] = r /\ \A x \in DOMAIN entry : x # e => entry'[x] = entry[x]
      BY <1>2, <1>3, <2>1
    <2>5. Ordered(entry', older') /\ OneIdle(entry')
      BY <1>1, <1>2, <2>2, <2>4 DEF Ordered, OneIdle, Idle
    <2>6. QED
      BY <1>2, <2>3, <2>5, RegistryStep, LeasesStay
  <1>10. QED
    BY <1>8, <1>9

LEMMA WakeKeeps ==
    ASSUME EnginesInv, NEW c \in Callers, WakeWaiter(c)
    PROVE  EnginesInv'
  <1> DEFINE e == call[c].entry
             woken == [entry EXCEPT ![e].signals = @ - 1]
  <1>1. /\ RegistryFits(table, entry, handed, call) /\ Ordered(entry, older) /\ OneIdle(entry)
        /\ OfflineTypeOK
    BY RegistryMeans
  <1>2. /\ call[c].pc = "wait" /\ e \in DOMAIN entry /\ entry[e].signals > 0
        /\ UNCHANGED << table, older, kept, reference, core, time >>
    BY <1>1 DEF WakeWaiter, RegistryFits, Loads
  <1>3. /\ entry[e] \in Engines /\ e \in EntryIds
        /\ entry \in [DOMAIN entry -> Engines] /\ call \in [Callers -> Calls]
    BY <1>1, <1>2 DEF OfflineTypeOK
  <1>4. /\ DOMAIN woken = DOMAIN entry /\ \A x \in DOMAIN entry : x # e => woken[x] = entry[x]
        /\ \A x \in DOMAIN entry : woken[x].state = entry[x].state /\ woken[x].references = entry[x].references
    BY <1>2, <1>3 DEF Engines
  <1>5. CASE /\ entry[e].state = "loaded" /\ entry' = woken /\ MakeLease(c, e, "call")
    <2> HIDE DEF woken
    <2>1. PICK l, k : Granted(c, e, l, k)
      BY <1>1, <1>3, <1>5, GrantMeans
    <2>2. RegistryFits(table, woken, Put(handed, l, e), [call EXCEPT ![c] = k])
      BY <1>1, <1>2, <1>5, <2>1, WakingFits DEF Granted, woken
    <2>3. RegistryFits(table', entry', handed', call')
      BY <1>2, <1>5, <2>1, <2>2 DEF Granted
    <2>4. Ordered(entry', older') /\ OneIdle(entry')
      BY <1>1, <1>2, <1>4, <1>5 DEF Ordered, OneIdle, Idle
    <2>5. QED
      BY <1>2, <2>1, <2>3, <2>4, RegistryStep, LeasesStay DEF Granted
  <1>6. CASE /\ entry[e].state = "failed"
             /\ entry' = IF entry[e].signals = 1 THEN Omit(entry, {e}) ELSE woken
             /\ call' = [call EXCEPT ![c] = Resting]
             /\ UNCHANGED handed
    <2>1. /\ RegistryFits(table, woken, handed, call')
          /\ entry[e].signals = 1 => Awaiting(call', e) = {}
      BY <1>1, <1>2, <1>6, TellingFits, RestingTyped, ZenonT(40)
    <2> HIDE DEF woken
    <2>2. CASE entry[e].signals = 1
      <3>1. entry' = Omit(entry, {e}) /\ DOMAIN entry' = DOMAIN entry \ {e}
            /\ \A x \in DOMAIN entry \ {e} : entry'[x] = entry[x]
        BY <1>3, <1>6, <2>2 DEF Omit, Restrict
      <3>2. Omit(entry, {e}) = Omit(woken, {e})
        BY <1>4 DEF Omit, Restrict
      <3>3. Forgotten(table, {e}) = table
        <4>1. Listed(table, entry) /\ table \in [Lists -> EntryIds \cup {Nothing}]
          BY <1>1 DEF RegistryFits, RegistryTyped
        <4>2. \A i \in Lists : table[i] # e
          BY <1>2, <1>3, <1>6, <4>1, OfflineAssumption DEF Listed
        <4>3. QED
          BY <4>1, <4>2 DEF Forgotten
      <3>4. Holding(handed, e) = {}
        BY <1>1, <1>6 DEF RegistryFits, Leased, Holding
      <3>5. \A d \in Callers : call'[d].pc = "load" => call'[d].entry # e
        <4>1. Loads(woken, call')
          BY <2>1 DEF RegistryFits
        <4>2. QED
          BY <1>2, <1>4, <1>6, <4>1 DEF Loads
      <3>6. RegistryFits(Forgotten(table, {e}), Omit(woken, {e}), handed, call')
        BY <2>1, <2>2, <3>4, <3>5, ForgettingFits
      <3>7. RegistryFits(table', entry', handed', call')
        BY <1>2, <1>6, <3>1, <3>2, <3>3, <3>6
      <3>8. Ordered(entry', older') /\ OneIdle(entry')
        BY <1>1, <1>2, <3>1 DEF Ordered, OneIdle, Idle
      <3>9. QED
        BY <1>2, <1>6, <3>7, <3>8, RegistryStep, LeasesStay
    <2>3. CASE entry[e].signals # 1
      <3>1. entry' = woken
        BY <1>6, <2>3
      <3>2. RegistryFits(table', entry', handed', call')
        BY <1>2, <1>6, <2>1, <3>1
      <3>3. Ordered(entry', older') /\ OneIdle(entry')
        BY <1>1, <1>2, <1>4, <3>1 DEF Ordered, OneIdle, Idle
      <3>4. QED
        BY <1>2, <1>6, <3>2, <3>3, RegistryStep, LeasesStay
    <2>4. QED
      BY <2>2, <2>3
  <1>7. QED
    BY <1>5, <1>6 DEF WakeWaiter

LEMMA ReleaseKeeps ==
    ASSUME EnginesInv, NEW l \in DOMAIN handed, ReleaseLease(l)
    PROVE  /\ EnginesInv'
           /\ \A m \in DOMAIN handed : m # l => m \in DOMAIN handed' /\ handed'[m] = handed[m]
  <1> DEFINE e == handed[l]
             es == [entry EXCEPT ![e].references = @ - 1]
             order == MoveLast(es, e)
             gone == Evicted(es, order, Nothing)
  <1>1. /\ RegistryFits(table, entry, handed, call) /\ Ordered(entry, older) /\ OneIdle(entry)
        /\ OfflineTypeOK /\ ReferencesHeld(handed)
    BY RegistryMeans
  <1>2. /\ handed' = Omit(handed, {l}) /\ UNCHANGED << call, kept, reference, core, time >>
        /\ \A c \in Callers : call[c].lease # l
        /\ \A r \in DOMAIN reference : reference[r].lease # l
    BY DEF ReleaseLease, HeldBy
  <1>3. /\ e \in DOMAIN entry /\ entry[e].state = "loaded" /\ table[entry[e].list] = e
        /\ RegistryFits(table, es, handed', call')
    BY <1>1, <1>2, ReturningFits, SMTT(40)
  <1>4. IF es[e].references = 0 THEN Evict(es, order, Nothing)
        ELSE entry' = es /\ older' = order /\ UNCHANGED table
    BY <1>3 DEF ReleaseLease
  <1>5. /\ entry \in [DOMAIN entry -> Engines] /\ handed \in [DOMAIN handed -> EntryIds]
    BY <1>1 DEF OfflineTypeOK
  <1>6. /\ DOMAIN es = DOMAIN entry /\ \A x \in DOMAIN entry : x # e => es[x] = entry[x]
        /\ \A x \in DOMAIN entry : es[x].list \in Lists
    BY <1>3, <1>5 DEF Engines
  <1>7. DOMAIN handed' = DOMAIN handed \ {l} /\ \A m \in DOMAIN handed : m # l => handed'[m] = handed[m]
    BY <1>2, <1>5 DEF Omit, Restrict
  <1> HIDE DEF es, e
  <1>8. \A r \in DOMAIN reference : reference[r].lease \in DOMAIN handed'
    BY <1>1, <1>2, <1>7 DEF ReferencesHeld
  <1>9. Ordered(es, order)
    BY <1>1, <1>3, <1>6, UsedLast
  <1>10. CASE es[e].references = 0
    <2>1. entry' = Omit(es, gone) /\ older' = Kept(order, gone) /\ table' = Forgotten(table, gone)
      BY <1>4, <1>10 DEF Evict, Kept, Forgotten
    <2>2. \A x : Idle(es, x) => es[x].list # Nothing
      BY <1>6, OfflineAssumption DEF Idle
    <2> HIDE DEF order
    <2>3. /\ RegistryFits(Forgotten(table, gone), Omit(es, gone), handed', call')
          /\ Ordered(Omit(es, gone), Kept(order, gone)) /\ OneIdle(Omit(es, gone))
      BY <1>3, <1>9, <2>2, EvictingFits
    <2> HIDE DEF gone
    <2>4. RegistryFits(table', entry', handed', call') /\ Ordered(entry', older') /\ OneIdle(entry')
      BY <2>1, <2>3
    <2>5. QED
      BY <1>2, <1>7, <1>8, <2>4, RegistryStep
  <1>11. CASE es[e].references # 0
    <2>1. entry' = es /\ older' = order /\ table' = table
      BY <1>4, <1>11
    <2>2. OneIdle(es)
      <3>1. \A x : Idle(es, x) => Idle(entry, x)
        BY <1>6, <1>11 DEF Idle
      <3>2. QED
        BY <1>1, <3>1 DEF OneIdle
    <2>3. QED
      BY <1>2, <1>3, <1>7, <1>8, <1>9, <2>1, <2>2, RegistryStep
  <1>12. QED
    BY <1>10, <1>11

-----------------------------------------------------------------------------
\* The actions on requests and references: the registry is left alone.
LEMMA RequestStep ==
    ASSUME EnginesInv, UNCHANGED << table, entry, older, handed >>,
           RegistryFits(table, entry, handed, call'),
           DOMAIN kept' \subseteq Tokens, kept' \in [DOMAIN kept' -> ReferenceIds],
           DOMAIN reference' \subseteq ReferenceIds, reference' \in [DOMAIN reference' -> SnapshotReferences],
           DOMAIN core' \subseteq Tokens, core' \in [DOMAIN core' -> EntryIds], time' \in Nat,
           \A r \in DOMAIN reference' : reference'[r].lease \in DOMAIN handed
    PROVE  EnginesInv'
  <1>1. Ordered(entry', older') /\ OneIdle(entry')
    BY RegistryMeans
  <1>2. OfflineTypeOK'
    BY DEF OfflineTypeOK, RegistryFits, RegistryTyped
  <1>3. ReferencesHeld(handed)'
    BY DEF ReferencesHeld
  <1>4. QED
    BY <1>1, <1>2, <1>3, RegistryMeansNext

LEMMA RequestTyped ==
    ASSUME EnginesInv
    PROVE  /\ DOMAIN kept \subseteq Tokens /\ kept \in [DOMAIN kept -> ReferenceIds]
           /\ DOMAIN reference \subseteq ReferenceIds
           /\ reference \in [DOMAIN reference -> SnapshotReferences]
           /\ DOMAIN core \subseteq Tokens /\ core \in [DOMAIN core -> EntryIds]
           /\ time \in Nat /\ call \in [Callers -> Calls] /\ Nothing \notin ReferenceIds
           /\ \A r \in DOMAIN reference : reference[r].lease \in DOMAIN handed
           /\ RegistryFits(table, entry, handed, call)
           /\ DOMAIN handed \subseteq LeaseIds /\ handed \in [DOMAIN handed -> EntryIds]
           /\ \A c \in Callers : IF call[c].pc \in Served THEN call[c].lease \in DOMAIN handed
                                 ELSE call[c].lease = Nothing
  BY RegistryMeans, OfflineAssumption DEF OfflineTypeOK, ReferencesHeld, RegistryFits, Leased

\* Requests that keep their references, or have none, and do not retain.
Steady(old, new) ==
    IF old.pc = "retain" THEN new = old
    ELSE /\ new.pc # "retain" /\ new.ref = old.ref
         /\ old.ref # Nothing => /\ new.op = old.op /\ new.token = old.token /\ new.lease = old.lease
                                 /\ new.pc \in Served

LEMMA Bystanders ==
    ASSUME EnginesInv, ReferencesFit, TokensFit, kept' = kept,
           DOMAIN reference' = DOMAIN reference,
           \A r \in DOMAIN reference : /\ reference'[r].users = reference[r].users
                                       /\ reference'[r].lease = reference[r].lease,
           DOMAIN core' \subseteq DOMAIN core, \A t \in DOMAIN core' : core'[t] = core[t],
           \A d \in Callers : Steady(call[d], call'[d]),
           \A d \in Callers :
              call'[d].pc # "call" /\ call'[d].op = "release" /\ call'[d].ref # Nothing =>
              call'[d].token \notin DOMAIN kept \cap DOMAIN core',
           \A r \in DOMAIN reference : handed'[reference[r].lease] = handed[reference[r].lease],
           \A d \in Callers : call[d].pc = "retain" => handed'[call[d].lease] = handed[call[d].lease]
    PROVE  ReferencesFit' /\ TokensFit'
  <1>1. \A d \in Callers : call'[d].ref = call[d].ref
    BY DEF Steady
  <1>2. \A r : UsersOf(r)' = UsersOf(r)
    BY <1>1 DEF UsersOf
  <1>3. \A r \in DOMAIN reference' : reference'[r].users = Cardinality(UsersOf(r)')
    BY <1>2 DEF ReferencesFit
  <1>4. ASSUME NEW d \in Callers, call'[d].ref # Nothing
        PROVE  /\ call'[d].pc \in Served \ {"retain"} /\ call'[d].op # "query"
               /\ call'[d].token # Nothing /\ call'[d].ref \in DOMAIN reference'
               /\ call'[d].lease = reference'[call'[d].ref].lease
               /\ \A t \in DOMAIN kept' : kept'[t] = call'[d].ref <=> t = call'[d].token
    <2>1. call[d].ref # Nothing /\ call[d].pc # "retain"
      BY <1>1, <1>4 DEF ReferencesFit
    <2>2. /\ call'[d].op = call[d].op /\ call'[d].token = call[d].token /\ call'[d].lease = call[d].lease
          /\ call'[d].pc \in Served \ {"retain"} /\ call'[d].ref = call[d].ref
      BY <2>1 DEF Steady
    <2>3. /\ call[d].op # "query" /\ call[d].token # Nothing /\ call[d].ref \in DOMAIN reference
          /\ call[d].lease = reference[call[d].ref].lease
          /\ \A t \in DOMAIN kept : kept[t] = call[d].ref <=> t = call[d].token
      BY <2>1 DEF ReferencesFit
    <2>4. QED
      BY <2>2, <2>3
  <1>5. ReferencesFit'
    BY <1>3, <1>4 DEF ReferencesFit
  <1>6. \A d \in Callers : (call'[d].pc = "retain" <=> call[d].pc = "retain")
                           /\ (call[d].pc = "retain" => call'[d] = call[d])
    BY DEF Steady
  <1>7. \A d \in Callers : call[d].ref # Nothing => call'[d].token = call[d].token
    BY DEF Steady
  <1>8. \A t \in DOMAIN kept : kept[t] \in DOMAIN reference
    BY DEF ReferencesFit
  <1>9. QED
    BY <1>1, <1>5, <1>6, <1>7, <1>8 DEF TokensFit

\* A registry step of a request that has no reference and retains nothing.
LEMMA RegistryStepFits ==
    ASSUME OfflineInv, UNCHANGED << kept, reference, core >>,
           NEW c \in Callers, call[c].pc \in {"acquire", "load", "wait"},
           NEW k, k.ref = call[c].ref, k.pc # "retain", call' = [call EXCEPT ![c] = k],
           \A m \in DOMAIN handed : handed'[m] = handed[m]
    PROVE  ReferencesFit' /\ TokensFit'
  <1>1. EnginesInv /\ ReferencesFit /\ TokensFit
    BY DEF OfflineInv
  <1>2. call[c].ref = Nothing
    BY <1>1 DEF ReferencesFit, Served
  <1>3. call'[c] = k /\ \A d \in Callers : d # c => call'[d] = call[d]
    BY <1>1, RequestTyped
  <1>4. \A d \in Callers : Steady(call[d], call'[d])
    <2>1. \A d \in Callers : call[d].ref # Nothing => call[d].pc \in Served
      BY <1>1 DEF ReferencesFit
    <2>2. QED
      BY <1>2, <1>3, <2>1 DEF Steady
  <1>5. \A d \in Callers : call'[d].pc # "call" /\ call'[d].op = "release" /\ call'[d].ref # Nothing =>
                           call'[d].token \notin DOMAIN kept \cap DOMAIN core
    BY <1>1, <1>2, <1>3 DEF TokensFit
  <1>6. \A r \in DOMAIN reference : reference[r].lease \in DOMAIN handed
    BY <1>1, RequestTyped
  <1>7. \A d \in Callers : call[d].pc = "retain" => call[d].lease \in DOMAIN handed
    BY <1>1, RequestTyped DEF Served
  <1>8. QED
    BY <1>1, <1>4, <1>5, <1>6, <1>7, Bystanders

LEMMA RegistryActionsFit ==
    ASSUME OfflineInv, NEW c \in Callers,
           AcquireEngine(c) \/ LoadEngine(c) \/ LoadFails(c) \/ WakeWaiter(c)
    PROVE  EnginesInv' /\ ReferencesFit' /\ TokensFit'
  <1>1. EnginesInv /\ RequestsNameLists /\ OfflineTypeOK
    BY RegistryMeans DEF OfflineInv
  <1>2. EnginesInv'
    <2>1. call[c] \in Calls
      BY <1>1 DEF OfflineTypeOK
    <2>2. AcquireEngine(c) => call[c].list \in Lists
      BY <1>1, <2>1 DEF AcquireEngine, RequestsNameLists, Calls
    <2>3. QED
      BY <1>1, <2>2, AcquireKeeps, LoadKeeps, LoadFailsKeeps, WakeKeeps
  <1>3. UNCHANGED << kept, reference, core >> /\ call[c].pc \in {"acquire", "load", "wait"}
    BY DEF AcquireEngine, LoadEngine, LoadFails, WakeWaiter
  <1>6. call[c].ref = Nothing
    BY <1>3 DEF OfflineInv, ReferencesFit, Served
  <1>4. CASE \E e \in EntryIds : MakeLease(c, e, "call")
    <2>1. PICK e \in EntryIds : MakeLease(c, e, "call")
      BY <1>4
    <2>2. PICK l, k : Granted(c, e, l, k)
      BY <1>1, <2>1, GrantMeans
    <2>3. QED
      BY <1>2, <1>3, <2>2, RegistryStepFits DEF Granted
  <1>5. CASE UNCHANGED handed /\ \E k : /\ k.ref = call[c].ref /\ k.pc # "retain"
                                        /\ call' = [call EXCEPT ![c] = k]
    BY <1>2, <1>3, <1>5, RegistryStepFits
  <1>7. /\ AcquireEngine(c) => \/ \E e \in EntryIds : MakeLease(c, e, "call")
                               \/ UNCHANGED handed /\ \E k : /\ k.ref = call[c].ref /\ k.pc # "retain"
                                                             /\ call' = [call EXCEPT ![c] = k]
    <2>1. SUFFICES ASSUME AcquireEngine(c), ~ \E e \in EntryIds : MakeLease(c, e, "call")
                   PROVE  UNCHANGED handed /\ \E k : /\ k.ref = call[c].ref /\ k.pc # "retain"
                                                     /\ call' = [call EXCEPT ![c] = k]
      OBVIOUS
    <2>2. call[c] \in Calls /\ call[c].list \in Lists
      BY <1>1, <2>1 DEF OfflineTypeOK, AcquireEngine, RequestsNameLists, Calls
    <2>3. table[call[c].list] # Nothing => table[call[c].list] \in EntryIds
      BY <1>1, <2>2 DEF OfflineTypeOK
    <2>4. UNCHANGED handed /\ \E pc \in {"wait", "load"} : \E e :
                               call' = [call EXCEPT ![c] = [call[c] EXCEPT !.pc = pc, !.entry = e]]
      BY <2>1, <2>3, Zenon DEF AcquireEngine
    <2>0. PICK pc \in {"wait", "load"} : \E e :
               call' = [call EXCEPT ![c] = [call[c] EXCEPT !.pc = pc, !.entry = e]]
      BY <2>4
    <2>5. PICK e : call' = [call EXCEPT ![c] = [call[c] EXCEPT !.pc = pc, !.entry = e]]
      BY <2>0
    <2> DEFINE k == [call[c] EXCEPT !.pc = pc, !.entry = e]
    <2>6. k.ref = call[c].ref /\ k.pc # "retain" /\ call' = [call EXCEPT ![c] = k]
      BY <2>2, <2>5 DEF Calls
    <2> HIDE DEF k
    <2>7. QED
      BY <2>4, <2>6
  <1>8. call[c].entry \in EntryIds /\ LoadEngine(c) => \E e \in EntryIds : MakeLease(c, e, "call")
    BY Zenon DEF LoadEngine
  <1>9. WakeWaiter(c) /\ call[c].entry \in EntryIds =>
            \/ \E e \in EntryIds : MakeLease(c, e, "call")
            \/ UNCHANGED handed /\ call' = [call EXCEPT ![c] = Resting]
    BY Zenon DEF WakeWaiter
  <1>10. LoadFails(c) => UNCHANGED handed /\ call' = [call EXCEPT ![c] = Resting]
    BY DEF LoadFails
  <1>11. Resting.ref = call[c].ref /\ Resting.pc # "retain"
    BY <1>6, RestingTyped
  <1>12. LoadEngine(c) \/ WakeWaiter(c) => call[c].entry \in EntryIds
    <2>1. Loads(entry, call) /\ DOMAIN entry \subseteq EntryIds
      BY <1>1, RegistryMeans DEF RegistryFits, RegistryTyped
    <2>2. QED
      BY <2>1 DEF Loads, LoadEngine, WakeWaiter
  <1>13. QED
    BY <1>4, <1>5, <1>7, <1>8, <1>9, <1>10, <1>11, <1>12

LEMMA ReleaseFits ==
    ASSUME OfflineInv, NEW l \in DOMAIN handed, ReleaseLease(l)
    PROVE  EnginesInv' /\ ReferencesFit' /\ TokensFit'
  <1>1. EnginesInv /\ ReferencesFit /\ TokensFit
    BY DEF OfflineInv
  <1>2. EnginesInv' /\ \A m \in DOMAIN handed : m # l => handed'[m] = handed[m]
    BY <1>1, ReleaseKeeps
  <1>3. /\ UNCHANGED << call, kept, reference, core >>
        /\ \A c \in Callers : call[c].lease # l
        /\ \A r \in DOMAIN reference : reference[r].lease # l
    BY DEF ReleaseLease, HeldBy
  <1>4. \A d \in Callers : Steady(call[d], call'[d])
    BY <1>1, <1>3 DEF Steady, ReferencesFit
  <1>5. \A r \in DOMAIN reference : handed'[reference[r].lease] = handed[reference[r].lease]
    BY <1>1, <1>2, <1>3, RequestTyped
  <1>6. \A d \in Callers : call[d].pc = "retain" => handed'[call[d].lease] = handed[call[d].lease]
    BY <1>1, <1>2, <1>3, RequestTyped DEF Served
  <1>7. \A d \in Callers : call'[d].pc # "call" /\ call'[d].op = "release" /\ call'[d].ref # Nothing =>
                           call'[d].token \notin DOMAIN kept \cap DOMAIN core'
    BY <1>1, <1>3 DEF TokensFit
  <1>8. ReferencesFit' /\ TokensFit'
    BY <1>1, <1>3, <1>4, <1>5, <1>6, <1>7, Bystanders
  <1>9. QED
    BY <1>2, <1>8

\* A request moves on with the reference it has, or with none, and touches no other.
LEMMA RequestMovesOn ==
    ASSUME OfflineInv, UNCHANGED << table, entry, older, handed, kept, time >>,
           NEW c \in Callers, call[c].pc \notin {"wait", "retain"},
           NEW k \in Calls, call' = [call EXCEPT ![c] = k], k.pc \notin {"load", "wait", "retain"},
           IF k.pc \in Served THEN k.lease \in DOMAIN handed ELSE k.lease = Nothing,
           Steady(call[c], k),
           DOMAIN reference' = DOMAIN reference, reference' \in [DOMAIN reference' -> SnapshotReferences],
           \A r \in DOMAIN reference : /\ reference'[r].users = reference[r].users
                                       /\ reference'[r].lease = reference[r].lease,
           DOMAIN core' \subseteq DOMAIN core, \A t \in DOMAIN core' : core'[t] = core[t],
           core' \in [DOMAIN core' -> EntryIds],
           k.pc # "call" /\ k.op = "release" /\ k.ref # Nothing => k.token \notin DOMAIN kept \cap DOMAIN core'
    PROVE  EnginesInv' /\ ReferencesFit' /\ TokensFit'
  <1>1. EnginesInv /\ ReferencesFit /\ TokensFit
    BY DEF OfflineInv
  <1>2. call'[c] = k /\ \A d \in Callers : d # c => call'[d] = call[d]
    BY <1>1, RequestTyped
  <1>3. RegistryFits(table, entry, handed, call')
    <2>1. RegistryFits(table, entry, handed, call)
      BY <1>1, RequestTyped
    <2>2. QED
      BY <2>1, RequestFits
  <1>4. EnginesInv'
    BY <1>1, <1>3, RequestTyped, RequestStep
  <1>5. \A d \in Callers : Steady(call[d], call'[d])
    BY <1>1, <1>2 DEF Steady, ReferencesFit
  <1>6. \A d \in Callers : call'[d].pc # "call" /\ call'[d].op = "release" /\ call'[d].ref # Nothing =>
                           call'[d].token \notin DOMAIN kept \cap DOMAIN core'
    BY <1>1, <1>2 DEF TokensFit
  <1>7. ReferencesFit' /\ TokensFit'
    BY <1>1, <1>5, <1>6, Bystanders
  <1>8. QED
    BY <1>4, <1>7

\* The request that a caller makes.
Asked(k, p, i, verb, t, r, l) ==
    /\ k \in Calls /\ k.pc = p /\ k.list = i /\ k.op = verb /\ k.token = t /\ k.ref = r /\ k.lease = l

LEMMA RequestAsked ==
    ASSUME NEW i \in Lists, NEW verb \in {"query", "page", "release"},
           NEW p \in {"acquire", "call"}, NEW t \in Tokens, NEW r \in ReferenceIds \cup {Nothing},
           NEW l \in LeaseIds \cup {Nothing}
    PROVE  Asked([Resting EXCEPT !.pc = p, !.list = i, !.op = verb, !.token = t, !.ref = r, !.lease = l],
                 p, i, verb, t, r, l)
  BY DEF Asked, Resting, Calls, Served

LEMMA AskFits ==
    ASSUME OfflineInv, NEW c \in Callers, NEW i, NEW verb, NEW t, NEW k,
           Asked(k, "acquire", i, verb, t, Nothing, Nothing), call[c] = Resting,
           call' = [call EXCEPT ![c] = k],
           UNCHANGED << table, entry, older, handed, kept, reference, core, time >>
    PROVE  EnginesInv' /\ ReferencesFit' /\ TokensFit'
  <1>1. k \in Calls /\ k.pc = "acquire" /\ k.lease = Nothing /\ k.ref = Nothing
    BY DEF Asked
  <1>2. Resting.pc = "idle" /\ Resting.ref = Nothing
    BY RestingTyped
  <1>3. Steady(call[c], k)
    BY <1>1, <1>2 DEF Steady
  <1>4. EnginesInv
    BY DEF OfflineInv
  <1>5. QED
    BY <1>1, <1>2, <1>3, <1>4, RequestTyped, RequestMovesOn DEF Served

LEMMA FinishCallFits ==
    ASSUME OfflineInv, NEW c \in Callers, FinishCall(c)
    PROVE  EnginesInv' /\ ReferencesFit' /\ TokensFit'
  <1>1. /\ call[c].pc = "finish" /\ call[c].ref = Nothing /\ call' = [call EXCEPT ![c] = Resting]
        /\ UNCHANGED << table, entry, older, handed, kept, reference, core, time >>
    BY DEF FinishCall
  <1>2. Steady(call[c], Resting)
    BY <1>1, RestingTyped DEF Steady
  <1>3. EnginesInv
    BY DEF OfflineInv
  <1>4. QED
    BY <1>1, <1>2, <1>3, RestingTyped, RequestTyped, RequestMovesOn DEF Served

\* The pc of a request that holds its lease.
Moved(c, p, k) ==
    /\ k \in Calls /\ k.pc = p /\ k.op = call[c].op /\ k.token = call[c].token
    /\ k.ref = call[c].ref /\ k.lease = call[c].lease
    /\ k.lease \in DOMAIN handed
    /\ call[c].pc # "retain" => Steady(call[c], k)

LEMMA PcMoved ==
    ASSUME OfflineInv, NEW c \in Callers, call[c].pc \in Served, NEW p \in {"touch", "finish"}
    PROVE  Moved(c, p, [call[c] EXCEPT !.pc = p])
  <1> DEFINE k == [call[c] EXCEPT !.pc = p]
  <1>1. call[c] \in Calls /\ call[c].lease \in DOMAIN handed
    BY RequestTyped DEF OfflineInv
  <1>2. /\ k \in Calls /\ k.pc = p /\ k.op = call[c].op /\ k.token = call[c].token
        /\ k.ref = call[c].ref /\ k.lease = call[c].lease
    BY <1>1 DEF Calls, Served
  <1>3. call[c].pc # "retain" => Steady(call[c], k)
    BY <1>2 DEF Steady, Served
  <1> HIDE DEF k
  <1>4. Moved(c, p, k)
    BY <1>1, <1>2, <1>3 DEF Moved
  <1>5. QED
    BY <1>4 DEF k

LEMMA TouchFits ==
    ASSUME OfflineInv, NEW c \in Callers, TouchReference(c)
    PROVE  EnginesInv' /\ ReferencesFit' /\ TokensFit'
  <1> DEFINE k == [call[c] EXCEPT !.pc = "finish"]
             t == call[c].token
  <1>1. /\ call[c].pc = "touch" /\ call' = [call EXCEPT ![c].pc = "finish"]
        /\ UNCHANGED << table, entry, older, handed, kept, core, time >>
        /\ reference' = IF t \in DOMAIN kept
                        THEN [reference EXCEPT ![kept[t]].deadline = time + OfflineLifetime]
                        ELSE reference
    BY DEF TouchReference
  <1>9. Moved(c, "finish", k) /\ call' = [call EXCEPT ![c] = k]
    BY <1>1, PcMoved DEF Served
  <1> HIDE DEF k
  <1>2. /\ k \in Calls /\ k.pc = "finish" /\ k.op = call[c].op /\ k.lease \in DOMAIN handed
        /\ Steady(call[c], k) /\ call' = [call EXCEPT ![c] = k]
    BY <1>1, <1>9 DEF Moved
  <1>3. EnginesInv /\ ReferencesFit
    BY DEF OfflineInv
  <1>4. k.op = "release" /\ k.ref # Nothing => k.token \notin DOMAIN kept \cap DOMAIN core
    BY <1>1, <1>9 DEF OfflineInv, TokensFit, Moved
  <1>5. /\ DOMAIN reference' = DOMAIN reference /\ reference' \in [DOMAIN reference' -> SnapshotReferences]
        /\ \A r \in DOMAIN reference : /\ reference'[r].users = reference[r].users
                                       /\ reference'[r].lease = reference[r].lease
    <2>1. time + OfflineLifetime \in Nat
      BY <1>3, RequestTyped, OfflineAssumption
    <2>2. reference \in [DOMAIN reference -> SnapshotReferences] /\ (t \in DOMAIN kept => kept[t] \in DOMAIN reference)
      BY <1>3, RequestTyped DEF ReferencesFit
    <2>3. QED
      BY <1>1, <2>1, <2>2 DEF SnapshotReferences
  <1>7. core' = core /\ core \in [DOMAIN core -> EntryIds]
    BY <1>1, <1>3, RequestTyped
  <1>8. QED
    BY <1>1, <1>2, <1>4, <1>5, <1>7, RequestMovesOn DEF Served

LEMMA CallFits ==
    ASSUME OfflineInv, NEW c \in Callers, CallEngine(c)
    PROVE  EnginesInv' /\ ReferencesFit' /\ TokensFit'
  <1> DEFINE r == call[c]
             e == EngineOf(c)
  <1>1. /\ r.pc = "call" /\ UNCHANGED << table, entry, older, handed, kept, reference, time >>
    BY DEF CallEngine
  <1>2. EnginesInv /\ ReferencesFit /\ TokensFit
    BY DEF OfflineInv
  <1>3. r \in Calls /\ r.lease \in DOMAIN handed /\ e \in EntryIds /\ e = handed[r.lease]
    BY <1>1, <1>2, RequestTyped DEF Served, EngineOf
  <1>4. ASSUME NEW p \in {"touch", "finish"}, call' = [call EXCEPT ![c].pc = p],
               DOMAIN core' \subseteq DOMAIN core, \A t \in DOMAIN core' : core'[t] = core[t],
               core' \in [DOMAIN core' -> EntryIds],
               r.op = "release" /\ r.ref # Nothing => r.token \notin DOMAIN kept \cap DOMAIN core'
        PROVE  EnginesInv' /\ ReferencesFit' /\ TokensFit'
    <2> DEFINE k == [call[c] EXCEPT !.pc = p]
    <2>4. call[c].pc \in Served /\ call[c].pc # "retain"
      BY <1>1 DEF Served
    <2>5. Moved(c, p, k) /\ call' = [call EXCEPT ![c] = k]
      BY <1>4, <2>4, PcMoved
    <2> HIDE DEF k
    <2>1. /\ k \in Calls /\ k.pc = p /\ k.op = r.op /\ k.lease \in DOMAIN handed
          /\ k.token = r.token /\ k.ref = r.ref /\ Steady(call[c], k)
      BY <2>4, <2>5 DEF Moved
    <2>2. /\ DOMAIN reference' = DOMAIN reference /\ reference' \in [DOMAIN reference' -> SnapshotReferences]
          /\ \A x \in DOMAIN reference : /\ reference'[x].users = reference[x].users
                                         /\ reference'[x].lease = reference[x].lease
      BY <1>1, <1>2, RequestTyped
    <2>3. QED
      BY <1>1, <1>4, <2>1, <2>2, <2>5, RequestMovesOn DEF Served
  <1>5. core \in [DOMAIN core -> EntryIds]
    BY <1>2, RequestTyped
  <1>6. CASE /\ r.op = "page" /\ call' = [call EXCEPT ![c].pc = "touch"] /\ UNCHANGED core
    BY <1>4, <1>5, <1>6
  <1>7. CASE /\ r.op = "release"
             /\ core' = IF r.token \in DOMAIN core /\ core[r.token] = e
                        THEN Omit(core, {r.token}) ELSE core
             /\ call' = [call EXCEPT ![c].pc = "finish"]
    <2>1. /\ DOMAIN core' \subseteq DOMAIN core /\ \A t \in DOMAIN core' : core'[t] = core[t]
          /\ core' \in [DOMAIN core' -> EntryIds]
          /\ r.token \in DOMAIN core /\ core[r.token] = e => r.token \notin DOMAIN core'
      BY <1>5, <1>7 DEF Omit, Restrict
    <2>2. r.ref # Nothing /\ r.token \in DOMAIN kept /\ r.token \in DOMAIN core => core[r.token] = e
      <3>1. SUFFICES ASSUME r.ref # Nothing, r.token \in DOMAIN kept, r.token \in DOMAIN core
                     PROVE  core[r.token] = e
        OBVIOUS
      <3>2. kept[r.token] = r.ref /\ r.lease = reference[r.ref].lease
        BY <1>2, <3>1 DEF ReferencesFit
      <3>3. core[r.token] = handed[reference[kept[r.token]].lease]
        BY <1>2, <3>1 DEF TokensFit
      <3>4. QED
        BY <1>3, <3>2, <3>3
    <2>3. QED
      BY <1>4, <1>7, <2>1, <2>2
  <1>8. CASE /\ r.op # "release" /\ call' = [call EXCEPT ![c].pc = "finish"] /\ UNCHANGED core
    BY <1>4, <1>5, <1>8
  <1>9. CASE /\ r.op = "query"
             /\ \E t \in Tokens \ (DOMAIN core \cup DOMAIN kept \cup {call[d].token : d \in Callers}) :
                   /\ core' = Put(core, t, e)
                   /\ call' = [call EXCEPT ![c] = [@ EXCEPT !.pc = "retain", !.token = t]]
    <2>1. PICK t \in Tokens : /\ t \notin DOMAIN core /\ t \notin DOMAIN kept
                              /\ \A d \in Callers : call[d].token # t
                              /\ core' = Put(core, t, e)
                              /\ call' = [call EXCEPT ![c] = [call[c] EXCEPT !.pc = "retain", !.token = t]]
      BY <1>9
    <2> DEFINE k == [call[c] EXCEPT !.pc = "retain", !.token = t]
    <2>2. r.ref = Nothing
      BY <1>2, <1>9 DEF ReferencesFit
    <2>3. k \in Calls /\ k.pc = "retain" /\ k.token = t /\ k.ref = Nothing /\ k.lease = r.lease
      BY <1>3, <2>2 DEF Calls, Served
    <2>4. call' = [call EXCEPT ![c] = k]
      BY <2>1
    <2> HIDE DEF k
    <2>5. call'[c] = k /\ \A d \in Callers : d # c => call'[d] = call[d]
      BY <1>2, <2>4, RequestTyped
    <2>6. /\ DOMAIN core' = DOMAIN core \cup {t} /\ core'[t] = e /\ core' \in [DOMAIN core' -> EntryIds]
          /\ \A u \in DOMAIN core : core'[u] = core[u]
      BY <1>3, <1>5, <2>1 DEF Put
    <2>7. RegistryFits(table, entry, handed, call')
      <3>1. RegistryFits(table, entry, handed, call)
        BY <1>2, RequestTyped
      <3>2. QED
        BY <1>1, <1>3, <2>3, <2>4, <3>1, RequestFits DEF Served
    <2>8. EnginesInv'
      <3>1. DOMAIN core' \subseteq Tokens
        BY <1>2, <2>6, RequestTyped
      <3>2. QED
        BY <1>1, <1>2, <2>6, <2>7, <3>1, RequestTyped, RequestStep
    <2>9. \A d \in Callers : call'[d].ref = call[d].ref
      BY <2>2, <2>3, <2>5
    <2>10. \A x : UsersOf(x)' = UsersOf(x)
      BY <2>9 DEF UsersOf
    <2>11. ReferencesFit'
      <3>1. \A x \in DOMAIN reference' : reference'[x].users = Cardinality(UsersOf(x)')
        BY <1>1, <1>2, <2>10 DEF ReferencesFit
      <3>2. \A d \in Callers : call'[d].ref # Nothing => d # c /\ call'[d] = call[d]
        BY <2>3, <2>5
      <3>3. QED
        BY <1>1, <1>2, <3>1, <3>2 DEF ReferencesFit
    <2>12. TokensFit'
      <3>1. t # Nothing
        BY <2>1, OfflineAssumption
      <3>2. ASSUME NEW a \in Callers, call'[a].pc = "retain"
            PROVE  /\ call'[a].token # Nothing /\ call'[a].token \notin DOMAIN kept'
                   /\ \A d \in Callers : d # a /\ (call'[d].pc = "retain" \/ call'[d].ref # Nothing) =>
                        call'[d].token # call'[a].token
        <4>1. CASE a = c
          BY <1>1, <2>1, <2>3, <2>5, <3>1, <4>1
        <4>2. CASE a # c
          BY <1>1, <1>2, <2>1, <2>3, <2>5, <3>2, <4>2 DEF TokensFit
        <4>3. QED
          BY <4>1, <4>2
      <3>3. ASSUME NEW u \in DOMAIN core'
            PROVE  \/ u \in DOMAIN kept' /\ core'[u] = handed'[reference'[kept'[u]].lease]
                   \/ \E a \in Callers : /\ call'[a].pc = "retain" /\ call'[a].token = u
                                         /\ core'[u] = handed'[call'[a].lease]
        <4>1. CASE u = t
          BY <1>1, <1>3, <2>3, <2>5, <2>6, <4>1
        <4>2. CASE u # t
          <5>1. u \in DOMAIN core /\ core'[u] = core[u]
            BY <2>6, <4>2
          <5>2. CASE u \in DOMAIN kept /\ core[u] = handed[reference[kept[u]].lease]
            BY <1>1, <5>1, <5>2
          <5>3. CASE \E a \in Callers : /\ call[a].pc = "retain" /\ call[a].token = u
                                        /\ core[u] = handed[call[a].lease]
            BY <1>1, <2>5, <5>1, <5>3
          <5>4. QED
            BY <1>2, <5>1, <5>2, <5>3 DEF TokensFit
        <4>3. QED
          BY <4>1, <4>2
      <3>4. ASSUME NEW a \in Callers, call'[a].pc # "call", call'[a].op = "release", call'[a].ref # Nothing
            PROVE  call'[a].token \notin DOMAIN kept' \cap DOMAIN core'
        <4>1. a # c /\ call'[a] = call[a]
          BY <2>3, <2>5, <3>4
        <4>2. QED
          BY <1>1, <1>2, <2>1, <2>6, <3>4, <4>1 DEF TokensFit
      <3>5. QED
        BY <3>2, <3>3, <3>4 DEF TokensFit
    <2>13. QED
      BY <2>8, <2>11, <2>12
  <1>10. QED
    BY <1>6, <1>7, <1>8, <1>9 DEF CallEngine

LEMMA RetainFits ==
    ASSUME OfflineInv, NEW c \in Callers, RetainReference(c)
    PROVE  EnginesInv' /\ ReferencesFit' /\ TokensFit'
  <1> DEFINE n == NextFree(ReferenceIds, reference)
             t == call[c].token
             made == [list |-> call[c].list, lease |-> call[c].lease, users |-> 0,
                      deadline |-> time + OfflineLifetime]
  <1>1. EnginesInv /\ ReferencesFit /\ TokensFit /\ RequestsNameLists
    BY DEF OfflineInv
  <1>2. /\ call[c].pc = "retain" /\ reference' = Put(reference, n, made) /\ kept' = Put(kept, t, n)
        /\ call' = [call EXCEPT ![c] = Resting]
        /\ UNCHANGED << table, entry, older, handed, core, time >>
        /\ n \in ReferenceIds /\ n \notin DOMAIN reference
    BY FreeIsFree, OfflineAssumption DEF RetainReference
  <1>3. call[c] \in Calls /\ call[c].lease \in DOMAIN handed /\ call[c].lease \in LeaseIds
    BY <1>1, <1>2, RequestTyped DEF Served
  <1>4. call[c].list \in Lists /\ t \in Tokens /\ t \notin DOMAIN kept /\ call[c].ref = Nothing
    BY <1>1, <1>2, <1>3 DEF TokensFit, Calls, RequestsNameLists, ReferencesFit
  <1>5. time + OfflineLifetime \in Nat
    BY <1>1, RequestTyped, OfflineAssumption
  <1>6. made \in SnapshotReferences /\ made.users = 0 /\ made.lease = call[c].lease
    BY <1>3, <1>4, <1>5 DEF SnapshotReferences
  <1> HIDE DEF n, made, t
  <1>7. /\ DOMAIN reference' = DOMAIN reference \cup {n} /\ reference'[n] = made
        /\ (\A r \in DOMAIN reference : reference'[r] = reference[r])
        /\ reference' \in [DOMAIN reference' -> SnapshotReferences]
    <2>1. reference \in [DOMAIN reference -> SnapshotReferences]
      BY <1>1, RequestTyped
    <2>2. QED
      BY <1>2, <1>6, <2>1 DEF Put
  <1>8. /\ DOMAIN kept' = DOMAIN kept \cup {t} /\ kept'[t] = n
        /\ (\A u \in DOMAIN kept : kept'[u] = kept[u])
        /\ kept' \in [DOMAIN kept' -> ReferenceIds]
    <2>1. kept \in [DOMAIN kept -> ReferenceIds]
      BY <1>1, RequestTyped
    <2>2. QED
      BY <1>2, <1>4, <2>1 DEF Put
  <1>9. call'[c] = Resting /\ \A d \in Callers : d # c => call'[d] = call[d]
    BY <1>1, <1>2, RequestTyped
  <1>10. Resting.ref = Nothing /\ Resting.pc = "idle" /\ Resting \in Calls /\ Resting.lease = Nothing
    BY RestingTyped
  <1>11. EnginesInv'
    <2>1. RegistryFits(table, entry, handed, call)
      BY <1>1, RequestTyped
    <2>2. RegistryFits(table, entry, handed, call')
      BY <1>2, <1>10, <2>1, RequestFits DEF Served
    <2>3. DOMAIN kept' \subseteq Tokens /\ DOMAIN reference' \subseteq ReferenceIds
      BY <1>1, <1>2, <1>4, <1>7, <1>8, RequestTyped
    <2>4. \A r \in DOMAIN reference' : reference'[r].lease \in DOMAIN handed
      BY <1>1, <1>3, <1>6, <1>7, RequestTyped
    <2>5. QED
      BY <1>1, <1>2, <1>7, <1>8, <2>2, <2>3, <2>4, RequestTyped, RequestStep
  <1>12. \A r : UsersOf(r)' = UsersOf(r)
    BY <1>4, <1>9, <1>10 DEF UsersOf
  <1>13. \A u \in DOMAIN kept : kept[u] \in DOMAIN reference /\ kept[u] # n
    BY <1>1, <1>2 DEF ReferencesFit
  <1>14. \A d \in Callers : call'[d].ref # Nothing =>
             d # c /\ call'[d] = call[d] /\ call[d].token # t /\ call[d].ref # n
    <2>1. \A d \in Callers : call'[d].ref # Nothing => d # c /\ call'[d] = call[d]
      BY <1>9, <1>10
    <2>2. \A d \in Callers : d # c /\ call[d].ref # Nothing => call[d].token # t
      BY <1>1, <1>2 DEF TokensFit, t
    <2>3. \A d \in Callers : call[d].ref # Nothing => call[d].ref # n
      BY <1>1, <1>2 DEF ReferencesFit
    <2>4. QED
      BY <2>1, <2>2, <2>3
  <1>15. ReferencesFit'
    <2>1. ASSUME NEW u \in DOMAIN kept'
          PROVE  kept'[u] \in DOMAIN reference' /\ \A v \in DOMAIN kept' : kept'[v] = kept'[u] => v = u
      BY <1>1, <1>7, <1>8, <1>13 DEF ReferencesFit
    <2>2. ASSUME NEW r \in DOMAIN reference' PROVE reference'[r].users = Cardinality(UsersOf(r)')
      <3>1. CASE r = n
        <4>1. UsersOf(n) = {}
          BY <1>1, <1>2, OfflineAssumption DEF ReferencesFit, UsersOf
        <4>2. QED
          BY <1>6, <1>7, <1>12, <3>1, <4>1, FS_EmptySet
      <3>2. CASE r # n
        BY <1>1, <1>7, <1>12, <3>2 DEF ReferencesFit
      <3>3. QED
        BY <3>1, <3>2
    <2>3. ASSUME NEW d \in Callers, call'[d].ref # Nothing
          PROVE  /\ call'[d].pc \in Served \ {"retain"} /\ call'[d].op # "query"
                 /\ call'[d].token # Nothing /\ call'[d].ref \in DOMAIN reference'
                 /\ call'[d].lease = reference'[call'[d].ref].lease
                 /\ \A u \in DOMAIN kept' : kept'[u] = call'[d].ref <=> u = call'[d].token
      <3>1. d # c /\ call'[d] = call[d] /\ call[d].token # t /\ call[d].ref # n
        BY <1>14, <2>3
      <3>2. /\ call[d].pc \in Served \ {"retain"} /\ call[d].op # "query"
            /\ call[d].token # Nothing /\ call[d].ref \in DOMAIN reference
            /\ call[d].lease = reference[call[d].ref].lease
            /\ \A u \in DOMAIN kept : kept[u] = call[d].ref <=> u = call[d].token
        BY <1>1, <2>3, <3>1 DEF ReferencesFit
      <3>3. QED
        BY <1>7, <1>8, <3>1, <3>2
    <2>4. QED
      BY <2>1, <2>2, <2>3 DEF ReferencesFit
  <1>16. TokensFit'
    <2>1. \A d \in Callers : call'[d].pc = "retain" => d # c /\ call'[d] = call[d] /\ call[d].token # t
      BY <1>1, <1>2, <1>9, <1>10 DEF TokensFit, t
    <2>2. ASSUME NEW a \in Callers, call'[a].pc = "retain"
          PROVE  /\ call'[a].token # Nothing /\ call'[a].token \notin DOMAIN kept'
                 /\ \A d \in Callers : d # a /\ (call'[d].pc = "retain" \/ call'[d].ref # Nothing) =>
                      call'[d].token # call'[a].token
      BY <1>1, <1>8, <1>14, <2>1, <2>2 DEF TokensFit
    <2>3. ASSUME NEW u \in DOMAIN core'
          PROVE  \/ u \in DOMAIN kept' /\ core'[u] = handed'[reference'[kept'[u]].lease]
                 \/ \E a \in Callers : /\ call'[a].pc = "retain" /\ call'[a].token = u
                                       /\ core'[u] = handed'[call'[a].lease]
      <3>1. CASE u \in DOMAIN kept /\ core[u] = handed[reference[kept[u]].lease]
        BY <1>2, <1>7, <1>8, <1>13, <3>1
      <3>2. CASE \E a \in Callers : /\ call[a].pc = "retain" /\ call[a].token = u
                                    /\ core[u] = handed[call[a].lease]
        <4>1. PICK a \in Callers : /\ call[a].pc = "retain" /\ call[a].token = u
                                   /\ core[u] = handed[call[a].lease]
          BY <3>2
        <4>2. CASE a = c
          BY <1>2, <1>6, <1>7, <1>8, <4>1, <4>2 DEF t
        <4>3. CASE a # c
          BY <1>2, <1>9, <4>1, <4>3
        <4>4. QED
          BY <4>2, <4>3
      <3>3. QED
        BY <1>1, <1>2, <3>1, <3>2 DEF TokensFit
    <2>4. ASSUME NEW a \in Callers, call'[a].pc # "call", call'[a].op = "release", call'[a].ref # Nothing
          PROVE  call'[a].token \notin DOMAIN kept' \cap DOMAIN core'
      BY <1>1, <1>2, <1>8, <1>14, <2>4 DEF TokensFit
    <2>5. QED
      BY <2>2, <2>3, <2>4 DEF TokensFit
  <1>17. QED
    BY <1>11, <1>15, <1>16

LEMMA AskTokenFits ==
    ASSUME OfflineInv, NEW c \in Callers, NEW i \in Lists, NEW verb \in {"page", "release"},
           NEW t \in Tokens, AskToken(c, i, verb, t)
    PROVE  EnginesInv' /\ ReferencesFit' /\ TokensFit'
  <1>1. EnginesInv /\ ReferencesFit /\ TokensFit
    BY DEF OfflineInv
  <1>2. /\ call[c] = Resting /\ UNCHANGED << table, entry, older, handed, kept, core, time >>
    BY DEF AskToken
  <1>3. Resting.ref = Nothing /\ Resting.pc = "idle" /\ Resting.lease = Nothing
    BY RestingTyped
  <1>4. CASE ~(t \in DOMAIN kept /\ reference[kept[t]].list = i)
    <2>1. /\ UNCHANGED reference
          /\ call' = [call EXCEPT ![c] = [call[c] EXCEPT !.pc = "acquire", !.list = i, !.op = verb, !.token = t,
                                                         !.ref = Nothing, !.lease = Nothing]]
      BY <1>4 DEF AskToken
    <2> DEFINE k == [Resting EXCEPT !.pc = "acquire", !.list = i, !.op = verb, !.token = t,
                                    !.ref = Nothing, !.lease = Nothing]
    <2>2. Asked(k, "acquire", i, verb, t, Nothing, Nothing)
      BY RequestAsked, ZenonT(40)
    <2>3. call' = [call EXCEPT ![c] = k]
      BY <1>2, <2>1
    <2> HIDE DEF k
    <2>4. QED
      BY <1>2, <2>1, <2>2, <2>3, AskFits
  <1>5. CASE t \in DOMAIN kept /\ reference[kept[t]].list = i
    <2>12. PICK r : r = kept[t]
      OBVIOUS
    <2> DEFINE k == [Resting EXCEPT !.pc = "call", !.list = i, !.op = verb, !.token = t,
                                    !.ref = r, !.lease = reference[r].lease]
    <2>1. /\ reference' = [reference EXCEPT ![r].users = @ + 1]
          /\ call' = [call EXCEPT ![c] = k]
      BY <1>2, <1>5, <2>12 DEF AskToken
    <2>2. r \in DOMAIN reference /\ r \in ReferenceIds /\ r # Nothing
      BY <1>1, <1>5, <2>12, RequestTyped DEF ReferencesFit
    <2>3. reference[r] \in SnapshotReferences /\ reference[r].lease \in DOMAIN handed /\ reference[r].lease \in LeaseIds
      BY <1>1, <2>2, RequestTyped
    <2>4. /\ k \in Calls /\ k.pc = "call" /\ k.op = verb /\ k.token = t /\ k.ref = r
          /\ k.lease = reference[r].lease
      <3>1. Asked(k, "call", i, verb, t, r, reference[r].lease)
        BY <2>2, <2>3, RequestAsked, ZenonT(40)
      <3> HIDE DEF k
      <3>2. QED
        BY <3>1 DEF Asked
    <2> HIDE DEF k
    <2>5. call'[c] = k /\ \A d \in Callers : d # c => call'[d] = call[d]
      BY <1>1, <2>1, RequestTyped
    <2>6. /\ DOMAIN reference' = DOMAIN reference /\ reference' \in [DOMAIN reference' -> SnapshotReferences]
          /\ reference'[r].users = reference[r].users + 1
          /\ (\A x \in DOMAIN reference : x # r => reference'[x] = reference[x])
          /\ \A x \in DOMAIN reference : reference'[x].lease = reference[x].lease
      <3>1. reference \in [DOMAIN reference -> SnapshotReferences]
        BY <1>1, RequestTyped
      <3>2. QED
        BY <2>1, <2>2, <3>1 DEF SnapshotReferences
    <2>7. EnginesInv'
      <3>1. RegistryFits(table, entry, handed, call)
        BY <1>1, RequestTyped
      <3>2. RegistryFits(table, entry, handed, call')
        BY <1>2, <1>3, <2>1, <2>3, <2>4, <3>1, RequestFits DEF Served
      <3>3. \A x \in DOMAIN reference' : reference'[x].lease \in DOMAIN handed
        BY <1>1, <2>6, RequestTyped
      <3>4. QED
        BY <1>1, <1>2, <2>6, <3>2, <3>3, RequestTyped, RequestStep
    <2>8. UsersOf(r)' = UsersOf(r) \cup {c} /\ c \notin UsersOf(r) /\ \A x \in DOMAIN reference : x # r => UsersOf(x)' = UsersOf(x)
      <3>1. \A d \in Callers : call'[d].ref = IF d = c THEN r ELSE call[d].ref
        BY <2>4, <2>5
      <3>2. call[c].ref = Nothing /\ \A x \in DOMAIN reference : x # Nothing
        BY <1>1, <1>2, <1>3, RequestTyped
      <3>3. QED
        BY <2>2, <3>1, <3>2 DEF UsersOf
    <2>9. ReferencesFit'
      <3>1. ASSUME NEW x \in DOMAIN reference' PROVE reference'[x].users = Cardinality(UsersOf(x)')
        <4>1. CASE x = r
          <5>1. IsFiniteSet(UsersOf(r))
            BY FS_Subset, OfflineAssumption DEF UsersOf
          <5>2. Cardinality(UsersOf(r)') = Cardinality(UsersOf(r)) + 1
            BY <2>8, <5>1, CountedOut
          <5>3. reference[r].users = Cardinality(UsersOf(r))
            BY <1>1, <2>2 DEF ReferencesFit
          <5>4. reference'[r].users = Cardinality(UsersOf(r)')
            BY <2>6, <5>2, <5>3
          <5>5. UsersOf(x)' = UsersOf(r)'
            BY <4>1 DEF UsersOf
          <5>6. QED
            BY <4>1, <5>4, <5>5
        <4>2. CASE x # r
          BY <1>1, <2>6, <2>8, <4>2 DEF ReferencesFit
        <4>3. QED
          BY <4>1, <4>2
      <3>2. ASSUME NEW d \in Callers, call'[d].ref # Nothing
            PROVE  /\ call'[d].pc \in Served \ {"retain"} /\ call'[d].op # "query"
                   /\ call'[d].token # Nothing /\ call'[d].ref \in DOMAIN reference'
                   /\ call'[d].lease = reference'[call'[d].ref].lease
                   /\ \A u \in DOMAIN kept' : kept'[u] = call'[d].ref <=> u = call'[d].token
        <4>1. CASE d = c
          <5>1. t # Nothing /\ \A u \in DOMAIN kept : kept[u] = r <=> u = t
            BY <1>1, <1>5, <2>12, OfflineAssumption DEF ReferencesFit
          <5>2. QED
            BY <1>2, <2>2, <2>4, <2>5, <2>6, <4>1, <5>1 DEF Served
        <4>2. CASE d # c
          <5>1. call'[d] = call[d]
            BY <2>5, <4>2
          <5>2. QED
            BY <1>1, <1>2, <2>6, <3>2, <5>1 DEF ReferencesFit
        <4>3. QED
          BY <4>1, <4>2
      <3>3. QED
        BY <1>1, <1>2, <2>6, <3>1, <3>2 DEF ReferencesFit
    <2>10. TokensFit'
      <3>1. \A a \in Callers : call'[a].pc = "retain" => a # c /\ call'[a] = call[a] /\ call[a].token # t
        BY <1>1, <1>5, <2>4, <2>5 DEF TokensFit
      <3>2. ASSUME NEW a \in Callers, call'[a].pc = "retain"
            PROVE  /\ call'[a].token # Nothing /\ call'[a].token \notin DOMAIN kept'
                   /\ \A d \in Callers : d # a /\ (call'[d].pc = "retain" \/ call'[d].ref # Nothing) =>
                        call'[d].token # call'[a].token
        BY <1>1, <1>2, <2>4, <2>5, <3>1, <3>2 DEF TokensFit
      <3>3. ASSUME NEW u \in DOMAIN core'
            PROVE  \/ u \in DOMAIN kept' /\ core'[u] = handed'[reference'[kept'[u]].lease]
                   \/ \E a \in Callers : /\ call'[a].pc = "retain" /\ call'[a].token = u
                                         /\ core'[u] = handed'[call'[a].lease]
        <4>1. CASE u \in DOMAIN kept /\ core[u] = handed[reference[kept[u]].lease]
          <5>1. kept[u] \in DOMAIN reference
            BY <1>1, <4>1 DEF ReferencesFit
          <5>2. QED
            BY <1>2, <2>6, <4>1, <5>1
        <4>2. CASE \E a \in Callers : /\ call[a].pc = "retain" /\ call[a].token = u
                                      /\ core[u] = handed[call[a].lease]
          BY <1>2, <1>3, <2>5, <4>2
        <4>3. QED
          BY <1>1, <1>2, <4>1, <4>2 DEF TokensFit
      <3>4. ASSUME NEW a \in Callers, call'[a].pc # "call", call'[a].op = "release", call'[a].ref # Nothing
            PROVE  call'[a].token \notin DOMAIN kept' \cap DOMAIN core'
        BY <1>1, <1>2, <2>4, <2>5, <3>4 DEF TokensFit
      <3>5. QED
        BY <3>2, <3>3, <3>4 DEF TokensFit
    <2>11. QED
      BY <2>7, <2>9, <2>10
  <1>6. QED
    BY <1>4, <1>5

\* Tokens, references and snapshots go together, and never a reference in use.
LEMMA ReferencesGo ==
    ASSUME OfflineInv, UNCHANGED << table, entry, older, handed, time >>,
           RegistryFits(table, entry, handed, call'),
           NEW gone, DOMAIN kept' = DOMAIN kept \ gone, \A u \in DOMAIN kept' : kept'[u] = kept[u],
           kept' \in [DOMAIN kept' -> ReferenceIds],
           DOMAIN reference' \subseteq DOMAIN reference,
           \A r \in DOMAIN reference' : reference'[r].lease = reference[r].lease,
           reference' \in [DOMAIN reference' -> SnapshotReferences],
           \A u \in DOMAIN kept' : kept[u] \in DOMAIN reference',
           \A r \in DOMAIN reference' : reference'[r].users = Cardinality(UsersOf(r)'),
           DOMAIN core' \subseteq DOMAIN core \ gone, \A u \in DOMAIN core' : core'[u] = core[u],
           core' \in [DOMAIN core' -> EntryIds],
           \A d \in Callers : call'[d] = call[d] \/ (call[d].pc # "retain" /\ call'[d] = Resting),
           \A d \in Callers : call'[d].ref # Nothing => call'[d].ref \in DOMAIN reference'
    PROVE  EnginesInv' /\ ReferencesFit' /\ TokensFit'
  <1>1. EnginesInv /\ ReferencesFit /\ TokensFit
    BY DEF OfflineInv
  <1>2. Resting.ref = Nothing /\ Resting.pc = "idle"
    BY RestingTyped
  <1>3. EnginesInv'
    <2>1. DOMAIN kept' \subseteq Tokens /\ DOMAIN reference' \subseteq ReferenceIds /\ DOMAIN core' \subseteq Tokens
      BY <1>1, RequestTyped
    <2>2. \A r \in DOMAIN reference' : reference'[r].lease \in DOMAIN handed
      BY <1>1, RequestTyped
    <2>3. time' \in Nat
      BY <1>1, RequestTyped
    <2>4. QED
      BY <1>1, <2>1, <2>2, <2>3, RequestStep
  <1>4. \A d \in Callers : call'[d].ref # Nothing \/ call'[d].pc = "retain" => call'[d] = call[d]
    BY <1>2
  <1>5. ReferencesFit'
    <2>1. ASSUME NEW u \in DOMAIN kept'
          PROVE  kept'[u] \in DOMAIN reference' /\ \A v \in DOMAIN kept' : kept'[v] = kept'[u] => v = u
      BY <1>1 DEF ReferencesFit
    <2>2. ASSUME NEW d \in Callers, call'[d].ref # Nothing
          PROVE  /\ call'[d].pc \in Served \ {"retain"} /\ call'[d].op # "query"
                 /\ call'[d].token # Nothing /\ call'[d].ref \in DOMAIN reference'
                 /\ call'[d].lease = reference'[call'[d].ref].lease
                 /\ \A u \in DOMAIN kept' : kept'[u] = call'[d].ref <=> u = call'[d].token
      <3>1. call'[d] = call[d] /\ call[d].ref \in DOMAIN reference'
        BY <1>4, <2>2
      <3>2. /\ call[d].pc \in Served \ {"retain"} /\ call[d].op # "query"
            /\ call[d].token # Nothing
            /\ call[d].lease = reference[call[d].ref].lease
            /\ \A u \in DOMAIN kept : kept[u] = call[d].ref <=> u = call[d].token
        BY <1>1, <2>2, <3>1 DEF ReferencesFit
      <3>3. QED
        BY <3>1, <3>2
    <2>3. QED
      BY <2>1, <2>2 DEF ReferencesFit
  <1>6. TokensFit'
    <2>1. ASSUME NEW a \in Callers, call'[a].pc = "retain"
          PROVE  /\ call'[a].token # Nothing /\ call'[a].token \notin DOMAIN kept'
                 /\ \A d \in Callers : d # a /\ (call'[d].pc = "retain" \/ call'[d].ref # Nothing) =>
                      call'[d].token # call'[a].token
      <3>1. call'[a] = call[a]
        BY <1>4, <2>1
      <3>2. QED
        BY <1>1, <1>4, <2>1, <3>1 DEF TokensFit
    <2>2. ASSUME NEW u \in DOMAIN core'
          PROVE  \/ u \in DOMAIN kept' /\ core'[u] = handed'[reference'[kept'[u]].lease]
                 \/ \E a \in Callers : /\ call'[a].pc = "retain" /\ call'[a].token = u
                                       /\ core'[u] = handed'[call'[a].lease]
      <3>1. u \in DOMAIN core /\ core'[u] = core[u] /\ u \notin gone
        OBVIOUS
      <3>2. CASE u \in DOMAIN kept /\ core[u] = handed[reference[kept[u]].lease]
        BY <3>1, <3>2
      <3>3. CASE \E a \in Callers : /\ call[a].pc = "retain" /\ call[a].token = u
                                    /\ core[u] = handed[call[a].lease]
        <4>1. PICK a \in Callers : /\ call[a].pc = "retain" /\ call[a].token = u
                                   /\ core[u] = handed[call[a].lease]
          BY <3>3
        <4>2. call'[a] = call[a]
          BY <4>1
        <4>3. QED
          BY <3>1, <4>1, <4>2
      <3>4. QED
        BY <1>1, <3>1, <3>2, <3>3 DEF TokensFit
    <2>3. ASSUME NEW a \in Callers, call'[a].pc # "call", call'[a].op = "release", call'[a].ref # Nothing
          PROVE  call'[a].token \notin DOMAIN kept' \cap DOMAIN core'
      <3>1. call'[a] = call[a]
        BY <1>4, <2>3
      <3>2. QED
        BY <1>1, <2>3, <3>1 DEF TokensFit
    <2>4. QED
      BY <2>1, <2>2, <2>3 DEF TokensFit
  <1>7. QED
    BY <1>3, <1>5, <1>6

LEMMA FinishFits ==
    ASSUME OfflineInv, NEW c \in Callers, FinishReference(c)
    PROVE  EnginesInv' /\ ReferencesFit' /\ TokensFit'
  <1>1. EnginesInv /\ ReferencesFit /\ TokensFit
    BY DEF OfflineInv
  <1>2. PICK r, t, gone : /\ r = call[c].ref /\ t = call[c].token
                          /\ gone = IF /\ t \in DOMAIN kept /\ kept[t] = r
                                       /\ call[c].op = "release" \/ (reference[r].deadline <= time /\ reference[r].users - 1 = 0)
                                    THEN {t} ELSE {}
    OBVIOUS
  <1> DEFINE left == reference[r].users - 1
             mine == t \in DOMAIN kept /\ kept[t] = r
  <1>3. /\ call[c].pc = "finish" /\ r # Nothing /\ call' = [call EXCEPT ![c] = Resting]
        /\ UNCHANGED << table, entry, older, handed, time >>
    BY <1>2 DEF FinishReference
  <1>4. /\ r \in DOMAIN reference /\ \A u \in DOMAIN kept : kept[u] = r <=> u = t
    BY <1>1, <1>2, <1>3 DEF ReferencesFit
  <1>5. kept' = IF gone # {} THEN Omit(kept, {t}) ELSE kept
    BY <1>2, Zenon DEF FinishReference
  <1>6. reference' = IF left = 0 /\ (gone # {} \/ ~mine) THEN Omit(reference, {r})
                     ELSE [reference EXCEPT ![r].users = left]
    BY <1>2, Zenon DEF FinishReference
  <1>7. core' = IF gone # {} /\ reference[r].deadline <= time /\ t \in DOMAIN core THEN Omit(core, {t}) ELSE core
    BY <1>2, Zenon DEF FinishReference
  <1>8. gone \subseteq {t} /\ (gone # {} => mine) /\ (gone # {} /\ ~(reference[r].deadline <= time) => call[c].op = "release")
    BY <1>2
  <1>9. /\ kept \in [DOMAIN kept -> ReferenceIds] /\ core \in [DOMAIN core -> EntryIds]
        /\ reference \in [DOMAIN reference -> SnapshotReferences] /\ r \in ReferenceIds
    BY <1>1, <1>4, RequestTyped
  <1>10. /\ DOMAIN kept' = DOMAIN kept \ gone /\ (\A u \in DOMAIN kept' : kept'[u] = kept[u])
         /\ kept' \in [DOMAIN kept' -> ReferenceIds]
    <2>1. CASE gone = {}
      BY <1>5, <1>9, <2>1
    <2>2. CASE gone = {t}
      BY <1>5, <1>9, <2>2 DEF Omit, Restrict
    <2>3. QED
      BY <1>8, <2>1, <2>2
  <1>11. /\ DOMAIN core' \subseteq DOMAIN core \ gone /\ (\A u \in DOMAIN core' : core'[u] = core[u])
         /\ core' \in [DOMAIN core' -> EntryIds]
    <2>1. CASE core' = Omit(core, {t})
      BY <1>8, <1>9, <2>1 DEF Omit, Restrict
    <2>2. CASE core' = core /\ (gone # {} => t \notin DOMAIN core)
      BY <1>8, <1>9, <2>2
    <2>3. gone # {} /\ ~(reference[r].deadline <= time) => t \notin DOMAIN core
      BY <1>1, <1>2, <1>3, <1>8 DEF TokensFit
    <2>4. QED
      BY <1>7, <2>1, <2>2, <2>3
  <1>12. call'[c] = Resting /\ (\A d \in Callers : d # c => call'[d] = call[d]) /\ Resting.ref = Nothing
    BY <1>1, <1>3, RequestTyped, RestingTyped
  <1>13. /\ UsersOf(r)' = UsersOf(r) \ {c} /\ c \in UsersOf(r)
         /\ \A x \in DOMAIN reference : x # r => UsersOf(x)' = UsersOf(x)
    <2>1. \A d \in Callers : call'[d].ref = IF d = c THEN Nothing ELSE call[d].ref
      BY <1>12
    <2>2. call[c].ref = r /\ \A x \in DOMAIN reference : x # Nothing
      BY <1>1, <1>2, RequestTyped
    <2>3. QED
      BY <1>3, <2>1, <2>2 DEF UsersOf
  <1>14. Cardinality(UsersOf(r)') = left /\ left \in Nat /\ (left = 0 => UsersOf(r)' = {})
    <2>1. IsFiniteSet(UsersOf(r)) /\ IsFiniteSet(UsersOf(r)')
      BY FS_Subset, OfflineAssumption DEF UsersOf
    <2>2. reference[r].users = Cardinality(UsersOf(r))
      BY <1>1, <1>4 DEF ReferencesFit
    <2>3. Cardinality(UsersOf(r)') = Cardinality(UsersOf(r)) - 1
      BY <1>13, <2>1, CountedOut
    <2>4. Cardinality(UsersOf(r)') = left
      BY <2>2, <2>3
    <2> HIDE DEF left
    <2>5. QED
      BY <2>1, <2>4, CountedOut
  <1> HIDE DEF left
  <1>15. CASE left = 0 /\ (gone # {} \/ ~mine)
    <2>1. /\ DOMAIN reference' = DOMAIN reference \ {r}
          /\ (\A x \in DOMAIN reference' : reference'[x] = reference[x])
          /\ reference' \in [DOMAIN reference' -> SnapshotReferences]
      BY <1>6, <1>9, <1>15 DEF Omit, Restrict
    <2>2. \A u \in DOMAIN kept' : kept[u] \in DOMAIN reference'
      <3>1. \A u \in DOMAIN kept' : kept[u] # r
        BY <1>4, <1>8, <1>10, <1>15
      <3>2. QED
        BY <1>1, <1>10, <2>1, <3>1 DEF ReferencesFit
    <2>3. \A x \in DOMAIN reference' : reference'[x].users = Cardinality(UsersOf(x)')
      BY <1>1, <1>13, <2>1 DEF ReferencesFit
    <2>4. \A d \in Callers : call'[d].ref # Nothing => call'[d].ref \in DOMAIN reference'
      <3>1. \A d \in Callers : call'[d].ref # r
        BY <1>14, <1>15 DEF UsersOf
      <3>2. \A d \in Callers : call'[d].ref # Nothing => call'[d].ref \in DOMAIN reference
        BY <1>1, <1>12 DEF ReferencesFit
      <3>3. QED
        BY <2>1, <3>1, <3>2
    <2>5. RegistryFits(table, entry, handed, call')
      BY <1>1, <1>3, RequestTyped, RequestFits, RestingTyped DEF Served
    <2>6. QED
      BY <1>3, <1>10, <1>11, <1>12, <2>1, <2>2, <2>3, <2>4, <2>5, ReferencesGo
  <1>16. CASE ~(left = 0 /\ (gone # {} \/ ~mine))
    <2>1. /\ DOMAIN reference' = DOMAIN reference /\ reference'[r].users = left
          /\ (\A x \in DOMAIN reference : x # r => reference'[x] = reference[x])
          /\ (\A x \in DOMAIN reference : reference'[x].lease = reference[x].lease)
          /\ reference' \in [DOMAIN reference' -> SnapshotReferences]
      BY <1>4, <1>6, <1>9, <1>14, <1>16 DEF SnapshotReferences
    <2>2. \A u \in DOMAIN kept' : kept[u] \in DOMAIN reference'
      BY <1>1, <1>10, <2>1 DEF ReferencesFit
    <2>3. ASSUME NEW x \in DOMAIN reference' PROVE reference'[x].users = Cardinality(UsersOf(x)')
      <3>1. CASE x = r
        BY <1>14, <2>1, <3>1
      <3>2. CASE x # r
        BY <1>1, <1>13, <2>1, <3>2 DEF ReferencesFit
      <3>3. QED
        BY <3>1, <3>2
    <2>4. \A d \in Callers : call'[d].ref # Nothing => call'[d].ref \in DOMAIN reference'
      BY <1>1, <1>12, <2>1 DEF ReferencesFit
    <2>5. RegistryFits(table, entry, handed, call')
      BY <1>1, <1>3, RequestTyped, RequestFits, RestingTyped DEF Served
    <2>6. QED
      BY <1>3, <1>10, <1>11, <1>12, <2>1, <2>2, <2>3, <2>4, <2>5, ReferencesGo
  <1>17. QED
    BY <1>15, <1>16

LEMMA CleanUpFits ==
    ASSUME OfflineInv, CleanUpReferences
    PROVE  EnginesInv' /\ ReferencesFit' /\ TokensFit'
  <1>1. EnginesInv /\ ReferencesFit /\ TokensFit
    BY DEF OfflineInv
  <1>2. PICK gone, lost : gone = ExpiredTokens /\ lost = {kept[u] : u \in gone}
    OBVIOUS
  <1>3. /\ kept' = Omit(kept, gone) /\ reference' = Omit(reference, lost) /\ core' = Omit(core, gone)
        /\ UNCHANGED << table, entry, older, handed, call, time >>
    BY <1>2 DEF CleanUpReferences
  <1>4. /\ kept \in [DOMAIN kept -> ReferenceIds] /\ core \in [DOMAIN core -> EntryIds]
        /\ reference \in [DOMAIN reference -> SnapshotReferences]
        /\ RegistryFits(table, entry, handed, call)
    BY <1>1, RequestTyped
  <1>5. /\ DOMAIN kept' = DOMAIN kept \ gone /\ (\A u \in DOMAIN kept' : kept'[u] = kept[u])
        /\ kept' \in [DOMAIN kept' -> ReferenceIds]
    BY <1>3, <1>4 DEF Omit, Restrict
  <1>6. /\ DOMAIN core' = DOMAIN core \ gone /\ (\A u \in DOMAIN core' : core'[u] = core[u])
        /\ core' \in [DOMAIN core' -> EntryIds]
    BY <1>3, <1>4 DEF Omit, Restrict
  <1>7. /\ DOMAIN reference' = DOMAIN reference \ lost
        /\ (\A x \in DOMAIN reference' : reference'[x] = reference[x])
        /\ reference' \in [DOMAIN reference' -> SnapshotReferences]
    BY <1>3, <1>4 DEF Omit, Restrict
  <1>8. \A u \in gone : u \in DOMAIN kept /\ reference[kept[u]].users = 0
    BY <1>2 DEF ExpiredTokens
  <1>9. \A u \in DOMAIN kept' : kept[u] \in DOMAIN reference'
    BY <1>1, <1>2, <1>5, <1>7, <1>8 DEF ReferencesFit
  <1>10. \A x : UsersOf(x)' = UsersOf(x)
    BY <1>3 DEF UsersOf
  <1>11. \A x \in DOMAIN reference' : reference'[x].users = Cardinality(UsersOf(x)')
    BY <1>1, <1>7, <1>10 DEF ReferencesFit
  <1>12. ASSUME NEW d \in Callers, call[d].ref # Nothing PROVE call[d].ref \in DOMAIN reference'
    <2>1. call[d].ref \in DOMAIN reference
      BY <1>1, <1>12 DEF ReferencesFit
    <2>2. reference[call[d].ref].users # 0
      <3>1. d \in UsersOf(call[d].ref) /\ IsFiniteSet(UsersOf(call[d].ref))
        BY FS_Subset, OfflineAssumption DEF UsersOf
      <3>2. Cardinality(UsersOf(call[d].ref)) # 0
        BY <3>1, CountedOut
      <3>3. QED
        BY <1>1, <2>1, <3>2 DEF ReferencesFit
    <2>3. QED
      BY <1>2, <1>7, <1>8, <2>1, <2>2
  <1>13. QED
    BY <1>3, <1>4, <1>5, <1>6, <1>7, <1>9, <1>11, <1>12, ReferencesGo

\* An engine discards a snapshot, the clock advances, or nothing happens.
LEMMA RestFits ==
    ASSUME OfflineInv, UNCHANGED << table, entry, older, handed, call, kept, reference >>, time' \in Nat,
           DOMAIN core' \subseteq DOMAIN core, \A u \in DOMAIN core' : core'[u] = core[u],
           core' \in [DOMAIN core' -> EntryIds]
    PROVE  EnginesInv' /\ ReferencesFit' /\ TokensFit'
  <1>1. EnginesInv /\ ReferencesFit /\ TokensFit
    BY DEF OfflineInv
  <1>2. EnginesInv'
    <2>1. DOMAIN core' \subseteq Tokens
      BY <1>1, RequestTyped
    <2>2. QED
      BY <1>1, <2>1, RequestTyped, RequestStep
  <1>3. \A d \in Callers : Steady(call[d], call'[d])
    BY <1>1 DEF Steady, ReferencesFit
  <1>4. \A d \in Callers : call'[d].pc # "call" /\ call'[d].op = "release" /\ call'[d].ref # Nothing =>
                           call'[d].token \notin DOMAIN kept \cap DOMAIN core'
    BY <1>1 DEF TokensFit
  <1>5. ReferencesFit' /\ TokensFit'
    BY <1>1, <1>3, <1>4, Bystanders
  <1>6. QED
    BY <1>2, <1>5

LEMMA CoreExpiresFits ==
    ASSUME OfflineInv, NEW t \in Tokens, CoreExpires(t)
    PROVE  EnginesInv' /\ ReferencesFit' /\ TokensFit'
  <1>1. core \in [DOMAIN core -> EntryIds] /\ time \in Nat
    BY RequestTyped DEF OfflineInv
  <1>2. core' = Omit(core, {t}) /\ UNCHANGED << table, entry, older, handed, call, kept, reference, time >>
    BY DEF CoreExpires
  <1>3. /\ DOMAIN core' \subseteq DOMAIN core /\ (\A u \in DOMAIN core' : core'[u] = core[u])
        /\ core' \in [DOMAIN core' -> EntryIds]
    BY <1>1, <1>2 DEF Omit, Restrict
  <1>4. QED
    BY <1>1, <1>2, <1>3, RestFits

LEMMA QueryFits ==
    ASSUME OfflineInv, NEW c \in Callers, NEW i \in Lists, Ask(c, i, "query")
    PROVE  EnginesInv' /\ ReferencesFit' /\ TokensFit'
  <1> DEFINE k == [Resting EXCEPT !.pc = "acquire", !.list = i, !.op = "query"]
  <1>1. /\ call[c] = Resting /\ call' = [call EXCEPT ![c] = k]
        /\ UNCHANGED << table, entry, older, handed, kept, reference, core, time >>
    BY DEF Ask
  <1>2. Asked(k, "acquire", i, "query", Nothing, Nothing, Nothing)
    BY DEF Asked, Resting, Calls
  <1> HIDE DEF k
  <1>3. QED
    BY <1>1, <1>2, AskFits

\* A request keeps the list it was made for until it rests.
LEMMA ListsStayNamed ==
    ASSUME OfflineInv, OfflineNext
    PROVE  RequestsNameLists'
  <1>1. call \in [Callers -> Calls] /\ RequestsNameLists /\ Resting.pc = "idle" /\ Nothing \notin Lists
    BY RequestTyped, RestingTyped, OfflineAssumption DEF OfflineInv
  <1>2. ASSUME NEW c \in Callers, NEW k, call' = [call EXCEPT ![c] = k],
               k.pc = "idle" \/ k.list # Nothing
        PROVE  RequestsNameLists'
    BY <1>1, <1>2 DEF RequestsNameLists
  <1>3. ASSUME NEW c \in Callers, NEW p, NEW f, f \in {"lease", "entry", "token"}, NEW v,
               call[c].pc # "idle",
               \/ call' = [call EXCEPT ![c] = [call[c] EXCEPT !.pc = p, !.lease = v]]
               \/ call' = [call EXCEPT ![c] = [call[c] EXCEPT !.pc = p, !.entry = v]]
               \/ call' = [call EXCEPT ![c] = [call[c] EXCEPT !.pc = p, !.token = v]]
               \/ call' = [call EXCEPT ![c].pc = p]
        PROVE  RequestsNameLists'
    <2>1. call[c] \in Calls /\ call[c].list # Nothing
      BY <1>1, <1>3 DEF RequestsNameLists
    <2>2. \A d \in Callers : d # c => call'[d] = call[d]
      BY <1>1, <1>3
    <2>3. call'[c].list # Nothing
      BY <1>1, <1>3, <2>1 DEF Calls
    <2>4. QED
      BY <1>1, <2>2, <2>3 DEF RequestsNameLists
  <1>4. CASE \E c \in Callers : call' = [call EXCEPT ![c] = Resting]
    BY <1>1, <1>2, <1>4
  <1>5. CASE \E c \in Callers, i \in Lists : Ask(c, i, "query")
    <2>1. PICK c \in Callers, i \in Lists : Ask(c, i, "query")
      BY <1>5
    <2>2. call' = [call EXCEPT ![c] = [Resting EXCEPT !.pc = "acquire", !.list = i, !.op = "query"]]
      BY <2>1 DEF Ask
    <2>3. [Resting EXCEPT !.pc = "acquire", !.list = i, !.op = "query"].list = i
      BY DEF Resting
    <2>4. QED
      BY <1>1, <1>2, <2>2, <2>3
  <1>6. CASE \E c \in Callers, i \in Lists, verb \in {"page", "release"}, t \in Tokens : AskToken(c, i, verb, t)
    <2>1. PICK c \in Callers, i \in Lists, verb \in {"page", "release"}, t \in Tokens : AskToken(c, i, verb, t)
      BY <1>6
    <2>2. \E p, r, l : call' = [call EXCEPT ![c] = [Resting EXCEPT !.pc = p, !.list = i, !.op = verb, !.token = t,
                                                                   !.ref = r, !.lease = l]]
      BY <2>1, Zenon DEF AskToken
    <2>3. PICK p, r, l : call' = [call EXCEPT ![c] = [Resting EXCEPT !.pc = p, !.list = i, !.op = verb, !.token = t,
                                                                     !.ref = r, !.lease = l]]
      BY <2>2
    <2>4. [Resting EXCEPT !.pc = p, !.list = i, !.op = verb, !.token = t, !.ref = r, !.lease = l].list = i
      BY DEF Resting
    <2>5. QED
      BY <1>1, <1>2, <2>3, <2>4
  <1>7. CASE call' = call
    BY <1>1, <1>7 DEF RequestsNameLists
  <1>8. ASSUME NEW c \in Callers,
               AcquireEngine(c) \/ LoadEngine(c) \/ WakeWaiter(c) \/ CallEngine(c) \/ TouchReference(c)
        PROVE  RequestsNameLists'
    <2>1. CASE call' = [call EXCEPT ![c] = Resting]
      BY <1>4, <2>1
    <2>2. call[c].pc # "idle"
      BY <1>8 DEF AcquireEngine, LoadEngine, WakeWaiter, CallEngine, TouchReference
    <2>3. \/ call' = [call EXCEPT ![c] = Resting]
          \/ \E p, v : \/ call' = [call EXCEPT ![c] = [call[c] EXCEPT !.pc = p, !.lease = v]]
                       \/ call' = [call EXCEPT ![c] = [call[c] EXCEPT !.pc = p, !.entry = v]]
                       \/ call' = [call EXCEPT ![c] = [call[c] EXCEPT !.pc = p, !.token = v]]
                       \/ call' = [call EXCEPT ![c].pc = p]
      <3>1. CASE AcquireEngine(c)
        BY <3>1, Zenon DEF AcquireEngine, MakeLease
      <3>2. CASE LoadEngine(c)
        BY <3>2, Zenon DEF LoadEngine, MakeLease
      <3>3. CASE WakeWaiter(c)
        BY <3>3, Zenon DEF WakeWaiter, MakeLease
      <3>4. CASE CallEngine(c)
        BY <3>4, Zenon DEF CallEngine
      <3>5. CASE TouchReference(c)
        BY <3>5, Zenon DEF TouchReference
      <3>6. QED
        BY <1>8, <3>1, <3>2, <3>3, <3>4, <3>5
    <2>4. QED
      BY <1>3, <2>1, <2>2, <2>3, Zenon
  <1>9. \A c \in Callers : LoadFails(c) \/ RetainReference(c) \/ FinishReference(c) \/ FinishCall(c) =>
                           call' = [call EXCEPT ![c] = Resting]
    BY DEF LoadFails, RetainReference, FinishReference, FinishCall
  <1>10. (\E l \in DOMAIN handed : ReleaseLease(l)) \/ CleanUpReferences
         \/ (\E t \in Tokens : CoreExpires(t)) \/ ClockAdvances => call' = call
    BY DEF ReleaseLease, CleanUpReferences, CoreExpires, ClockAdvances
  <1>11. QED
    BY <1>4, <1>5, <1>6, <1>7, <1>8, <1>9, <1>10, Zenon DEF OfflineNext

LEMMA OfflineInitFits ==
    ASSUME OfflineInit
    PROVE  OfflineInv
  <1>1. /\ table = [i \in Lists |-> Nothing] /\ call = [c \in Callers |-> Resting]
        /\ DOMAIN entry = {} /\ DOMAIN handed = {} /\ DOMAIN kept = {} /\ DOMAIN reference = {}
        /\ DOMAIN core = {} /\ time = 0 /\ older = {}
    BY DEF OfflineInit
  <1>2. /\ entry \in [DOMAIN entry -> Engines] /\ handed \in [DOMAIN handed -> EntryIds]
        /\ kept \in [DOMAIN kept -> ReferenceIds] /\ core \in [DOMAIN core -> EntryIds]
        /\ reference \in [DOMAIN reference -> SnapshotReferences]
    BY DEF OfflineInit
  <1>3. /\ Resting \in Calls /\ Resting.pc = "idle" /\ Resting.lease = Nothing /\ Resting.ref = Nothing
    BY RestingTyped
  <1>4. OfflineTypeOK
    BY <1>1, <1>2, <1>3 DEF OfflineTypeOK
  <1>5. \A c \in Callers : /\ call[c].pc = "idle" /\ call[c].lease = Nothing /\ call[c].ref = Nothing
    BY <1>1, <1>3
  <1>6. TableFits /\ LeasesAreLive /\ LoadsAreAwaited /\ EnginesCounted /\ UsesAreOrdered
    BY <1>1, <1>5 DEF TableFits, LeasesAreLive, LoadsAreAwaited, EnginesCounted, UsesAreOrdered,
      IdleEngines, Served
  <1>7. ReferencesFit /\ TokensFit /\ RequestsNameLists
    BY <1>1, <1>5 DEF ReferencesFit, TokensFit, RequestsNameLists
  <1>8. QED
    BY <1>4, <1>6, <1>7 DEF OfflineInv, EnginesInv

LEMMA OfflineStep ==
    ASSUME OfflineInv, [OfflineNext]_offlineVars
    PROVE  OfflineInv'
  <1>1. CASE OfflineNext
    <2>1. RequestsNameLists'
      BY <1>1, ListsStayNamed
    <2> SUFFICES EnginesInv' /\ ReferencesFit' /\ TokensFit'
      BY <2>1 DEF OfflineInv
    <2>2. CASE \E c \in Callers, i \in Lists : Ask(c, i, "query")
      BY <2>2, QueryFits
    <2>3. CASE \E c \in Callers, i \in Lists, verb \in {"page", "release"}, t \in Tokens : AskToken(c, i, verb, t)
      BY <2>3, AskTokenFits
    <2>4. CASE \E c \in Callers : AcquireEngine(c) \/ LoadEngine(c) \/ LoadFails(c) \/ WakeWaiter(c)
      BY <2>4, RegistryActionsFit
    <2>5. CASE \E c \in Callers : CallEngine(c)
      BY <2>5, CallFits
    <2>6. CASE \E c \in Callers : TouchReference(c)
      BY <2>6, TouchFits
    <2>7. CASE \E c \in Callers : RetainReference(c)
      BY <2>7, RetainFits
    <2>8. CASE \E c \in Callers : FinishReference(c)
      BY <2>8, FinishFits
    <2>9. CASE \E c \in Callers : FinishCall(c)
      BY <2>9, FinishCallFits
    <2>10. CASE \E l \in DOMAIN handed : ReleaseLease(l)
      BY <2>10, ReleaseFits
    <2>11. CASE CleanUpReferences
      BY <2>11, CleanUpFits
    <2>12. CASE \E t \in Tokens : CoreExpires(t)
      BY <2>12, CoreExpiresFits
    <2>13. CASE ClockAdvances
      <3>1. /\ UNCHANGED << table, entry, older, handed, call, kept, reference, core >>
            /\ time' \in Nat /\ core \in [DOMAIN core -> EntryIds]
        BY <2>13, RequestTyped DEF ClockAdvances, OfflineInv
      <3>2. QED
        BY <3>1, RestFits
    <2>14. QED
      BY <1>1, <2>2, <2>3, <2>4, <2>5, <2>6, <2>7, <2>8, <2>9, <2>10, <2>11, <2>12, <2>13, Zenon DEF OfflineNext
  <1>2. CASE UNCHANGED offlineVars
    <2>1. UNCHANGED << table, entry, older, handed, call, kept, reference, core, time >>
      BY <1>2 DEF offlineVars
    <2>2. /\ core \in [DOMAIN core -> EntryIds] /\ time \in Nat
      BY RequestTyped DEF OfflineInv
    <2>3. EnginesInv' /\ ReferencesFit' /\ TokensFit'
      BY <2>1, <2>2, RestFits
    <2>4. RequestsNameLists'
      BY <2>1 DEF OfflineInv, RequestsNameLists
    <2>5. QED
      BY <2>3, <2>4 DEF OfflineInv
  <1>3. QED
    BY <1>1, <1>2

(* OfflineInvariant: in every execution the registry of SearchService.swift  *)
(* is consistent: the table has the entry that loads or is loaded for each   *)
(* list, an entry counts its waiters and its leases, at most one engine is   *)
(* idle, and every token's reference counts the requests that use it.        *)
THEOREM OfflineInvariant == OfflineSpec => []OfflineInv
  <1>1. OfflineInit => OfflineInv
    BY OfflineInitFits
  <1>2. OfflineInv /\ [OfflineNext]_offlineVars => OfflineInv'
    BY OfflineStep
  <1>3. QED
    BY <1>1, <1>2, PTL DEF OfflineSpec

LEMMA OfflineInvAccounts ==
    ASSUME OfflineInv
    PROVE  EnginesAccounted
  <1>1. EnginesInv /\ TokensFit
    BY DEF OfflineInv
  <1>2. \A e \in DOMAIN entry : entry[e].state = "loaded" =>
            entry[e].references = Cardinality({l \in DOMAIN handed : handed[l] = e}) + entry[e].signals
    BY <1>1 DEF EnginesInv, EnginesCounted, LeasesOf
  <1>3. \A l \in DOMAIN handed : handed[l] \in DOMAIN entry /\ table[entry[handed[l]].list] = handed[l]
    BY <1>1 DEF EnginesInv, LeasesAreLive, TableFits
  <1>4. Cardinality(IdleEngines) <= 1
    <2>1. \A e, f \in IdleEngines : e = f
      BY <1>1 DEF EnginesInv, UsesAreOrdered
    <2>2. CASE IdleEngines = {}
      <3>1. Cardinality(IdleEngines) = 0
        BY <2>2, FS_EmptySet
      <3>2. QED
        BY <3>1
    <2>3. CASE IdleEngines # {}
      <3>1. PICK e \in IdleEngines : TRUE
        BY <2>3
      <3>2. IdleEngines = {e}
        BY <2>1, <3>1
      <3>3. Cardinality(IdleEngines) = 1
        BY <3>2, FS_Singleton
      <3>4. QED
        BY <3>3
    <2>4. QED
      BY <2>2, <2>3
  <1>5. \A t \in DOMAIN core :
            t \in DOMAIN kept \/ \E c \in Callers : call[c].pc = "retain" /\ call[c].token = t
    BY <1>1 DEF TokensFit
  <1>6. QED
    BY <1>2, <1>3, <1>4, <1>5 DEF EnginesAccounted

(* EnginesAreAccounted: acquire, the loader, the waiters, deinit and the     *)
(* expiry of references (SearchService.swift) never lose a count: an engine  *)
(* has as many references as leases and signalled waiters, a leased engine   *)
(* is its list's one, at most one idle engine stays, and every snapshot in   *)
(* an engine has a reference or a request that is about to make one.         *)
THEOREM EnginesAreAccounted == OfflineSpec => []EnginesAccounted
  <1>1. OfflineInv => EnginesAccounted
    BY OfflineInvAccounts
  <1>2. QED
    BY <1>1, OfflineInvariant, PTL
=============================================================================
