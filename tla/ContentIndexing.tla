--------------------------- MODULE ContentIndexing ---------------------------
(***************************************************************************)
(* On-demand content extraction (macos/ContentIndexer.swift and the content *)
(* jobs of macos/SearchService.swift).  Jobs run one after the other on a    *)
(* serial queue.  A job pages through the candidates of a leased snapshot   *)
(* and, file by file, takes the file's identity, reads the file, takes the  *)
(* identity again and stores the text, while files are written, the index   *)
(* worker commits new rows and clients cancel or reuse request ids.         *)
(*                                                                         *)
(* A version stands for everything lstat tells (size, mtime, ctime, inode); *)
(* a body is the set of versions its parts were read from.                  *)
(***************************************************************************)
EXTENDS Integers, Sequences, FiniteSets, SequencesExt, Functions

CONSTANTS
    Documents, Jobs, JobIds,
    ReadsPerFile,       \* reads that make up one extraction (chunks, pages, parts)
    MaxSaves,           \* bound on the versions of a document
    NoJob, NoBody

ASSUME ContentAssumption ==
    /\ ReadsPerFile \in Nat \ {0}
    /\ NoJob \notin Jobs

VARIABLES
    onDisk,     \* the version of each document on disk
    indexed,     \* the version of its row in the database
    body,        \* the content table: [parts, version] of a document, or NoBody
    shown,       \* what the last published snapshot has: the two above
    job,         \* each ContentIndexer and the request it works for
    jobs,        \* SearchService.contentJobs
    line         \* the serial queue contentWork; its head runs

contentVars == << onDisk, indexed, body, shown, job, jobs, line >>

NewJob == [pc |-> "none", id |-> NoJob, kind |-> "none", cancelled |-> FALSE, displaced |-> NoJob,
           todo |-> {}, path |-> NoBody, before |-> 0, parts |-> << >>, ok |-> TRUE]

CurrentContent == [rows |-> indexed, bodies |-> body]

ContentInit ==
    /\ onDisk = [d \in Documents |-> 1]
    /\ indexed = onDisk
    /\ body = [d \in Documents |-> NoBody]
    /\ shown = CurrentContent
    /\ job = [j \in Jobs |-> NewJob]
    /\ jobs = [i \in JobIds |-> NoJob]
    /\ line = << >>

-----------------------------------------------------------------------------
(* The disk and the index worker. *)

SaveDocument(d) ==
    /\ onDisk[d] < MaxSaves
    /\ onDisk' = [onDisk EXCEPT ![d] = @ + 1]
    /\ UNCHANGED << indexed, body, shown, job, jobs, line >>

\* batch_inner: a row whose identity, size or times changed loses its content.
CommitRow(d) ==
    /\ indexed[d] # onDisk[d]
    /\ indexed' = [indexed EXCEPT ![d] = onDisk[d]]
    /\ body' = [body EXCEPT ![d] = NoBody]
    /\ UNCHANGED << onDisk, shown, job, jobs, line >>

PublishSnapshot ==
    /\ shown # CurrentContent
    /\ shown' = CurrentContent
    /\ UNCHANGED << onDisk, indexed, body, job, jobs, line >>

-----------------------------------------------------------------------------
(* Requests. *)

Become(j, next) == job' = [job EXCEPT ![j] = next]
Cancelled(x) == [x EXCEPT !.cancelled = TRUE]

\* The next unused job; requests are alike.
Fresh == {j \in Jobs : job[j].pc = "none" /\ \A k \in Jobs : job[k].pc = "none" => j <= k}

\* content_index: the job is registered, and the one it displaces cancelled after the lock.
RequestIndex(i) ==
    \E j \in Fresh :
        /\ Become(j, [NewJob EXCEPT !.pc = "displace", !.id = i, !.kind = "index",
                                    !.displaced = jobs[i]])
        /\ jobs' = [jobs EXCEPT ![i] = j]
        /\ UNCHANGED << onDisk, indexed, body, shown, line >>

CancelDisplaced(j) ==
    /\ job[j].pc = "displace"
    /\ job' = [k \in Jobs |->
                 IF k = j THEN [job[j] EXCEPT !.pc = "queued", !.displaced = NoJob]
                 ELSE IF k = job[j].displaced THEN Cancelled(job[k]) ELSE job[k]]
    /\ line' = Append(line, j)
    /\ UNCHANGED << onDisk, indexed, body, shown, jobs >>

\* A query that requires extraction: cancelled and replaced under the lock.
RequestQuery(i) ==
    \E j \in Fresh :
        /\ job' = [k \in Jobs |->
                    IF k = j THEN [NewJob EXCEPT !.pc = "queued", !.id = i, !.kind = "query"]
                    ELSE IF k = jobs[i] THEN Cancelled(job[k]) ELSE job[k]]
        /\ jobs' = [jobs EXCEPT ![i] = j]
        /\ line' = Append(line, j)
        /\ UNCHANGED << onDisk, indexed, body, shown >>

\* cancel, and content_cancel for every id.
CancelJobs(ids) ==
    /\ \E i \in ids : jobs[i] # NoJob
    /\ job' = [j \in Jobs |-> IF \E i \in ids : jobs[i] = j THEN Cancelled(job[j]) ELSE job[j]]
    /\ UNCHANGED << onDisk, indexed, body, shown, jobs, line >>

-----------------------------------------------------------------------------
(* ContentIndexer.index. *)

Running(j) == line # << >> /\ Head(line) = j

\* only_missing: the snapshot's body was extracted from the version of its row.
Missing(d) == shown.bodies[d] = NoBody \/ shown.bodies[d].version # shown.rows[d]

\* The candidates of the leased snapshot; the lease may be refused.
StartJob(j) ==
    /\ Running(j) /\ job[j].pc = "queued"
    /\ \/ Become(j, [job[j] EXCEPT !.pc = "next",
                                   !.todo = {d \in Documents : job[j].kind = "index" \/ Missing(d)}])
       \/ Become(j, [job[j] EXCEPT !.pc = "end", !.ok = FALSE])
    /\ UNCHANGED << onDisk, indexed, body, shown, jobs, line >>

\* The loop ends when nothing is left or the job is cancelled.
EndLoop(j) ==
    /\ Running(j) /\ job[j].pc = "next" /\ (job[j].todo = {} \/ job[j].cancelled)
    /\ Become(j, [job[j] EXCEPT !.pc = "end", !.todo = {}])
    /\ UNCHANGED << onDisk, indexed, body, shown, jobs, line >>

\* extract: the first lstat.
StatBefore(j, d) ==
    /\ Running(j) /\ job[j].pc = "next" /\ ~job[j].cancelled /\ d \in job[j].todo
    /\ Become(j, [job[j] EXCEPT !.pc = "read", !.path = d, !.before = onDisk[d], !.parts = << >>,
                                !.todo = job[j].todo \ {d}])
    /\ UNCHANGED << onDisk, indexed, body, shown, jobs, line >>

\* A chunk, a page or a part of an archive; cancellation is looked at before each.
ReadPart(j) ==
    /\ Running(j) /\ job[j].pc = "read" /\ ~job[j].cancelled /\ Len(job[j].parts) < ReadsPerFile
    /\ Become(j, [job[j] EXCEPT !.parts = Append(job[j].parts, onDisk[job[j].path])])
    /\ UNCHANGED << onDisk, indexed, body, shown, jobs, line >>

Skipped(j) == [job[j] EXCEPT !.pc = "next", !.path = NoBody, !.before = 0, !.parts = << >>]

\* Unreadable, over a limit, timed out or cancelled: the file is reported and skipped.
SkipFile(j) ==
    /\ Running(j) /\ job[j].pc = "read"
    /\ Become(j, Skipped(j))
    /\ UNCHANGED << onDisk, indexed, body, shown, jobs, line >>

\* Mutant: the file is looked for again, and its identity not compared.
StillThere(j) == TRUE

\* The second lstat, compared with the first.
UnchangedSince(j) == onDisk[job[j].path] = job[j].before

StatAfter(j) ==
    /\ Running(j) /\ job[j].pc = "read" /\ Len(job[j].parts) = ReadsPerFile
    /\ Become(j, IF UnchangedSince(j) THEN [job[j] EXCEPT !.pc = "put"] ELSE Skipped(j))
    /\ UNCHANGED << onDisk, indexed, body, shown, jobs, line >>

\* put_content: validate_content_identity, then the store.
ValidateContent(j) ==
    /\ Running(j) /\ job[j].pc = "put"
    /\ Become(j, IF UnchangedSince(j) THEN [job[j] EXCEPT !.pc = "store"] ELSE Skipped(j))
    /\ UNCHANGED << onDisk, indexed, body, shown, jobs, line >>

StoreContent(j) ==
    /\ Running(j) /\ job[j].pc = "store"
    /\ body' = [body EXCEPT ![job[j].path] = [parts |-> ToSet(job[j].parts),
                                              version |-> job[j].before]]
    /\ Become(j, Skipped(j))
    /\ UNCHANGED << onDisk, indexed, shown, jobs, line >>

\* release_snapshot and publish_content, whatever ended the job.
EndJob(j) ==
    /\ Running(j) /\ job[j].pc = "end"
    /\ shown' = CurrentContent
    /\ Become(j, [job[j] EXCEPT !.pc = "reply"])
    /\ UNCHANGED << onDisk, indexed, body, jobs, line >>

\* Mutant: whatever is registered under the id is taken away.
ReplyTakesAny(j) ==
    /\ Running(j) /\ job[j].pc = "reply"
    /\ jobs' = [jobs EXCEPT ![job[j].id] = NoJob]
    /\ Become(j, [job[j] EXCEPT !.pc = "done"])
    /\ line' = Tail(line)
    /\ UNCHANGED << onDisk, indexed, body, shown >>

\* The reply, of the query itself where one follows; only its own job is taken away.
ReplyJob(j) ==
    /\ Running(j) /\ job[j].pc = "reply"
    /\ jobs' = IF jobs[job[j].id] = j THEN [jobs EXCEPT ![job[j].id] = NoJob] ELSE jobs
    /\ Become(j, [job[j] EXCEPT !.pc = "done"])
    /\ line' = Tail(line)
    /\ UNCHANGED << onDisk, indexed, body, shown >>

ContentNext ==
    \/ \E d \in Documents : SaveDocument(d) \/ CommitRow(d)
    \/ PublishSnapshot
    \/ \E i \in JobIds : RequestIndex(i) \/ RequestQuery(i) \/ CancelJobs({i})
    \/ CancelJobs(JobIds)
    \/ \E j \in Jobs :
        \/ CancelDisplaced(j) \/ StartJob(j) \/ EndLoop(j) \/ ReadPart(j) \/ SkipFile(j)
        \/ StatAfter(j) \/ ValidateContent(j) \/ StoreContent(j) \/ EndJob(j) \/ ReplyJob(j)
        \/ \E d \in Documents : StatBefore(j, d)

ContentSpec == ContentInit /\ [][ContentNext]_contentVars

-----------------------------------------------------------------------------
(* ContentIsOfOneVersion: a stored body was read entirely from the version  *)
(* it is labelled with, however the file was written while it was read; so  *)
(* a body the candidates' filter takes for current is what the row's        *)
(* version held, and one that a late put_content left under a newer row is  *)
(* extracted again (extract, put_content, only_missing).                    *)
ContentIsOfOneVersion ==
    /\ \A d \in Documents : body[d] # NoBody => body[d].parts = {body[d].version}
    /\ \A d \in Documents : Missing(d) \/ shown.bodies[d].parts = {shown.rows[d]}

(* JobsStayCancellable: a job that still has work to do is registered under *)
(* its id, or cancelled already, or about to be by the one that displaced   *)
(* it, whatever ids requests reuse and however late the others end.         *)
JobsStayCancellable ==
    \A j \in Jobs : job[j].pc \notin {"none", "done"} =>
        \/ jobs[job[j].id] = j
        \/ job[j].cancelled
        \/ \E k \in Jobs : job[k].displaced = j

-----------------------------------------------------------------------------
(* The inductive invariant behind the two. *)

Stored == [parts : SUBSET Nat, version : Nat]
JobStates ==
    [pc : {"none", "displace", "queued", "next", "read", "put", "store", "end", "reply", "done"},
     id : JobIds \cup {NoJob}, kind : {"none", "index", "query"}, cancelled : BOOLEAN,
     displaced : Jobs \cup {NoJob}, todo : SUBSET Documents, path : Documents \cup {NoBody},
     before : Nat, parts : Seq(Nat), ok : BOOLEAN]
ContentTypeOK ==
    /\ onDisk \in [Documents -> Nat] /\ indexed \in [Documents -> Nat]
    /\ body \in [Documents -> Stored \cup {NoBody}]
    /\ shown \in [rows : [Documents -> Nat], bodies : [Documents -> Stored \cup {NoBody}]]
    /\ job \in [Jobs -> JobStates] /\ jobs \in [JobIds -> Jobs \cup {NoJob}]

\* Versions only grow, so the parts read so far lie between the first lstat and now.
ReadInOrder(x) ==
    /\ x.pc = "read" =>
        /\ x.path \in Documents /\ x.before <= onDisk[x.path]
        /\ \A i \in DOMAIN x.parts : x.before <= x.parts[i] /\ x.parts[i] <= onDisk[x.path]
    /\ x.pc \in {"put", "store"} => x.path \in Documents /\ ToSet(x.parts) = {x.before}

OneVersion(bodies) == \A d \in Documents : bodies[d] # NoBody => bodies[d].parts = {bodies[d].version}

\* A registered job is at work under that id; one that never ran has displaced nobody.
Registered ==
    /\ \A i \in JobIds : jobs[i] # NoJob =>
         job[jobs[i]].pc \notin {"none", "done"} /\ job[jobs[i]].id = i
    /\ \A j \in Jobs : job[j].pc # "none" => job[j].id \in JobIds
    /\ \A j \in Jobs : job[j].pc = "none" => job[j].displaced = NoJob
    /\ \A j \in Jobs : job[j].displaced # j

ContentInv ==
    /\ ContentTypeOK
    /\ \A j \in Jobs : ReadInOrder(job[j])
    /\ OneVersion(body) /\ OneVersion(shown.bodies)
    /\ Registered /\ JobsStayCancellable
=============================================================================
