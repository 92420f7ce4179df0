---------------------------- MODULE FileListImport ----------------------------
(***************************************************************************)
(* Offline file lists: a list is staged in a temporary table, in one call  *)
(* or batch by batch, and replaces the index in one transaction.           *)
(*                                                                         *)
(* restart_lock and the mutex of the pending import are held through every *)
(* import request, so those take turns; `op' is the one that holds them.   *)
(* What interleaves with it: a cancellation, which sets the token before   *)
(* it waits for the mutex; another request under the same id, which        *)
(* replaces and cancels the token; the end of the index worker; a crash,   *)
(* which loses the temporary table.                                        *)
(***************************************************************************)
EXTENDS Integers, Sequences, SequencesExt

CONSTANTS Ids,         \* request ids
          Batches,     \* sequences of paths a client sends at a time
          MaxRows,     \* limit of a whole list
          MaxTokens,   \* bound on requests
          MaxCrashes, NoImport, NoToken

ListedPaths == UNION {ToSet(b) : b \in Batches}
ASSUME ImportAssumption ==
  /\ Batches \subseteq Seq(ListedPaths) /\ NoToken \notin Nat
  /\ NoImport \notin Seq(ListedPaths) \cup [id : Ids, rows : Nat, token : Nat]

VARIABLES pending,     \* SearchEngine.file_list_import: id, row count, token
          staging,     \* temp.file_list_import: file_id by path
          sent,        \* the paths accepted for the import under way, in order
          files,       \* the committed rows: scanned ones, or file_id by path
          accepted,    \* the list the client had completed when files was replaced
          savedOffline, offline, active,
          requests,    \* the token registered under each id
          cancelled,   \* the tokens that are set
          tokens,      \* tokens made so far
          op,          \* the request that holds restart_lock and pending
          cancelling,  \* cancel requests that have set a token and wait for pending
          crashes
importVars == <<pending, staging, sent, files, accepted, savedOffline, offline, active,
                requests, cancelled, tokens, op, cancelling, crashes>>

NoTable == NoImport
ScannedRows == [imported |-> FALSE, rows |-> {}]
Free == [kind |-> "none", pc |-> "none", id |-> NoImport, token |-> NoToken, rest |-> <<>>, all |-> <<>>]

ImportInit ==
  /\ pending = NoImport /\ staging = NoTable /\ sent = <<>>
  /\ files = ScannedRows /\ accepted = NoImport
  /\ savedOffline = FALSE /\ offline = FALSE /\ active \in BOOLEAN
  /\ requests = [i \in Ids |-> NoToken]
  /\ cancelled = {} /\ tokens = 0
  /\ op = Free /\ cancelling = {} /\ crashes = 0

\* What a complete list becomes: the last occurrence of a path wins.
Lasts(list) == {i \in DOMAIN list : \A j \in DOMAIN list : list[j] = list[i] => j <= i}
Table(list) == {<<list[i], i>> : i \in Lasts(list)}

-----------------------------------------------------------------------------
(* The request registry. *)

\* requests.insert: an earlier request under the id is cancelled.
Register(id) ==
  /\ tokens < MaxTokens
  /\ tokens' = tokens + 1
  /\ requests' = [requests EXCEPT ![id] = tokens + 1]
  /\ cancelled' = cancelled \cup ({requests[id]} \ {NoToken})

\* RequestGuard.drop: only the request's own token is removed.
Unregister(id, token) ==
  requests' = IF requests[id] = token THEN [requests EXCEPT ![id] = NoToken] ELSE requests

\* entries: file ids count on from the rows accepted before.
InsertRows(table, batch, offset) ==
  {r \in table : r[1] \notin ToSet(batch)}
    \cup {<<r[1], r[2] + offset>> : r \in Table(batch)}
InsertFromOne(table, batch, offset) ==
  {r \in table : r[1] \notin ToSet(batch)} \cup Table(batch)

StageRowsFromOne(batch, offset) == staging' = InsertFromOne(staging, batch, offset)

StageRows(batch, offset) == staging' = InsertRows(staging, batch, offset)

-----------------------------------------------------------------------------
(* staged_file_list_import *)

Begin(id) ==
  /\ op = Free
  /\ ~active /\ pending = NoImport
  /\ staging' = {}
  /\ Register(id)
  /\ pending' = [id |-> id, rows |-> 0, token |-> tokens + 1]
  /\ sent' = <<>>
  /\ UNCHANGED <<files, accepted, savedOffline, offline, active, op, cancelling, crashes>>

\* Every error, and the end of the import, takes the pending import away.
TakePending ==
  /\ pending' = NoImport
  /\ Unregister(pending.id, pending.token)
  /\ staging' = NoTable

\* append: cancelled, over a limit or failed by the store, the import is over.
AppendRows(id, batch) ==
  /\ op = Free
  /\ pending # NoImport /\ pending.id = id
  /\ \/ TakePending /\ UNCHANGED sent
     \/ /\ pending.token \notin cancelled
        /\ pending.rows + Len(batch) <= MaxRows
        /\ StageRows(batch, pending.rows)
        /\ pending' = [pending EXCEPT !.rows = @ + Len(batch)]
        /\ sent' = sent \o batch
        /\ UNCHANGED requests
  /\ UNCHANGED <<files, accepted, savedOffline, offline, active, cancelled, tokens, op,
                 cancelling, crashes>>

Abort(id) ==
  /\ op = Free
  /\ pending # NoImport /\ pending.id = id
  /\ TakePending
  /\ UNCHANGED <<sent, files, accepted, savedOffline, offline, active, cancelled, tokens, op,
                 cancelling, crashes>>

\* finish: the token is checked once; then the locks are held to the end.
Finish(id) ==
  /\ op = Free
  /\ pending # NoImport /\ pending.id = id
  /\ IF pending.token \in cancelled
       THEN TakePending /\ UNCHANGED op
       ELSE /\ op' = [kind |-> "finish", pc |-> "commit", id |-> id, token |-> pending.token,
                      rest |-> <<>>, all |-> sent]
            /\ UNCHANGED <<pending, requests, staging>>
  /\ UNCHANGED <<sent, files, accepted, savedOffline, offline, active, cancelled, tokens,
                 cancelling, crashes>>

-----------------------------------------------------------------------------
(* import_file_list *)

OneShot(id, list) ==
  /\ op = Free
  /\ ~active /\ pending = NoImport
  /\ Len(list) <= MaxRows
  /\ Register(id)
  /\ staging' = {}
  /\ sent' = <<>>
  /\ op' = [kind |-> "all", pc |-> "stage", id |-> id, token |-> tokens + 1, rest |-> list,
            all |-> list]
  /\ UNCHANGED <<pending, files, accepted, savedOffline, offline, active, cancelling, crashes>>

\* Each batch, and the commit, follow a check of the token; a batch ends where
\* its rows or its bytes are over a limit.
StageBatch ==
  /\ op.kind = "all" /\ op.pc = "stage"
  /\ op.token \notin cancelled
  /\ \E n \in DOMAIN op.rest :
       LET batch == SubSeq(op.rest, 1, n) IN
       /\ StageRows(batch, Len(sent))
       /\ sent' = sent \o batch
       /\ op' = [op EXCEPT !.rest = SubSeq(op.rest, n + 1, Len(op.rest))]
  /\ UNCHANGED <<pending, files, accepted, savedOffline, offline, active, requests, cancelled,
                 tokens, cancelling, crashes>>
StageDone ==
  /\ op.kind = "all" /\ op.pc = "stage"
  /\ op.token \notin cancelled /\ op.rest = <<>>
  /\ op' = [op EXCEPT !.pc = "commit"]
  /\ UNCHANGED <<pending, staging, sent, files, accepted, savedOffline, offline, active, requests,
                 cancelled, tokens, cancelling, crashes>>

\* complete_file_list_import: the transaction, then the flags, then a refresh,
\* whose failure is the request's failure.
CommitImport ==
  /\ op.kind # "none" /\ op.pc = "commit"
  /\ \/ /\ files' = [imported |-> TRUE, rows |-> staging] /\ accepted' = op.all /\ savedOffline' = TRUE
        /\ staging' = NoTable
        /\ op' = [op EXCEPT !.pc = "flags"]
     \/ /\ op' = [op EXCEPT !.pc = "clean"]
        /\ UNCHANGED <<files, accepted, savedOffline, staging>>
  /\ UNCHANGED <<pending, sent, offline, active, requests, cancelled, tokens, cancelling, crashes>>
SetOffline ==
  /\ op.kind # "none" /\ op.pc = "flags"
  /\ offline' = TRUE
  /\ op' = [op EXCEPT !.pc = "clean"]
  /\ UNCHANGED <<pending, staging, sent, files, accepted, savedOffline, active, requests,
                 cancelled, tokens, cancelling, crashes>>

\* A one-shot import that is cancelled at a check, or failed by the store, goes
\* to its clean-up.
StopStaging ==
  /\ op.kind = "all" /\ op.pc = "stage"
  /\ op' = [op EXCEPT !.pc = "clean"]
  /\ UNCHANGED <<pending, staging, sent, files, accepted, savedOffline, offline, active, requests,
                 cancelled, tokens, cancelling, crashes>>

\* abort_file_list_import, the guard, and the locks.
CleanUp ==
  /\ op.kind # "none" /\ op.pc = "clean"
  /\ pending' = IF op.kind = "finish" THEN NoImport ELSE pending
  /\ Unregister(op.id, op.token)
  /\ staging' = NoTable
  /\ op' = Free
  /\ UNCHANGED <<sent, files, accepted, savedOffline, offline, active, cancelled, tokens,
                 cancelling, crashes>>

-----------------------------------------------------------------------------
(* What interleaves. *)

\* cancel: the token is set without any of the import's locks,
CancelToken(id) ==
  /\ id \notin cancelling /\ requests[id] # NoToken
  /\ cancelled' = cancelled \cup {requests[id]}
  /\ cancelling' = cancelling \cup {id}
  /\ UNCHANGED <<pending, staging, sent, files, accepted, savedOffline, offline, active, requests,
                 tokens, op, crashes>>
\* then cancel_file_list_import waits for the mutex.
CancelImport(id) ==
  /\ id \in cancelling /\ op = Free
  /\ cancelling' = cancelling \ {id}
  /\ IF pending # NoImport /\ pending.id = id
       THEN TakePending
       ELSE UNCHANGED <<pending, requests, staging>>
  /\ UNCHANGED <<sent, files, accepted, savedOffline, offline, active, cancelled, tokens, op, crashes>>

\* A query or an observation under the same id, from registration to its end.
OtherRequest(id) ==
  /\ Register(id)
  /\ UNCHANGED <<pending, staging, sent, files, accepted, savedOffline, offline, active, op,
                 cancelling, crashes>>
OtherRequestEnds(id) ==
  /\ requests[id] # NoToken
  /\ pending # NoImport => pending.token # requests[id]
  /\ op.kind # "none" => op.token # requests[id]
  /\ requests' = [requests EXCEPT ![id] = NoToken]
  /\ UNCHANGED <<pending, staging, sent, files, accepted, savedOffline, offline, active, cancelled,
                 tokens, op, cancelling, crashes>>

\* start_worker: refused while an import is pending and on an offline index.
StartWorker ==
  /\ op = Free /\ pending = NoImport /\ ~offline
  /\ active' = TRUE
  /\ UNCHANGED <<pending, staging, sent, files, accepted, savedOffline, offline, requests,
                 cancelled, tokens, op, cancelling, crashes>>
WorkerEnds ==
  /\ active
  /\ active' = FALSE
  /\ UNCHANGED <<pending, staging, sent, files, accepted, savedOffline, offline, requests,
                 cancelled, tokens, op, cancelling, crashes>>

\* The process ends; the next one opens the database (offline is a setting).
ImportCrash ==
  /\ crashes < MaxCrashes
  /\ crashes' = crashes + 1
  /\ pending' = NoImport /\ staging' = NoTable /\ op' = Free /\ active' = FALSE
  /\ requests' = [i \in Ids |-> NoToken] /\ cancelling' = {}
  /\ offline' = savedOffline
  /\ UNCHANGED <<sent, files, accepted, savedOffline, cancelled, tokens>>

ImportNext ==
  \/ \E id \in Ids :
       \/ Begin(id) \/ Abort(id) \/ Finish(id) \/ \E b \in Batches : AppendRows(id, b)
       \/ \E b1, b2 \in Batches : OneShot(id, b1 \o b2)
       \/ CancelToken(id) \/ CancelImport(id) \/ OtherRequest(id) \/ OtherRequestEnds(id)
  \/ StageBatch \/ StageDone \/ StopStaging \/ CommitImport \/ SetOffline \/ CleanUp
  \/ StartWorker \/ WorkerEnds \/ ImportCrash

ImportSpec == ImportInit /\ [][ImportNext]_importVars

-----------------------------------------------------------------------------
\* The index is the scanned rows or one whole list, as the client completed it:
\* never the rows of an abandoned, refused or cancelled import, nor a list some
\* batch of which is missing or numbered wrongly.  Between requests, rows are
\* staged only for the pending import, whose token is registered under its id
\* unless it was cancelled; no worker runs beside it; and the index is offline
\* exactly when a list replaced its rows, before and after a crash
\* (finish_file_list_import, staged_file_list_import, cancel_file_list_import).
ImportIsWhole ==
  /\ files.imported => accepted # NoImport /\ files.rows = Table(accepted)
  /\ op = Free /\ pending = NoImport => staging = NoTable
  /\ pending # NoImport =>
       /\ ~active
       /\ pending.token \in cancelled \/ requests[pending.id] = pending.token
  /\ op = Free => (offline <=> files.imported)

-----------------------------------------------------------------------------
(* The inductive invariant behind it. *)

Imports == [id : Ids, rows : Nat, token : Nat]
Operations ==
  [kind : {"none", "all", "finish"}, pc : {"none", "stage", "commit", "flags", "clean"},
   id : Ids \cup {NoImport}, token : Nat \cup {NoToken}, rest : Seq(ListedPaths), all : Seq(ListedPaths)]
ImportTypeOK ==
  /\ pending \in Imports \cup {NoImport} /\ sent \in Seq(ListedPaths)
  /\ accepted \in Seq(ListedPaths) \cup {NoImport}
  /\ requests \in [Ids -> Nat \cup {NoToken}] /\ tokens \in Nat
  /\ op \in Operations

\* The request that holds the locks, and what its table holds at each step.
OperationFits(o) ==
  /\ o.kind = "none" => o = Free
  /\ o.kind = "all" => pending = NoImport /\ o.pc # "none" /\ o.id \in Ids
  /\ o.kind = "finish" => /\ pending # NoImport /\ o.pc \in {"commit", "flags", "clean"}
                          /\ o.id = pending.id /\ o.token = pending.token
  /\ o.pc = "stage" => staging = Table(sent) /\ sent \o o.rest = o.all
  /\ o.pc = "commit" => staging = Table(o.all)

\* Between requests the table holds what the pending import has accepted.
PendingFits ==
  /\ pending # NoImport /\ op = Free => pending.rows = Len(sent) /\ staging = Table(sent)
  /\ pending # NoImport =>
       ~active /\ (pending.token \in cancelled \/ requests[pending.id] = pending.token)
  /\ pending = NoImport /\ op = Free => staging = NoTable

ReplacedAtOnce ==
  /\ files.imported => accepted # NoImport /\ files.rows = Table(accepted)
  /\ savedOffline <=> files.imported
  /\ IF op.pc = "flags" THEN savedOffline ELSE offline <=> savedOffline

ImportInv == ImportTypeOK /\ OperationFits(op) /\ PendingFits /\ ReplacedAtOnce
=============================================================================
