---------------------------- MODULE DirectoryScan ----------------------------
(***************************************************************************)
(* The enumeration behind a reconciliation pass.  A recursive scan shares  *)
(* one stack of directories between worker threads; each lists a directory,*)
(* streams its entries through a bounded channel to the calling thread and *)
(* puts the subdirectories back.  `outstanding' counts the directories     *)
(* queued or being listed: a worker leaves when it is zero and sleeps on   *)
(* the condition variable when the stack is empty but it is not.  Nobody   *)
(* notifies the sleepers of a cancellation.  A metadata scan reads single  *)
(* paths on the calling thread.                                            *)
(*                                                                         *)
(* The rows of a directory that the report does not call uncovered are     *)
(* retired when the scan did not deliver them, so the report must not      *)
(* claim more than was read.  A path is one element of DirEntries; a name  *)
(* that is not UTF-8 stands for the marker the report shows for it.        *)
(***************************************************************************)
EXTENDS Integers, Sequences, FiniteSets

CONSTANTS DirEntries,     \* what the disk holds
          EntryParent,    \* the directory of each entry
          Walkable,       \* directories a scan descends into (no symlink, in the namespace)
          BadNames,       \* names that are not UTF-8
          Pruned,         \* excluded, or outside the configured namespace
          MountAt,        \* the mount that holds each entry (MountScope::boundary)
          AllowedMounts,  \* local APFS, no snapshot but the booted one
          ScanRequests,   \* [recursive, paths]
          Walkers,        \* the worker threads, worker_count of them
          FlushRows,      \* entries a worker keeps before it sends them (512)
          CommitRows,     \* entries that make a batch for on_batch (512)
          ChannelSlots,   \* capacity of the channel (16)
          NoEntry

ASSUME ScanAssumption ==
  /\ IsFiniteSet(DirEntries) /\ IsFiniteSet(Walkers) /\ Walkers # {}
  /\ Walkable \subseteq DirEntries
  /\ FlushRows \in Nat \ {0} /\ CommitRows \in Nat \ {0} /\ ChannelSlots \in Nat \ {0}
  /\ ScanRequests \subseteq [recursive : BOOLEAN, paths : SUBSET DirEntries]

VARIABLES scanRequest,
          stage,           \* "start", "walk", "stat" or "returned"
          scanCancelled,   \* the caller's token
          work,            \* Work.dirs
          outstanding,     \* Work.outstanding
          walker,          \* each worker's place and CollectContext
          channel,         \* messages on their way to the caller
          doneFrom,        \* the workers whose Done was received
          toStat,          \* paths a metadata scan has not reached
          unflushed,       \* the caller's pending rows
          delivered,       \* what on_batch was given
          report           \* ScanReport: [uncovered, cancelled]
walkVars == <<work, outstanding, walker, channel, doneFrom>>
scanVars == <<scanRequest, stage, scanCancelled, walkVars, toStat, unflushed, delivered, report>>

At(place) ==
  [pc |-> place, dir |-> NoEntry, todo |-> {}, found |-> {}, children |-> <<>>, code |-> "ok"]
Holding == {"open", "list", "flush"}
Holders == {w \in Walkers : walker[w].pc \in Holding}

Message(w, kind, es) == [from |-> w, kind |-> kind, entries |-> es]
HasRoom == Len(channel) < ChannelSlots

\* MountScope::allows: the closest mount may be read.
Allows(e) == MountAt[e] \in AllowedMounts
\* What a scan of directory d owes its caller.
WantedIn(d) == {e \in DirEntries : EntryParent[e] = d /\ Allows(e) /\ e \notin Pruned}
Asked == {e \in scanRequest.paths : Allows(e) /\ e \notin Pruned}

ScanInit ==
  /\ scanRequest \in ScanRequests
  /\ stage = "start" /\ scanCancelled = FALSE
  /\ work = <<>> /\ outstanding = 0 /\ channel = <<>> /\ doneFrom = {}
  /\ walker = [w \in Walkers |-> At("take")]
  /\ toStat = {} /\ unflushed = {} /\ delivered = {}
  /\ report = [uncovered |-> {}, cancelled |-> FALSE]

Cancel ==
  /\ stage # "returned" /\ ~scanCancelled
  /\ scanCancelled' = TRUE
  /\ UNCHANGED <<scanRequest, stage, walkVars, toStat, unflushed, delivered, report>>

-----------------------------------------------------------------------------
(* scan_excluding_with_scope, before the workers start. *)

\* The flag was seen while the roots were normalised.
StartCancelled ==
  /\ stage = "start" /\ scanRequest.recursive /\ scanCancelled
  /\ stage' = "returned"
  /\ report' = [uncovered |-> {}, cancelled |-> TRUE]
  /\ UNCHANGED <<scanRequest, scanCancelled, walkVars, toStat, unflushed, delivered>>

\* The mount table cannot be read.
StartUnmounted ==
  /\ stage = "start"
  /\ stage' = "returned"
  /\ report' = [uncovered |-> IF scanRequest.recursive THEN scanRequest.paths
                              ELSE scanRequest.paths \ Pruned, cancelled |-> FALSE]
  /\ UNCHANGED <<scanRequest, scanCancelled, walkVars, toStat, unflushed, delivered>>

\* Every root is read; the directories among them are the first work.
StartWalk ==
  /\ stage = "start" /\ scanRequest.recursive
  /\ stage' = "walk"
  /\ \E failed \in SUBSET Asked :
       LET dirs == (Asked \ failed) \cap Walkable
       IN /\ delivered' = Asked \ failed
          /\ report' = [report EXCEPT !.uncovered = failed]
          /\ outstanding' = Cardinality(dirs)
          /\ \E order \in [1 .. Cardinality(dirs) -> dirs] :
               /\ \A d \in dirs : \E i \in 1 .. Cardinality(dirs) : order[i] = d
               /\ work' = order
  /\ UNCHANGED <<scanRequest, scanCancelled, walker, channel, doneFrom, toStat, unflushed>>

-----------------------------------------------------------------------------
(* A worker thread.  Its steps under the mutex are atomic. *)

CallerKeeps == UNCHANGED <<scanRequest, stage, scanCancelled, doneFrom, toStat, unflushed,
                           delivered, report>>

Leave(w) ==
  /\ stage = "walk" /\ walker[w].pc = "take"
  /\ scanCancelled \/ outstanding = 0
  /\ walker' = [walker EXCEPT ![w] = At("leave")]
  /\ UNCHANGED <<work, outstanding, channel>> /\ CallerKeeps

Pop(w) ==
  /\ stage = "walk" /\ walker[w].pc = "take"
  /\ ~scanCancelled /\ outstanding > 0 /\ work # <<>>
  /\ walker' = [walker EXCEPT ![w] = [At("open") EXCEPT !.dir = work[Len(work)]]]
  /\ work' = SubSeq(work, 1, Len(work) - 1)
  /\ UNCHANGED <<outstanding, channel>> /\ CallerKeeps

Sleep(w) ==
  /\ stage = "walk" /\ walker[w].pc = "take"
  /\ ~scanCancelled /\ outstanding > 0 /\ work = <<>>
  /\ walker' = [walker EXCEPT ![w] = At("asleep")]
  /\ UNCHANGED <<work, outstanding, channel>> /\ CallerKeeps

\* The records of a mount that may not be read are dropped unseen.
Open(w) ==
  /\ stage = "walk" /\ walker[w].pc = "open"
  /\ walker' = [walker EXCEPT ![w].pc = "list",
                  ![w].todo = {e \in DirEntries : EntryParent[e] = walker[w].dir /\ Allows(e)}]
  /\ UNCHANGED <<work, outstanding, channel>> /\ CallerKeeps

\* Mutant: a listing that breaks off is taken for a complete one.
FailSilently(w) ==
  /\ stage = "walk" /\ walker[w].pc \in {"open", "list"}
  /\ walker' = [walker EXCEPT ![w].pc = "flush", ![w].todo = {}]
  /\ UNCHANGED <<work, outstanding, channel>> /\ CallerKeeps

\* The directory cannot be opened or searched, its mount changed since the scan
\* began, or a later batch of its records cannot be read.
FailDirectory(w) ==
  /\ stage = "walk" /\ walker[w].pc \in {"open", "list"}
  /\ walker' = [walker EXCEPT ![w].pc = "flush", ![w].todo = {}, ![w].code = "error"]
  /\ UNCHANGED <<work, outstanding, channel>> /\ CallerKeeps

\* collect_entry of an entry left out, of one that cannot be read, of one kept.
SkipEntry(w, e) ==
  /\ e \in Pruned /\ e \notin BadNames
  /\ walker' = [walker EXCEPT ![w].todo = @ \ {e}]
  /\ UNCHANGED channel
RefuseEntry(w, e) ==
  /\ HasRoom
  /\ walker' = [walker EXCEPT ![w].todo = @ \ {e}]
  /\ channel' = Append(channel, Message(w, "issue", {e}))
KeepEntry(w, e) ==
  LET found == walker[w].found \cup {e}
      full  == Cardinality(found) >= FlushRows
  IN /\ e \notin BadNames /\ e \notin Pruned
     /\ walker' = [walker EXCEPT ![w].todo = @ \ {e},
                     ![w].children = IF e \in Walkable THEN Append(@, e) ELSE @,
                     ![w].found = IF full THEN {} ELSE found]
     /\ IF full THEN HasRoom /\ channel' = Append(channel, Message(w, "batch", found))
                ELSE UNCHANGED channel
CollectEntry(w, e) ==
  /\ stage = "walk" /\ walker[w].pc = "list" /\ e \in walker[w].todo /\ ~scanCancelled
  /\ \/ SkipEntry(w, e)
     \/ (e \in BadNames \/ e \notin Pruned) /\ RefuseEntry(w, e)
     \/ KeepEntry(w, e)
  /\ UNCHANGED <<work, outstanding>> /\ CallerKeeps

\* The flag is seen at the next entry: ECANCELED, which is not reported.
AbandonDirectory(w) ==
  /\ stage = "walk" /\ walker[w].pc = "list" /\ walker[w].todo # {} /\ scanCancelled
  /\ walker' = [walker EXCEPT ![w].pc = "flush", ![w].todo = {}, ![w].code = "cancelled"]
  /\ UNCHANGED <<work, outstanding, channel>> /\ CallerKeeps

ListDone(w) ==
  /\ stage = "walk" /\ walker[w].pc = "list" /\ walker[w].todo = {}
  /\ walker' = [walker EXCEPT ![w].pc = "flush"]
  /\ UNCHANGED <<work, outstanding, channel>> /\ CallerKeeps

\* What is left of the entries is sent, then the failure.
SendRest(w) ==
  /\ stage = "walk" /\ walker[w].pc = "flush" /\ walker[w].found # {} /\ HasRoom
  /\ channel' = Append(channel, Message(w, "batch", walker[w].found))
  /\ walker' = [walker EXCEPT ![w].found = {}]
  /\ UNCHANGED <<work, outstanding>> /\ CallerKeeps
SendIssue(w) ==
  /\ stage = "walk" /\ walker[w].pc = "flush" /\ walker[w].found = {} /\ HasRoom
  /\ walker[w].code = "error"
  /\ channel' = Append(channel, Message(w, "issue", {walker[w].dir}))
  /\ walker' = [walker EXCEPT ![w].code = "reported"]
  /\ UNCHANGED <<work, outstanding>> /\ CallerKeeps

\* notify_all
Woken(state) == IF state.pc = "asleep" THEN At("take") ELSE state

\* Mutant: only the worker itself goes on.
FinishQuietly(w) ==
  /\ stage = "walk" /\ walker[w].pc = "flush" /\ walker[w].found = {} /\ walker[w].code # "error"
  /\ outstanding' = outstanding - 1 + Len(walker[w].children)
  /\ work' = work \o walker[w].children
  /\ walker' = [walker EXCEPT ![w] = At("take")]
  /\ UNCHANGED channel /\ CallerKeeps

FinishDirectory(w) ==
  /\ stage = "walk" /\ walker[w].pc = "flush" /\ walker[w].found = {} /\ walker[w].code # "error"
  /\ outstanding' = outstanding - 1 + Len(walker[w].children)
  /\ work' = work \o walker[w].children
  /\ walker' = [v \in Walkers |-> IF v = w THEN At("take") ELSE Woken(walker[v])]
  /\ UNCHANGED channel /\ CallerKeeps

SendDone(w) ==
  /\ stage = "walk" /\ walker[w].pc = "leave" /\ HasRoom
  /\ channel' = Append(channel, Message(w, "done", {}))
  /\ walker' = [walker EXCEPT ![w] = At("gone")]
  /\ UNCHANGED <<work, outstanding>> /\ CallerKeeps

-----------------------------------------------------------------------------
(* The calling thread. *)

AllDone == Cardinality(doneFrom) = Cardinality(Walkers)

\* No message is left when the last Done arrives, so a disconnected channel is
\* never what ends the loop.  Rows go to on_batch in batches of CommitRows; the last ones wait.
Commit(rows) ==
  \E kept \in SUBSET rows :
    /\ Cardinality(kept) = Cardinality(rows) % CommitRows
    /\ unflushed' = kept
    /\ delivered' = delivered \cup (rows \ kept)

Receive ==
  /\ stage = "walk" /\ ~AllDone /\ channel # <<>>
  /\ channel' = Tail(channel)
  /\ LET m == Head(channel)
     IN \/ /\ m.kind = "batch"
           /\ Commit(unflushed \cup m.entries)
           /\ UNCHANGED <<report, doneFrom>>
        \/ /\ m.kind = "issue"
           /\ report' = [report EXCEPT !.uncovered = @ \cup m.entries]
           /\ UNCHANGED <<unflushed, delivered, doneFrom>>
        \/ /\ m.kind = "done"
           /\ doneFrom' = doneFrom \cup {m.from}
           /\ UNCHANGED <<unflushed, delivered, report>>
  /\ UNCHANGED <<scanRequest, stage, scanCancelled, work, outstanding, walker, toStat>>

\* An empty channel flushes the pending rows at once.
FlushIdle ==
  /\ stage = "walk" /\ ~AllDone /\ channel = <<>> /\ unflushed # {}
  /\ delivered' = delivered \cup unflushed
  /\ unflushed' = {}
  /\ UNCHANGED <<scanRequest, stage, scanCancelled, walkVars, toStat, report>>

Returned == /\ stage' = "returned" /\ unflushed' = {}
            /\ delivered' = delivered \cup unflushed

\* The flag is read again for the report, after the workers.
Return ==
  /\ stage = "walk" /\ AllDone
  /\ Returned
  /\ report' = [report EXCEPT !.cancelled = scanCancelled]
  /\ UNCHANGED <<scanRequest, scanCancelled, walkVars, toStat>>

-----------------------------------------------------------------------------
(* scan_metadata_in_namespace *)

StartStat ==
  /\ stage = "start" /\ ~scanRequest.recursive
  /\ stage' = "stat"
  /\ toStat' = {e \in scanRequest.paths : e \notin Pruned}
  /\ UNCHANGED <<scanRequest, scanCancelled, walkVars, unflushed, delivered, report>>

SkipMount(e) ==
  /\ stage = "stat" /\ e \in toStat /\ ~Allows(e)
  /\ toStat' = toStat \ {e}
  /\ UNCHANGED <<scanRequest, stage, scanCancelled, walkVars, unflushed, delivered, report>>

StatEntry(e) ==
  /\ stage = "stat" /\ e \in toStat /\ Allows(e) /\ ~scanCancelled
  /\ toStat' = toStat \ {e}
  /\ \/ Commit(unflushed \cup {e}) /\ UNCHANGED report
     \/ /\ report' = [report EXCEPT !.uncovered = @ \cup {e}]
        /\ UNCHANGED <<unflushed, delivered>>
  /\ UNCHANGED <<scanRequest, stage, scanCancelled, walkVars>>

StatCancelled ==
  /\ stage = "stat" /\ scanCancelled /\ \E e \in toStat : Allows(e)
  /\ Returned
  /\ report' = [report EXCEPT !.cancelled = TRUE]
  /\ UNCHANGED <<scanRequest, scanCancelled, walkVars, toStat>>

StatDone ==
  /\ stage = "stat" /\ toStat = {}
  /\ Returned
  /\ UNCHANGED <<scanRequest, scanCancelled, walkVars, toStat, report>>

-----------------------------------------------------------------------------
WalkerNext(w) ==
  \/ Leave(w) \/ Pop(w) \/ Sleep(w) \/ Open(w) \/ FailDirectory(w)
  \/ \E e \in DirEntries : CollectEntry(w, e)
  \/ AbandonDirectory(w) \/ ListDone(w) \/ SendRest(w) \/ SendIssue(w)
  \/ FinishDirectory(w) \/ SendDone(w)
ScanNext ==
  \/ Cancel \/ StartCancelled \/ StartUnmounted \/ StartWalk
  \/ \E w \in Walkers : WalkerNext(w)
  \/ Receive \/ FlushIdle \/ Return
  \/ StartStat \/ StatCancelled \/ StatDone
  \/ \E e \in DirEntries : SkipMount(e) \/ StatEntry(e)

ScanSpec == ScanInit /\ [][ScanNext]_scanVars

-----------------------------------------------------------------------------
Contexts ==
  [pc : {"take", "asleep", "leave", "gone", "open", "list", "flush"},
   dir : DirEntries \cup {NoEntry}, todo : SUBSET DirEntries, found : SUBSET DirEntries,
   children : Seq(DirEntries), code : {"ok", "error", "cancelled", "reported"}]
Messages == [from : Walkers, kind : {"batch", "issue", "done"}, entries : SUBSET DirEntries]
ScanTypeOK ==
  /\ scanRequest \in ScanRequests
  /\ stage \in {"start", "walk", "stat", "returned"}
  /\ scanCancelled \in BOOLEAN
  /\ work \in Seq(DirEntries) /\ outstanding \in Nat
  /\ walker \in [Walkers -> Contexts] /\ channel \in Seq(Messages)
  /\ doneFrom \subseteq Walkers
  /\ toStat \subseteq DirEntries /\ unflushed \subseteq DirEntries /\ delivered \subseteq DirEntries
  /\ report \in [uncovered : SUBSET DirEntries, cancelled : BOOLEAN]

\* A scan that does not report itself cancelled was given every path asked for,
\* and every entry of every directory it delivered, save what it reports as
\* uncovered: whichever workers slept, failed or raced a cancellation, no batch
\* is lost in the channel and no directory forgotten on the stack
\* (scan_excluding_with_scope, scan_metadata_in_namespace).
ReportIsWhole ==
  stage = "returned" /\ ~report.cancelled =>
    /\ Asked \subseteq delivered \cup report.uncovered
    /\ scanRequest.recursive =>
         \A d \in (delivered \cap Walkable) \ report.uncovered :
           WantedIn(d) \subseteq delivered \cup report.uncovered

\* A sleeping worker is never alone: some worker still lists a directory and
\* will notify it, though a cancellation notifies nobody.
SleepersHaveAWaker ==
  \A w \in Walkers : walker[w].pc = "asleep" => Holders # {}

-----------------------------------------------------------------------------
(* The inductive invariant behind both: where each entry is, what each     *)
(* directory still waits for, and what the channel can still carry.        *)

InFlight(kind) == {e \in DirEntries :
  \E i \in 1 .. Len(channel) : channel[i].kind = kind /\ e \in channel[i].entries}
Gathered == {e \in DirEntries : \E w \in Walkers : e \in walker[w].found}
Seen == delivered \cup unflushed \cup InFlight("batch") \cup Gathered
Refused == report.uncovered \cup InFlight("issue")
OnStack(d) == \E i \in 1 .. Len(work) : work[i] = d
Passed(d) == \E w \in Walkers : \E i \in 1 .. Len(walker[w].children) : walker[w].children[i] = d
Held(d) == \E w \in Walkers : walker[w].pc \in Holding /\ walker[w].dir = d
Listed(d) == WantedIn(d) \subseteq Seen \cup Refused

\* `outstanding' is exact, so a worker leaves only when nothing is left to list.
WorkIsCounted ==
  /\ outstanding = Len(work) + Cardinality(Holders)
  /\ \A w \in Walkers : walker[w].pc \in {"leave", "gone"} => scanCancelled \/ outstanding = 0

\* A worker without a directory has nothing in its context.
ContextsAreClean ==
  \A w \in Walkers :
    /\ walker[w].pc \in Holding => walker[w].dir \in DirEntries
    /\ walker[w].pc \notin Holding => walker[w].found = {} /\ walker[w].children = <<>>
    /\ walker[w].pc \in {"open", "list"} => walker[w].code = "ok"

\* A directory seen is waiting, being listed, refused or completely listed.
DirectoriesAreTracked ==
  /\ Asked \subseteq Seen \cup Refused
  /\ \A d \in Seen \cap Walkable :
       scanCancelled \/ OnStack(d) \/ Passed(d) \/ Held(d) \/ d \in Refused \/ Listed(d)
  /\ \A w \in Walkers :
       /\ walker[w].pc = "list" => WantedIn(walker[w].dir) \subseteq Seen \cup Refused \cup walker[w].todo
       /\ walker[w].pc = "flush" =>
            CASE walker[w].code = "ok" -> Listed(walker[w].dir)
              [] walker[w].code = "reported" -> walker[w].dir \in Refused
              [] walker[w].code = "cancelled" -> scanCancelled
              [] OTHER -> TRUE

\* A worker's Done is the last of its messages.
DoneIsLast ==
  /\ \A w \in doneFrom : walker[w].pc = "gone"
  /\ \A i \in 1 .. Len(channel) :
       /\ channel[i].from \notin doneFrom
       /\ channel[i].kind = "done" =>
            /\ walker[channel[i].from].pc = "gone"
            /\ \A j \in i + 1 .. Len(channel) : channel[j].from # channel[i].from

Untouched ==
  /\ work = <<>> /\ outstanding = 0 /\ channel = <<>> /\ doneFrom = {}
  /\ walker = [w \in Walkers |-> At("take")]
StatsAreTracked ==
  ~report.cancelled /\ Asked \subseteq delivered \cup unflushed \cup report.uncovered \cup toStat

ScanInv ==
  /\ ScanTypeOK
  /\ stage = "start" => Untouched /\ delivered = {} /\ unflushed = {} /\ ~report.cancelled
  /\ stage = "stat" => StatsAreTracked /\ ~scanRequest.recursive
  /\ stage = "walk" => WorkIsCounted /\ ContextsAreClean /\ DirectoriesAreTracked /\ DoneIsLast
  /\ SleepersHaveAWaker
  /\ ReportIsWhole
=============================================================================
