----------------------------- MODULE DerivedCache -----------------------------
(***************************************************************************)
(* The byte budget that the query products (pages, match bitmaps, result   *)
(* orders, directory trees) share with the retained scratch buffers.       *)
(*                                                                         *)
(* Every change of the entries holds the ledger's mutex; a hit only locks  *)
(* one shard and moves its entry to the back, so it interleaves with the   *)
(* search for a victim.  A reservation is taken under the ledger's mutex   *)
(* and given back without it.  Time of last use is the position in `lru';  *)
(* the order within a shard is the order of lru restricted to it.          *)
(***************************************************************************)
EXTENDS Integers, FiniteSets, Sequences, SequencesExt

CONSTANTS CacheKeys,    \* OwnedKey: the snapshot that owns a product, and its key
          OwnerOf(_),   \* the snapshot of a key
          ShardOf(_),   \* the shard a key hashes to
          Products,     \* [allocs: set of allocations, overhead: Nat]
          AllocBytes,   \* bytes of an allocation
          ByteLimit, EntryLimit,
          Buffers,      \* the threads that use a scratch buffer
          BufferBytes, PoolLimit, MaxEpoch, MaxInserts

VARIABLES entries,      \* cached products by key
          lru,          \* the keys, least recently used first
          ledger,       \* Ledger: references per allocation, bytes, entry count
          estimated,    \* Cache.estimated_bytes
          reserved,     \* Cache.reserved_bytes
          lock,         \* the insertion that holds the ledger, or "free"
          pool,         \* retained buffers, by the epoch they were taken in
          epoch,        \* EPOCH of the scratch pool
          clearing,     \* progress of derived_cache::clear
          scratch,      \* the buffer each thread uses: its epoch, or none
          inserts
cacheVars == <<entries, lru, ledger, estimated, reserved, lock, pool, epoch, clearing,
               scratch, inserts>>

Allocations == DOMAIN AllocBytes
Bytes(allocs) == FoldSet(LAMBDA a, sum : AllocBytes[a] + sum, 0, allocs)
Unused == 0

CacheInit ==
  /\ entries = <<>> /\ lru = <<>>
  /\ ledger = [refs |-> [a \in Allocations |-> 0], bytes |-> 0, count |-> 0]
  /\ estimated = 0 /\ reserved = 0
  /\ lock = "free"
  /\ pool = <<>> /\ epoch = 1 /\ clearing = "no"
  /\ scratch = [b \in Buffers |-> Unused]
  /\ inserts = 0

-----------------------------------------------------------------------------
\* Ledger.add: an allocation that several products share is counted once.
LedgerAdd(l, p) ==
  [refs |-> [a \in Allocations |-> IF a \in p.allocs THEN l.refs[a] + 1 ELSE l.refs[a]],
   bytes |-> l.bytes + p.overhead + Bytes({a \in p.allocs : l.refs[a] = 0}),
   count |-> l.count + 1]

LedgerRemoveAll(l, p) ==
  [refs |-> [a \in Allocations |-> IF a \in p.allocs THEN l.refs[a] - 1 ELSE l.refs[a]],
   bytes |-> l.bytes - p.overhead - Bytes(p.allocs),
   count |-> l.count - 1]

\* Ledger.remove: and given back with its last reference.
LedgerRemove(l, p) ==
  [refs |-> [a \in Allocations |-> IF a \in p.allocs THEN l.refs[a] - 1 ELSE l.refs[a]],
   bytes |-> l.bytes - p.overhead - Bytes({a \in p.allocs : l.refs[a] = 1}),
   count |-> l.count - 1]

RemoveKey(l, k) == IF k \in DOMAIN entries THEN LedgerRemove(l, entries[k]) ELSE l
EntriesWithout(ks) == [k \in DOMAIN entries \ ks |-> entries[k]]
Forget(ks) == SelectSeq(lru, LAMBDA k : k \notin ks)

\* Cache.get: the hit touches the entry under its shard's lock alone.
Hit(k) ==
  /\ k \in DOMAIN entries
  /\ lru # <<>> /\ Last(lru) # k
  /\ lru' = Append(Forget({k}), k)
  /\ UNCHANGED <<entries, ledger, estimated, reserved, lock, pool, epoch, clearing, scratch, inserts>>

\* Cache.insert up to the eviction loop; a product above the whole limit is refused.
Insert(k, p) ==
  /\ lock = "free" /\ inserts < MaxInserts
  /\ Bytes(p.allocs) + p.overhead <= ByteLimit
  /\ ledger' = LedgerAdd(RemoveKey(ledger, k), p)
  /\ entries' = [x \in DOMAIN entries \cup {k} |-> IF x = k THEN p ELSE entries[x]]
  /\ lru' = Append(Forget({k}), k)
  /\ lock' = "evicting"
  /\ inserts' = inserts + 1
  /\ UNCHANGED <<estimated, reserved, pool, epoch, clearing, scratch>>

OverLimit == ledger.bytes + reserved > ByteLimit \/ ledger.count > EntryLimit

\* The shard whose front was used longest ago.
ChooseVictim ==
  /\ lock = "evicting" /\ OverLimit /\ lru # <<>>
  /\ lock' = ShardOf(Head(lru))
  /\ UNCHANGED <<entries, lru, ledger, estimated, reserved, pool, epoch, clearing, scratch, inserts>>

\* Its front is popped, which a hit may have changed since.
PopVictim ==
  /\ lock \notin {"free", "evicting"}
  /\ LET shard == SelectSeq(lru, LAMBDA k : ShardOf(k) = lock)
         gone == IF shard = <<>> THEN {} ELSE {Head(shard)}
     IN /\ entries' = EntriesWithout(gone)
        /\ lru' = Forget(gone)
        /\ ledger' = FoldSet(LAMBDA k, l : LedgerRemove(l, entries[k]), ledger, gone)
  /\ lock' = "evicting"
  /\ UNCHANGED <<estimated, reserved, pool, epoch, clearing, scratch, inserts>>

InsertDone ==
  /\ lock = "evicting" /\ (~OverLimit \/ lru = <<>>)
  /\ lock' = "free"
  /\ estimated' = ledger.bytes
  /\ UNCHANGED <<entries, lru, ledger, reserved, pool, epoch, clearing, scratch, inserts>>

\* Cache.remove_owner: the last reader of a snapshot is gone.
RemoveOwner(o) ==
  LET gone == {k \in DOMAIN entries : OwnerOf(k) = o}
      left == FoldSet(LAMBDA k, l : LedgerRemove(l, entries[k]), ledger, gone)
  IN /\ lock = "free" /\ gone # {}
     /\ entries' = EntriesWithout(gone)
     /\ lru' = Forget(gone)
     /\ ledger' = left /\ estimated' = left.bytes
     /\ UNCHANGED <<reserved, lock, pool, epoch, clearing, scratch, inserts>>

-----------------------------------------------------------------------------
(* Memory pressure: Cache.clear, then query_scratch::clear. *)

ClearEntries ==
  /\ lock = "free" /\ clearing = "no" /\ epoch < MaxEpoch
  /\ entries' = <<>> /\ lru' = <<>>
  /\ ledger' = [refs |-> [a \in Allocations |-> 0], bytes |-> 0, count |-> 0]
  /\ estimated' = 0
  /\ clearing' = "entries"
  /\ UNCHANGED <<reserved, lock, pool, epoch, scratch, inserts>>

AdvanceEpoch(from, to) ==
  /\ clearing = from
  /\ epoch' = epoch + 1
  /\ clearing' = to
  /\ UNCHANGED <<entries, lru, ledger, estimated, reserved, lock, pool, scratch, inserts>>
ClearPool(from, to) ==
  /\ clearing = from
  /\ reserved' = reserved - Len(pool) * BufferBytes
  /\ pool' = <<>>
  /\ clearing' = to
  /\ UNCHANGED <<entries, lru, ledger, estimated, lock, epoch, scratch, inserts>>

ClearScratchPoolFirst == ClearPool("entries", "pool") \/ AdvanceEpoch("pool", "no")

\* The epoch is advanced before the pool is emptied.
ClearScratch == AdvanceEpoch("entries", "epoch") \/ ClearPool("epoch", "no")

-----------------------------------------------------------------------------
(* TextScratch, ByteScratch. *)

\* acquire: the epoch is read, and some time later a retained buffer is taken,
\* which gives its reservation back.
Acquire(b) ==
  /\ scratch[b] = Unused
  /\ \E e \in 1..epoch : scratch' = [scratch EXCEPT ![b] = e]
  /\ IF pool = <<>> THEN UNCHANGED <<pool, reserved>>
     ELSE pool' = Front(pool) /\ reserved' = reserved - BufferBytes
  /\ UNCHANGED <<entries, lru, ledger, estimated, lock, epoch, clearing, inserts>>

\* drop: the buffer is retained if its epoch is current, the pool has room and
\* the budget has (reserve_buffer, under the ledger's mutex).
Drop(b) ==
  /\ scratch[b] # Unused /\ lock = "free"
  /\ scratch' = [scratch EXCEPT ![b] = Unused]
  /\ IF /\ scratch[b] = epoch
        /\ Len(pool) < PoolLimit
        /\ ledger.bytes + reserved + BufferBytes <= ByteLimit
       THEN pool' = Append(pool, scratch[b]) /\ reserved' = reserved + BufferBytes
       ELSE UNCHANGED <<pool, reserved>>
  /\ UNCHANGED <<entries, lru, ledger, estimated, lock, epoch, clearing, inserts>>

CacheNext ==
  \/ \E k \in CacheKeys : Hit(k) \/ \E p \in Products : Insert(k, p)
  \/ ChooseVictim \/ PopVictim \/ InsertDone
  \/ \E o \in {OwnerOf(k) : k \in CacheKeys} : RemoveOwner(o)
  \/ ClearEntries \/ ClearScratch
  \/ \E b \in Buffers : Acquire(b) \/ Drop(b)

CacheSpec == CacheInit /\ [][CacheNext]_cacheVars

-----------------------------------------------------------------------------
\* Whenever no insertion is evicting, products and retained buffers together
\* are within the budget, although buffers come and go without the ledger's
\* mutex and hits reorder the shards under the eviction; and the ledger that
\* says so is exact: each allocation has as many references as entries hold it,
\* its bytes count once however many products share it, and the usage reported
\* without the lock is that of the last change (Cache::insert, reserve_buffer).
BudgetRespected ==
  /\ lock = "free" => ledger.bytes + reserved <= ByteLimit /\ ledger.count <= EntryLimit
  /\ \A a \in Allocations :
       ledger.refs[a] = Cardinality({k \in DOMAIN entries : a \in entries[k].allocs})
  /\ ledger.bytes = Bytes(UNION {entries[k].allocs : k \in DOMAIN entries})
                    + FoldSet(LAMBDA k, sum : entries[k].overhead + sum, 0, DOMAIN entries)
  /\ ledger.count = Cardinality(DOMAIN entries)
  /\ lock = "free" => estimated = ledger.bytes

\* After memory pressure was handled, no buffer taken before it is still
\* retained, however late its thread returned it (query_scratch::clear).
PressureReleasesBuffers ==
  clearing = "no" => \A i \in DOMAIN pool : pool[i] = epoch

\* The inductive invariant behind it: only while the pool is being emptied can
\* it hold buffers of an earlier epoch.
PoolInv ==
  /\ pool \in Seq(Nat) /\ epoch \in Nat /\ scratch \in [Buffers -> Nat]
  /\ clearing # "epoch" => \A i \in DOMAIN pool : pool[i] = epoch
=============================================================================
