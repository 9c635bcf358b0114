------------------------------ MODULE LruCache ------------------------------
(***************************************************************************)
(* src/cache.rs: the in-memory asset cache of one configuration snapshot.  *)
(* `inner' (an lru::LruCache: a hash map and a recency list) and           *)
(* `current_memory_bytes' sit behind two locks.  Worker threads call get   *)
(* and insert at the same time, so a call is modelled step by step, from   *)
(* lock to lock and one eviction at a time.                                *)
(*                                                                         *)
(* A panic while both guards are held (the eviction loop logs to stdout,   *)
(* and println! panics when stdout is gone) poisons the locks; the code    *)
(* then treats every lookup as a miss and every insert as refused.         *)
(***************************************************************************)
EXTENDS Integers, Sequences, FiniteSets

CONSTANTS
    Tasks,                  \* callers that may be inside the cache at once
    Keys,
    Sizes,                  \* body lengths the callers offer
    max_capacity_bytes,
    max_file_size_bytes,
    default_ttl,
    MAX_ENTRIES,            \* capacity of the LruCache (10_000 in the code)
    StdoutMayFail,          \* can println! panic?
    MaxTime,                \* bound: the clock stops here
    MaxCalls,               \* bound: calls of get and insert
    NoTask

ASSUME SizesAssumption ==
    /\ Sizes \subseteq Nat
    /\ max_capacity_bytes \in Nat /\ max_file_size_bytes \in Nat /\ default_ttl \in Nat
    /\ MAX_ENTRIES \in Nat \ {0}
ASSUME KeysAssumption == Keys # {}
ASSUME TaskAssumption == NoTask \notin Tasks /\ StdoutMayFail \in BOOLEAN
ASSUME BoundAssumption == MaxTime \in Nat /\ MaxCalls \in Nat

VARIABLES
    now,
    entries,                \* key -> asset, the hash map of the LruCache
    lru,                    \* its keys, least recently used first
    current_memory_bytes,
    inner_owner,            \* who holds the write lock on `inner'
    mem_owner,              \* who holds the write lock on `current_memory_bytes'
    poisoned,
    pc, arg,                \* where each caller is, and with what
    outcome,                \* what its last call returned
    calls,
    leaked                  \* history: bytes of entries the LruCache dropped by itself

store == <<entries, lru, current_memory_bytes>>
locks == <<inner_owner, mem_owner, poisoned>>
vars  == <<now, store, locks, pc, arg, outcome, calls, leaked>>

PCs == {"idle", "get", "get_mem", "insert_inner", "insert_mem", "evicting"}
Outcomes == {"none", "hit", "miss", "inserted", "exceeds_max_file_size",
             "exceeds_max_capacity", "capacity_full_after_eviction", "lock_error", "panic"}
Asset == [size_bytes : Nat, created_at : Nat]
Arg   == [key : Keys, size_bytes : Nat, created_at : Nat]

-----------------------------------------------------------------------------
\* The LruCache: take a key out of the list, make it the most recent one.
Without(s, k) ==
    IF \E i \in 1..Len(s) : s[i] = k
    THEN LET i == CHOOSE i \in 1..Len(s) : s[i] = k
         IN  SubSeq(s, 1, i - 1) \o SubSeq(s, i + 1, Len(s))
    ELSE s
Touched(s, k) == Append(Without(s, k), k)
Removed(m, k) == [j \in DOMAIN m \ {k} |-> m[j]]
Stored(m, k, a) == [j \in DOMAIN m \cup {k} |-> IF j = k THEN a ELSE m[j]]

\* usize::saturating_sub
SatSub(a, b) == IF a >= b THEN a - b ELSE 0

\* CachedAsset::is_expired; insert is always called without a TTL of its own.
IsExpired(a) == now - a.created_at >= default_ttl

\* The locals of a caller that is not inside.
NoArg == [key |-> CHOOSE k \in Keys : TRUE, size_bytes |-> 0, created_at |-> 0]

Init ==
    /\ now = 0
    /\ entries = [k \in {} |-> 0]
    /\ lru = <<>>
    /\ current_memory_bytes = 0
    /\ inner_owner = NoTask
    /\ mem_owner = NoTask
    /\ poisoned = FALSE
    /\ pc = [t \in Tasks |-> "idle"]
    /\ arg = [t \in Tasks |-> NoArg]
    /\ outcome = [t \in Tasks |-> "none"]
    /\ calls = 0
    /\ leaked = 0

Tick ==
    /\ now < MaxTime
    /\ now' = now + 1
    /\ UNCHANGED <<store, locks, pc, arg, outcome, calls, leaked>>

Return(t, r) ==
    /\ pc' = [pc EXCEPT ![t] = "idle"]
    /\ outcome' = [outcome EXCEPT ![t] = r]
    /\ arg' = [arg EXCEPT ![t] = NoArg]

Goto(t, l) ==
    /\ pc' = [pc EXCEPT ![t] = l]
    /\ outcome' = [outcome EXCEPT ![t] = "none"]

-----------------------------------------------------------------------------
(* get                                                                     *)

CallGet(t, k) ==
    /\ pc[t] = "idle" /\ calls < MaxCalls
    /\ calls' = calls + 1
    /\ arg' = [arg EXCEPT ![t].key = k]
    /\ Goto(t, "get")
    /\ UNCHANGED <<now, store, locks, leaked>>

\* inner.write().ok()? on a poisoned lock, or no such key.
GetMiss(t) ==
    /\ pc[t] = "get" /\ inner_owner = NoTask
    /\ poisoned \/ arg[t].key \notin DOMAIN entries
    /\ Return(t, "miss")
    /\ UNCHANGED <<now, store, locks, calls, leaked>>

\* get_mut promotes the entry.
GetHit(t) ==
    /\ pc[t] = "get" /\ inner_owner = NoTask
    /\ ~poisoned /\ arg[t].key \in DOMAIN entries
    /\ ~IsExpired(entries[arg[t].key])
    /\ lru' = Touched(lru, arg[t].key)
    /\ Return(t, "hit")
    /\ UNCHANGED <<now, entries, current_memory_bytes, locks, calls, leaked>>

\* Mutant: the first lock is let go before the second is waited for.
GetExpiredUnlocks(t) ==
    /\ pc[t] = "get" /\ inner_owner = NoTask
    /\ ~poisoned /\ arg[t].key \in DOMAIN entries
    /\ IsExpired(entries[arg[t].key])
    /\ arg' = [arg EXCEPT ![t].size_bytes = entries[arg[t].key].size_bytes]
    /\ entries' = Removed(entries, arg[t].key)
    /\ lru' = Without(lru, arg[t].key)
    /\ Goto(t, "get_mem")
    /\ UNCHANGED <<now, current_memory_bytes, locks, calls, leaked>>

\* An expired entry is popped; its bytes are given back under the second lock.
GetExpired(t) ==
    /\ pc[t] = "get" /\ inner_owner = NoTask
    /\ ~poisoned /\ arg[t].key \in DOMAIN entries
    /\ IsExpired(entries[arg[t].key])
    /\ inner_owner' = t
    /\ arg' = [arg EXCEPT ![t].size_bytes = entries[arg[t].key].size_bytes]
    /\ entries' = Removed(entries, arg[t].key)
    /\ lru' = Without(lru, arg[t].key)
    /\ Goto(t, "get_mem")
    /\ UNCHANGED <<now, current_memory_bytes, mem_owner, poisoned, calls, leaked>>

\* Mutant: the bytes of the popped entry are not given back.
GetReleaseForgets(t) ==
    /\ pc[t] = "get_mem" /\ mem_owner = NoTask
    /\ inner_owner' = NoTask
    /\ Return(t, "miss")
    /\ UNCHANGED <<now, store, mem_owner, poisoned, calls, leaked>>

GetRelease(t) ==
    /\ pc[t] = "get_mem" /\ mem_owner = NoTask
    /\ current_memory_bytes' = SatSub(current_memory_bytes, arg[t].size_bytes)
    /\ inner_owner' = NoTask
    /\ Return(t, "miss")
    /\ UNCHANGED <<now, entries, lru, mem_owner, poisoned, calls, leaked>>

-----------------------------------------------------------------------------
(* insert                                                                  *)

\* Mutant: the second reason is misspelt.
RefusalMisnamed(size) ==
    IF size > max_file_size_bytes THEN "exceeds_max_file_size"
    ELSE IF size > max_capacity_bytes THEN "exceeds_capacity" ELSE "none"

\* Why an asset is refused before any lock is taken.
Refusal(size) ==
    IF size > max_file_size_bytes THEN "exceeds_max_file_size"
    ELSE IF size > max_capacity_bytes THEN "exceeds_max_capacity" ELSE "none"

\* The creation time is taken before the locks.
CallInsert(t, k, size) ==
    /\ pc[t] = "idle" /\ calls < MaxCalls
    /\ calls' = calls + 1
    /\ IF Refusal(size) # "none"
       THEN Return(t, Refusal(size))
       ELSE /\ arg' = [arg EXCEPT ![t] = [key |-> k, size_bytes |-> size, created_at |-> now]]
            /\ Goto(t, "insert_inner")
    /\ UNCHANGED <<now, store, locks, leaked>>

InsertLockError(t) ==
    /\ pc[t] = "insert_inner" /\ inner_owner = NoTask /\ poisoned
    /\ Return(t, "lock_error")
    /\ UNCHANGED <<now, store, locks, calls, leaked>>

InsertLockInner(t) ==
    /\ pc[t] = "insert_inner" /\ inner_owner = NoTask /\ ~poisoned
    /\ inner_owner' = t
    /\ Goto(t, "insert_mem")
    /\ UNCHANGED <<now, store, mem_owner, poisoned, arg, calls, leaked>>

InsertLockMem(t) ==
    /\ pc[t] = "insert_mem" /\ mem_owner = NoTask
    /\ mem_owner' = t
    /\ Goto(t, "evicting")
    /\ UNCHANGED <<now, store, inner_owner, poisoned, arg, calls, leaked>>

Unlock == inner_owner' = NoTask /\ mem_owner' = NoTask

\* Mutant: the loop looks only at what is already stored.
TooFullAlready(t) == current_memory_bytes > max_capacity_bytes

\* The condition of the eviction loop without its emptiness test.
TooFull(t) == current_memory_bytes + arg[t].size_bytes > max_capacity_bytes

\* pop_lru and the bookkeeping of one iteration.
PopLru(k) ==
    /\ lru # <<>> /\ k = Head(lru)
    /\ entries' = Removed(entries, k)
    /\ lru' = Tail(lru)
    /\ current_memory_bytes' = SatSub(current_memory_bytes, entries[k].size_bytes)

Evict(t) ==
    /\ pc[t] = "evicting" /\ TooFull(t)
    /\ \E k \in DOMAIN entries : PopLru(k)
    /\ UNCHANGED <<now, locks, pc, arg, outcome, calls, leaked>>

\* The same iteration when its log line cannot be written.
EvictPanics(t) ==
    /\ StdoutMayFail
    /\ pc[t] = "evicting" /\ TooFull(t)
    /\ \E k \in DOMAIN entries : PopLru(k)
    /\ poisoned' = TRUE
    /\ Unlock
    /\ Return(t, "panic")
    /\ UNCHANGED <<now, calls, leaked>>

\* Mutant: the loop has no emptiness test.
FullSpins(t) ==
    /\ pc[t] = "evicting" /\ TooFull(t) /\ DOMAIN entries = {}
    /\ UNCHANGED vars

Full(t) ==
    /\ pc[t] = "evicting" /\ TooFull(t) /\ DOMAIN entries = {}
    /\ Unlock
    /\ Return(t, "capacity_full_after_eviction")
    /\ UNCHANGED <<now, store, poisoned, calls, leaked>>

NewAsset(t) == [size_bytes |-> arg[t].size_bytes, created_at |-> arg[t].created_at]

\* Mutant: the bytes of the replaced asset stay counted.
ReplaceKeepingOld(t) ==
    LET k == arg[t].key IN
    /\ k \in DOMAIN entries
    /\ entries' = Stored(entries, k, NewAsset(t))
    /\ lru' = Touched(lru, k)
    /\ current_memory_bytes' = current_memory_bytes + arg[t].size_bytes
    /\ UNCHANGED leaked

\* put returns the old asset of the key, whose bytes are given back.
Replace(t) ==
    LET k == arg[t].key IN
    /\ k \in DOMAIN entries
    /\ entries' = Stored(entries, k, NewAsset(t))
    /\ lru' = Touched(lru, k)
    /\ current_memory_bytes' =
         SatSub(current_memory_bytes, entries[k].size_bytes) + arg[t].size_bytes
    /\ UNCHANGED leaked

\* put of a new key into an LruCache with room.
AddNew(t) ==
    LET k == arg[t].key IN
    /\ k \notin DOMAIN entries /\ Cardinality(DOMAIN entries) < MAX_ENTRIES
    /\ entries' = Stored(entries, k, NewAsset(t))
    /\ lru' = Touched(lru, k)
    /\ current_memory_bytes' = current_memory_bytes + arg[t].size_bytes
    /\ UNCHANGED leaked

\* put of a new key into an LruCache at its entry limit drops the least
\* recently used entry and returns nothing: its bytes stay counted.
AddDropping(t) ==
    LET k == arg[t].key IN
    /\ k \notin DOMAIN entries /\ Cardinality(DOMAIN entries) >= MAX_ENTRIES
    /\ \E old \in DOMAIN entries :
        /\ lru # <<>> /\ old = Head(lru)
        /\ entries' = Stored(Removed(entries, old), k, NewAsset(t))
        /\ lru' = Touched(Tail(lru), k)
        /\ leaked' = leaked + entries[old].size_bytes
    /\ current_memory_bytes' = current_memory_bytes + arg[t].size_bytes

InsertPut(t) ==
    /\ pc[t] = "evicting" /\ ~TooFull(t)
    /\ Replace(t) \/ AddNew(t) \/ AddDropping(t)
    /\ Unlock
    /\ Return(t, "inserted")
    /\ UNCHANGED <<now, poisoned, calls>>

-----------------------------------------------------------------------------
Step(t) ==
    \/ GetMiss(t) \/ GetHit(t) \/ GetExpired(t) \/ GetRelease(t)
    \/ InsertLockError(t) \/ InsertLockInner(t) \/ InsertLockMem(t)
    \/ Evict(t) \/ EvictPanics(t) \/ Full(t) \/ InsertPut(t)

Next ==
    \/ Tick
    \/ \E t \in Tasks :
        \/ \E k \in Keys : CallGet(t, k)
        \/ \E k \in Keys, size \in Sizes : CallInsert(t, k, size)
        \/ Step(t)

Spec == Init /\ [][Next]_vars

\* Every thread that can run does: what the OS scheduler gives a worker.
FairSpec == Spec /\ \A t \in Tasks : WF_vars(Step(t))

-----------------------------------------------------------------------------
(* Properties.                                                             *)

IsStore(m) == m \in [DOMAIN m -> Asset] /\ DOMAIN m \subseteq Keys /\ IsFiniteSet(DOMAIN m)

\* The types of the store, the locks and the callers.
TypeOK ==
    /\ now \in 0..MaxTime
    /\ IsStore(entries)
    /\ lru \in Seq(Keys)
    /\ current_memory_bytes \in Nat
    /\ inner_owner \in Tasks \cup {NoTask}
    /\ mem_owner \in Tasks \cup {NoTask}
    /\ poisoned \in BOOLEAN
    /\ pc \in [Tasks -> PCs]
    /\ arg \in [Tasks -> Arg]
    /\ outcome \in [Tasks -> Outcomes]
    /\ calls \in 0..MaxCalls
    /\ leaked \in Nat

\* The bytes a store holds, each as a pair of its key and its position.
Bytes(m) == {b \in (DOMAIN m) \X (1..max_capacity_bytes) : b[2] <= m[b[1]].size_bytes}

\* Bytes popped as expired that are not given back yet.
Pending ==
    IF inner_owner \in Tasks /\ pc[inner_owner] = "get_mem"
    THEN arg[inner_owner].size_bytes ELSE 0

\* The cached bodies never outgrow max_capacity_bytes, and the counter stays
\* between what is held and the budget: it can err only to the safe side,
\* whatever get, insert, replacement, eviction and panic do to each other.
BudgetRespected ==
    /\ Cardinality(Bytes(entries)) + Pending <= current_memory_bytes
    /\ current_memory_bytes <= max_capacity_bytes

\* The counter differs from the bytes held by exactly what the LruCache dropped
\* at its entry limit: no other path loses or double counts a byte, and no
\* saturating subtraction ever saturates.
DriftIsEntryLimit ==
    current_memory_bytes = Cardinality(Bytes(entries)) + Pending + leaked

\* An asset that passed the size checks is refused as capacity_full only if the
\* counter has drifted.
FullOnlyAfterDrift ==
    \A t \in Tasks : outcome[t] = "capacity_full_after_eviction" => leaked > 0

\* docs/cache.md: "the cache tracks exact byte usage (current_memory_bytes)".
ByteAccurate ==
    inner_owner = NoTask => current_memory_bytes = Cardinality(Bytes(entries))

\* What a caller is waiting for, as the abstract store sees it.
Request(t) ==
    CASE pc[t] = "idle" -> [kind |-> "none"]
      [] pc[t] \in {"get", "get_mem"} -> [kind |-> "lookup", key |-> arg[t].key]
      [] OTHER -> [kind |-> "offer", key |-> arg[t].key, asset |-> NewAsset(t)]

AS == INSTANCE AssetStore WITH
        held <- entries, down <- poisoned,
        request <- [t \in Tasks |-> Request(t)], answer <- outcome

\* The interleaved, two-lock implementation cannot be told from AssetStore: each
\* call takes effect at one instant.  A hit is fresh and still held when it is
\* given, a miss is one at the moment it is answered (also after the second lock
\* has been waited for), entries go only for room or age, and a store in which a
\* caller panicked keeps what it holds and never answers from it again.
ImplementsStore == AS!Spec

\* Nobody waits for ever inside the cache: the two locks are always taken in
\* the same order and the eviction loop ends.
CallsReturn ==
    \A t \in Tasks : pc[t] # "idle" ~> pc[t] = "idle"
=============================================================================
