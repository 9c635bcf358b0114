--------------------------- MODULE LruCacheProofs ---------------------------
(***************************************************************************)
(* Proofs about LruCache, for any capacity, entry limit, sizes and number  *)
(* of callers.  The byte counter is compared with the cardinality of the   *)
(* set of bytes held; the locks make the caller that is changing the store *)
(* the only one inside.                                                    *)
(***************************************************************************)
EXTENDS LruCache, FiniteSetTheorems, TLAPS

Inside == {"get_mem", "insert_mem", "evicting"}

\* Who is between two steps of a critical section holds the locks.
LockInv ==
    /\ \A t \in Tasks : pc[t] \in Inside <=> inner_owner = t
    /\ \A t \in Tasks : pc[t] = "evicting" <=> mem_owner = t

\* No asset, stored or on its way, is larger than the whole budget.
SizeInv ==
    /\ \A k \in DOMAIN entries : entries[k].size_bytes <= max_capacity_bytes
    /\ \A t \in Tasks : pc[t] \in {"insert_inner", "insert_mem", "evicting"} =>
            arg[t].size_bytes <= max_capacity_bytes

CountInv ==
    /\ DriftIsEntryLimit
    /\ current_memory_bytes <= max_capacity_bytes
    /\ FullOnlyAfterDrift

IndInv == TypeOK /\ LockInv /\ SizeInv /\ CountInv

-----------------------------------------------------------------------------
(* Lemmas about the bytes of a store.                                      *)

Fits(m) == \A k \in DOMAIN m : m[k].size_bytes <= max_capacity_bytes

LEMMA BytesFinite ==
    ASSUME NEW m, IsStore(m)
    PROVE  IsFiniteSet(Bytes(m)) /\ Cardinality(Bytes(m)) \in Nat
<1>1. IsFiniteSet(1..max_capacity_bytes)
    BY FS_Interval, SizesAssumption
<1>2. IsFiniteSet((DOMAIN m) \X (1..max_capacity_bytes))
    BY <1>1, FS_Product, Zenon DEF IsStore
<1>3. Bytes(m) \subseteq (DOMAIN m) \X (1..max_capacity_bytes)
    BY DEF Bytes
<1> QED BY <1>2, <1>3, FS_Subset, FS_CardinalityType

LEMMA ColumnSize ==
    ASSUME NEW k, NEW n \in Nat
    PROVE  IsFiniteSet({k} \X (1..n)) /\ Cardinality({k} \X (1..n)) = n
<1>1. IsFiniteSet(1..n) /\ Cardinality(1..n) = n
    BY FS_Interval
<1>2. IsFiniteSet({k}) /\ Cardinality({k}) = 1
    BY FS_Singleton
<1>3. /\ IsFiniteSet({k} \X (1..n))
      /\ Cardinality({k} \X (1..n)) = Cardinality({k}) * Cardinality(1..n)
    BY <1>1, <1>2, FS_Product, Zenon
<1> QED BY <1>1, <1>2, <1>3

\* Storing under a new key adds exactly the bytes of the asset.
LEMMA BytesAdded ==
    ASSUME NEW m, IsStore(m), NEW k \in Keys, k \notin DOMAIN m,
           NEW a \in Asset, a.size_bytes <= max_capacity_bytes
    PROVE  /\ IsStore(Stored(m, k, a))
           /\ Cardinality(Bytes(Stored(m, k, a))) = Cardinality(Bytes(m)) + a.size_bytes
<1> DEFINE C == {k} \X (1..a.size_bytes)
<1>1. IsStore(Stored(m, k, a))
    BY FS_AddElement DEF IsStore, Stored
<1>2. Bytes(Stored(m, k, a)) = Bytes(m) \cup C
    BY SizesAssumption DEF Bytes, Stored, Asset, IsStore
<1>3. Bytes(m) \cap C = {}
    BY DEF Bytes
<1>4. IsFiniteSet(C) /\ Cardinality(C) = a.size_bytes
    BY ColumnSize, Zenon DEF Asset
<1>5. IsFiniteSet(Bytes(m)) /\ Cardinality(Bytes(m)) \in Nat
    BY BytesFinite
<1> HIDE DEF C
<1>6. Cardinality(Bytes(m) \cup C) = Cardinality(Bytes(m)) + Cardinality(C) - Cardinality(Bytes(m) \cap C)
    BY <1>4, <1>5, FS_Union
<1>7. Cardinality(Bytes(m) \cap C) = 0
    BY <1>3, FS_EmptySet
<1> QED BY <1>1, <1>2, <1>4, <1>5, <1>6, <1>7 DEF Asset

\* Removing a key takes exactly the bytes of its asset.
LEMMA BytesRemoved ==
    ASSUME NEW m, IsStore(m), Fits(m), NEW k \in DOMAIN m
    PROVE  /\ IsStore(Removed(m, k))
           /\ Fits(Removed(m, k))
           /\ Cardinality(Bytes(Removed(m, k))) + m[k].size_bytes = Cardinality(Bytes(m))
<1> DEFINE r == Removed(m, k)
<1>1. IsStore(r) /\ k \notin DOMAIN r /\ Fits(r)
    <2>1. IsFiniteSet(DOMAIN m \ {k})
        BY FS_Subset DEF IsStore
    <2> QED BY <2>1 DEF IsStore, Removed, Fits
<1>2. Stored(r, k, m[k]) = m
    BY DEF Stored, Removed, IsStore
<1>3. m[k] \in Asset /\ k \in Keys /\ m[k].size_bytes <= max_capacity_bytes
    BY DEF IsStore, Fits
<1> HIDE DEF r
<1>4. Cardinality(Bytes(Stored(r, k, m[k]))) = Cardinality(Bytes(r)) + m[k].size_bytes
    BY <1>1, <1>3, BytesAdded
<1> QED BY <1>1, <1>2, <1>4 DEF r

\* Replacing an asset: take the old bytes, add the new ones.
LEMMA BytesReplaced ==
    ASSUME NEW m, IsStore(m), Fits(m), NEW k \in DOMAIN m,
           NEW a \in Asset, a.size_bytes <= max_capacity_bytes
    PROVE  /\ IsStore(Stored(m, k, a))
           /\ Cardinality(Bytes(Stored(m, k, a))) + m[k].size_bytes
                = Cardinality(Bytes(m)) + a.size_bytes
<1> DEFINE r == Removed(m, k)
<1>1. Stored(m, k, a) = Stored(r, k, a) /\ k \notin DOMAIN r /\ k \in Keys
    BY DEF Stored, Removed, IsStore
<1>2. IsStore(r) /\ Cardinality(Bytes(r)) + m[k].size_bytes = Cardinality(Bytes(m))
    BY BytesRemoved
<1> HIDE DEF r
<1>3. IsStore(Stored(r, k, a)) /\ Cardinality(Bytes(Stored(r, k, a))) = Cardinality(Bytes(r)) + a.size_bytes
    BY <1>1, <1>2, BytesAdded
<1>4. Cardinality(Bytes(r)) \in Nat /\ m[k].size_bytes \in Nat /\ a.size_bytes \in Nat
    BY <1>2, BytesFinite DEF IsStore, Asset
<1> QED BY <1>1, <1>2, <1>3, <1>4

LEMMA EmptyStoreHasNoBytes ==
    ASSUME NEW m, DOMAIN m = {}
    PROVE  Cardinality(Bytes(m)) = 0
<1>1. Bytes(m) = {}
    BY DEF Bytes
<1> QED BY <1>1, FS_EmptySet

-----------------------------------------------------------------------------
(* Type correctness.                                                       *)

LEMMA SatSubType == \A a \in Nat, b \in Nat : SatSub(a, b) \in Nat
BY DEF SatSub

LEMMA NoArgType == NoArg \in Arg
BY KeysAssumption DEF NoArg, Arg

LEMMA InitType == Init => TypeOK
<1> SUFFICES ASSUME Init PROVE TypeOK
    OBVIOUS
<1>1. IsStore(entries)
    <2>1. DOMAIN entries = {} /\ entries \in [DOMAIN entries -> Asset]
        BY DEF Init
    <2> QED BY <2>1, FS_EmptySet DEF IsStore
<1>2. arg \in [Tasks -> Arg]
    BY NoArgType DEF Init
<1>3. now \in 0..MaxTime /\ calls \in 0..MaxCalls /\ current_memory_bytes \in Nat /\ leaked \in Nat /\ lru \in Seq(Keys)
    BY BoundAssumption DEF Init
<1>4. pc \in [Tasks -> PCs] /\ outcome \in [Tasks -> Outcomes]
    BY DEF Init, PCs, Outcomes
<1>5. poisoned \in BOOLEAN /\ inner_owner \in Tasks \cup {NoTask} /\ mem_owner \in Tasks \cup {NoTask}
    BY Zenon DEF Init
<1> QED BY <1>1, <1>2, <1>3, <1>4, <1>5 DEF TypeOK

\* Taking an entry out and storing one keep the store well formed.
LEMMA RemovedIsStore ==
    ASSUME NEW m, IsStore(m), NEW k
    PROVE  IsStore(Removed(m, k))
<1>1. IsFiniteSet(DOMAIN m \ {k})
    BY FS_Subset DEF IsStore
<1> QED BY <1>1 DEF IsStore, Removed

LEMMA StoredIsStore ==
    ASSUME NEW m, IsStore(m), NEW k \in Keys, NEW a \in Asset
    PROVE  IsStore(Stored(m, k, a))
<1>1. IsFiniteSet(DOMAIN m \cup {k})
    BY FS_AddElement DEF IsStore
<1> QED BY <1>1 DEF IsStore, Stored

LEMMA AssetTypes ==
    ASSUME TypeOK
    PROVE  /\ \A k \in DOMAIN entries : entries[k].size_bytes \in Nat
           /\ \A t \in Tasks : arg[t].size_bytes \in Nat /\ arg[t].key \in Keys /\ NewAsset(t) \in Asset
BY DEF TypeOK, IsStore, Asset, Arg, NewAsset

\* Reordering the recency list keeps it a list of keys.
LEMMA ListTypes ==
    ASSUME NEW s \in Seq(Keys), NEW k \in Keys
    PROVE  /\ Without(s, k) \in Seq(Keys) /\ Touched(s, k) \in Seq(Keys)
           /\ s # <<>> => Tail(s) \in Seq(Keys)
<1>1. ASSUME NEW i \in 1..Len(s)
      PROVE  SubSeq(s, 1, i - 1) \o SubSeq(s, i + 1, Len(s)) \in Seq(Keys)
    <2>1. SubSeq(s, 1, i - 1) \in Seq(Keys) /\ SubSeq(s, i + 1, Len(s)) \in Seq(Keys)
        OBVIOUS
    <2> QED BY <2>1
<1>2. Without(s, k) \in Seq(Keys)
    BY <1>1 DEF Without
<1>3. Touched(s, k) \in Seq(Keys)
    BY <1>2 DEF Touched
<1> QED BY <1>2, <1>3

\* The part of the types that is about the callers.
CallersOK == pc \in [Tasks -> PCs] /\ arg \in [Tasks -> Arg] /\ outcome \in [Tasks -> Outcomes]

LEMMA ReturnType ==
    ASSUME TypeOK, NEW t \in Tasks, NEW r \in Outcomes, Return(t, r)
    PROVE  CallersOK'
<1>1. "idle" \in PCs
    BY DEF PCs
<1> QED BY <1>1, NoArgType DEF TypeOK, CallersOK, Return

LEMMA GotoType ==
    ASSUME TypeOK, NEW t \in Tasks, NEW l \in PCs, Goto(t, l), arg' \in [Tasks -> Arg]
    PROVE  CallersOK'
<1>1. "none" \in Outcomes
    BY DEF Outcomes
<1> QED BY <1>1 DEF TypeOK, CallersOK, Goto

LEMMA RefusalType == \A size \in Nat : Refusal(size) \in Outcomes
BY SizesAssumption DEF Refusal, Outcomes

LEMMA NextType == TypeOK /\ [Next]_vars => TypeOK'
<1> SUFFICES ASSUME TypeOK, [Next]_vars PROVE TypeOK'
    OBVIOUS
<1> USE BoundAssumption, SizesAssumption
<1>c. /\ {"hit", "miss", "inserted", "capacity_full_after_eviction", "lock_error", "panic"} \subseteq Outcomes
      /\ {"get", "get_mem", "insert_inner", "insert_mem", "evicting"} \subseteq PCs
    BY DEF Outcomes, PCs
<1>a. /\ \A k \in DOMAIN entries : entries[k].size_bytes \in Nat
      /\ \A t \in Tasks : arg[t].size_bytes \in Nat /\ arg[t].key \in Keys /\ NewAsset(t) \in Asset
    BY AssetTypes
<1>p. ASSUME NEW k \in DOMAIN entries, PopLru(k)
      PROVE  IsStore(entries') /\ current_memory_bytes' \in Nat /\ lru' \in Seq(Keys)
    <2>1. IsStore(entries') /\ current_memory_bytes' \in Nat
        BY <1>p, <1>a, SatSubType, RemovedIsStore, Zenon DEF PopLru, TypeOK
    <2>2. lru' \in Seq(Keys)
        BY <1>p, ListTypes DEF PopLru, TypeOK
    <2> QED BY <2>1, <2>2
<1>1. CASE Tick
    BY <1>1 DEF Tick, TypeOK, store, locks
<1>2. ASSUME NEW t \in Tasks, NEW k \in Keys, CallGet(t, k) PROVE TypeOK'
    <2>1. arg' \in [Tasks -> Arg]
        BY <1>2, Zenon DEF CallGet, TypeOK, Arg
    <2>2. CallersOK'
        BY <1>2, <1>c, <2>1, GotoType DEF CallGet
    <2> QED BY <1>2, <2>2 DEF CallGet, TypeOK, CallersOK, store, locks
<1>3. ASSUME NEW t \in Tasks, NEW k \in Keys, NEW size \in Sizes, CallInsert(t, k, size) PROVE TypeOK'
    <2>1. CASE Refusal(size) # "none"
        <3>1. CallersOK'
            BY <1>3, <2>1, RefusalType, ReturnType DEF CallInsert
        <3> QED BY <1>3, <3>1 DEF CallInsert, TypeOK, CallersOK, store, locks
    <2>2. CASE Refusal(size) = "none"
        <3>1. [key |-> k, size_bytes |-> size, created_at |-> now] \in Arg
            BY DEF TypeOK, Arg
        <3>2. arg' \in [Tasks -> Arg]
            BY <1>3, <2>2, <3>1 DEF CallInsert, TypeOK
        <3>3. CallersOK'
            BY <1>3, <1>c, <2>2, <3>2, GotoType DEF CallInsert
        <3> QED BY <1>3, <3>3 DEF CallInsert, TypeOK, CallersOK, store, locks
    <2> QED BY <2>1, <2>2
<1>4. ASSUME NEW t \in Tasks, GetMiss(t) PROVE TypeOK'
    <2>1. CallersOK'
        BY <1>4, <1>c, ReturnType DEF GetMiss
    <2> QED BY <1>4, <2>1 DEF GetMiss, TypeOK, CallersOK, store, locks
<1>5. ASSUME NEW t \in Tasks, GetHit(t) PROVE TypeOK'
    <2>1. lru' \in Seq(Keys)
        BY <1>5, <1>a, ListTypes DEF GetHit, TypeOK
    <2>2. CallersOK'
        BY <1>5, <1>c, ReturnType DEF GetHit
    <2> QED BY <1>5, <2>1, <2>2 DEF GetHit, TypeOK, CallersOK, locks
<1>6. ASSUME NEW t \in Tasks, GetExpired(t) PROVE TypeOK'
    <2>1. IsStore(entries')
        BY <1>6, RemovedIsStore DEF GetExpired, TypeOK
    <2>2. arg' \in [Tasks -> Arg]
        BY <1>6, <1>a, Zenon DEF GetExpired, TypeOK, Arg
    <2>3. lru' \in Seq(Keys)
        BY <1>6, <1>a, ListTypes DEF GetExpired, TypeOK
    <2>4. CallersOK'
        BY <1>6, <1>c, <2>2, GotoType DEF GetExpired
    <2> QED BY <1>6, <2>1, <2>3, <2>4 DEF GetExpired, TypeOK, CallersOK
<1>7. ASSUME NEW t \in Tasks, GetRelease(t) PROVE TypeOK'
    <2>1. current_memory_bytes' \in Nat
        BY <1>7, <1>a, SatSubType, Zenon DEF GetRelease, TypeOK
    <2>2. CallersOK'
        BY <1>7, <1>c, ReturnType DEF GetRelease
    <2> QED BY <1>7, <2>1, <2>2 DEF GetRelease, TypeOK, CallersOK
<1>8. ASSUME NEW t \in Tasks, InsertLockError(t) \/ InsertLockInner(t) \/ InsertLockMem(t) PROVE TypeOK'
    <2>1. CASE InsertLockError(t)
        <3>1. CallersOK'
            BY <2>1, <1>c, ReturnType DEF InsertLockError
        <3> QED BY <2>1, <3>1 DEF InsertLockError, TypeOK, CallersOK, store, locks
    <2>2. CASE InsertLockInner(t)
        <3>1. CallersOK'
            BY <2>2, <1>c, GotoType DEF InsertLockInner, TypeOK
        <3> QED BY <2>2, <3>1 DEF InsertLockInner, TypeOK, CallersOK, store
    <2>3. CASE InsertLockMem(t)
        <3>1. CallersOK'
            BY <2>3, <1>c, GotoType DEF InsertLockMem, TypeOK
        <3> QED BY <2>3, <3>1 DEF InsertLockMem, TypeOK, CallersOK, store
    <2> QED BY <1>8, <2>1, <2>2, <2>3
<1>9. ASSUME NEW t \in Tasks, Evict(t) PROVE TypeOK'
    <2>1. IsStore(entries') /\ current_memory_bytes' \in Nat /\ lru' \in Seq(Keys)
        BY <1>9, <1>p DEF Evict
    <2> QED BY <1>9, <2>1 DEF Evict, TypeOK, locks
<1>10. ASSUME NEW t \in Tasks, EvictPanics(t) PROVE TypeOK'
    <2>1. IsStore(entries') /\ current_memory_bytes' \in Nat /\ lru' \in Seq(Keys)
        BY <1>10, <1>p DEF EvictPanics
    <2>2. CallersOK'
        BY <1>10, <1>c, ReturnType DEF EvictPanics
    <2> QED BY <1>10, <2>1, <2>2 DEF EvictPanics, TypeOK, CallersOK, Unlock
<1>11. ASSUME NEW t \in Tasks, Full(t) PROVE TypeOK'
    <2>1. CallersOK'
        BY <1>11, <1>c, ReturnType DEF Full
    <2> QED BY <1>11, <2>1 DEF Full, TypeOK, CallersOK, store, Unlock
<1>12. ASSUME NEW t \in Tasks, InsertPut(t) PROVE TypeOK'
    <2>1. IsStore(entries') /\ current_memory_bytes' \in Nat /\ leaked' \in Nat
        <3>1. CASE Replace(t)
            <4>1. IsStore(entries')
                BY <3>1, <1>a, StoredIsStore DEF Replace, TypeOK
            <4>2. current_memory_bytes' \in Nat
                <5>1. SatSub(current_memory_bytes, entries[arg[t].key].size_bytes) \in Nat
                    BY <3>1, <1>a, SatSubType, Zenon DEF Replace, TypeOK
                <5> QED BY <3>1, <5>1, <1>a DEF Replace
            <4> QED BY <3>1, <4>1, <4>2 DEF Replace, TypeOK
        <3>2. CASE AddNew(t)
            BY <3>2, <1>a, StoredIsStore DEF AddNew, TypeOK
        <3>3. CASE AddDropping(t)
            <4>1. PICK old \in DOMAIN entries :
                    /\ entries' = Stored(Removed(entries, old), arg[t].key, NewAsset(t))
                    /\ leaked' = leaked + entries[old].size_bytes
                BY <3>3 DEF AddDropping
            <4>2. IsStore(Removed(entries, old))
                BY RemovedIsStore DEF TypeOK
            <4>3. IsStore(entries')
                BY <4>1, <4>2, <1>a, StoredIsStore
            <4>4. current_memory_bytes' \in Nat
                BY <3>3, <1>a DEF AddDropping, TypeOK
            <4> QED BY <4>1, <4>3, <4>4, <1>a DEF TypeOK
        <3> QED BY <1>12, <3>1, <3>2, <3>3 DEF InsertPut
    <2>2. lru' \in Seq(Keys)
        <3>1. CASE Replace(t) \/ AddNew(t)
            BY <3>1, <1>a, ListTypes DEF Replace, AddNew, TypeOK
        <3>2. CASE AddDropping(t)
            <4>1. Tail(lru) \in Seq(Keys) /\ lru' = Touched(Tail(lru), arg[t].key)
                BY <3>2 DEF AddDropping, TypeOK
            <4> QED BY <4>1, <1>a, ListTypes, Zenon
        <3> QED BY <1>12, <3>1, <3>2 DEF InsertPut
    <2>3. CallersOK'
        BY <1>12, <1>c, ReturnType DEF InsertPut
    <2> QED BY <1>12, <2>1, <2>2, <2>3 DEF InsertPut, TypeOK, CallersOK, Unlock
<1>13. CASE UNCHANGED vars
    BY <1>13 DEF vars, store, locks, TypeOK
<1> QED BY <1>1, <1>2, <1>3, <1>4, <1>5, <1>6, <1>7, <1>8, <1>9, <1>10, <1>11, <1>12, <1>13
        DEF Next, Step

\* The cache keeps its types under every interleaving of its callers.
THEOREM TypeCorrectness == Spec => []TypeOK
BY InitType, NextType, PTL DEF Spec

-----------------------------------------------------------------------------
(* Locks and sizes.                                                        *)

LEMMA InitLock == Init => LockInv
BY TaskAssumption DEF Init, LockInv, Inside

LEMMA NextLock == TypeOK /\ LockInv /\ [Next]_vars => LockInv'
<1> SUFFICES ASSUME TypeOK, LockInv, [Next]_vars PROVE LockInv'
    OBVIOUS
<1> USE TaskAssumption DEF LockInv, Inside, TypeOK, Goto, Return
<1>1. CASE Tick \/ UNCHANGED vars
    BY <1>1 DEF Tick, vars, locks
<1>2. ASSUME NEW t \in Tasks, NEW k \in Keys, CallGet(t, k) PROVE LockInv'
    BY <1>2 DEF CallGet, locks
<1>3. ASSUME NEW t \in Tasks, NEW k \in Keys, NEW size \in Sizes, CallInsert(t, k, size) PROVE LockInv'
    BY <1>3 DEF CallInsert, locks
<1>4. ASSUME NEW t \in Tasks, GetMiss(t) \/ GetHit(t) \/ GetExpired(t) \/ GetRelease(t) PROVE LockInv'
    BY <1>4 DEF GetMiss, GetHit, GetExpired, GetRelease, locks
<1>5. ASSUME NEW t \in Tasks, InsertLockError(t) \/ InsertLockInner(t) \/ InsertLockMem(t) PROVE LockInv'
    BY <1>5 DEF InsertLockError, InsertLockInner, InsertLockMem, locks
<1>6. ASSUME NEW t \in Tasks, Evict(t) \/ EvictPanics(t) \/ Full(t) \/ InsertPut(t) PROVE LockInv'
    BY <1>6 DEF Evict, EvictPanics, Full, InsertPut, Unlock, locks
<1> QED BY <1>1, <1>2, <1>3, <1>4, <1>5, <1>6 DEF Next, Step

LEMMA InitSize == Init => SizeInv
BY DEF Init, SizeInv

LEMMA NextSize == TypeOK /\ SizeInv /\ [Next]_vars => SizeInv'
<1> SUFFICES ASSUME TypeOK, SizeInv, [Next]_vars PROVE SizeInv'
    OBVIOUS
<1> USE SizesAssumption DEF SizeInv, TypeOK, Goto, Return
<1>1. CASE Tick \/ UNCHANGED vars
    BY <1>1 DEF Tick, vars, store
<1>2. ASSUME NEW t \in Tasks, NEW k \in Keys, CallGet(t, k) PROVE SizeInv'
    BY <1>2 DEF CallGet, store, Arg
<1>3. ASSUME NEW t \in Tasks, NEW k \in Keys, NEW size \in Sizes, CallInsert(t, k, size) PROVE SizeInv'
    <2>1. CASE Refusal(size) # "none"
        BY <1>3, <2>1 DEF CallInsert, store
    <2>2. CASE Refusal(size) = "none"
        <3>1. size <= max_capacity_bytes
            BY <2>2 DEF Refusal
        <3> QED BY <1>3, <2>2, <3>1 DEF CallInsert, store
    <2> QED BY <2>1, <2>2
<1>4. ASSUME NEW t \in Tasks, GetMiss(t) \/ GetHit(t) \/ GetRelease(t) PROVE SizeInv'
    BY <1>4 DEF GetMiss, GetHit, GetRelease, store
<1>5. ASSUME NEW t \in Tasks, GetExpired(t) PROVE SizeInv'
    BY <1>5 DEF GetExpired, Removed, Arg
<1>6. ASSUME NEW t \in Tasks, InsertLockError(t) \/ InsertLockInner(t) \/ InsertLockMem(t) \/ Full(t) PROVE SizeInv'
    BY <1>6 DEF InsertLockError, InsertLockInner, InsertLockMem, Full, store
<1>7. ASSUME NEW t \in Tasks, Evict(t) \/ EvictPanics(t) PROVE SizeInv'
    <2>1. PICK k \in DOMAIN entries : PopLru(k)
        BY <1>7 DEF Evict, EvictPanics
    <2>2. \A j \in DOMAIN entries' : entries'[j].size_bytes <= max_capacity_bytes
        BY <2>1 DEF PopLru, Removed
    <2>3. CASE Evict(t)
        BY <2>2, <2>3 DEF Evict
    <2>4. CASE EvictPanics(t)
        BY <2>2, <2>4 DEF EvictPanics
    <2> QED BY <1>7, <2>3, <2>4
<1>8. ASSUME NEW t \in Tasks, InsertPut(t) PROVE SizeInv'
    <2>1. \A k \in DOMAIN entries' : entries'[k].size_bytes <= max_capacity_bytes
        <3>1. NewAsset(t).size_bytes <= max_capacity_bytes
            BY <1>8 DEF InsertPut, NewAsset
        <3>2. CASE Replace(t) \/ AddNew(t)
            BY <3>1, <3>2 DEF Replace, AddNew, Stored
        <3>3. CASE AddDropping(t)
            BY <3>1, <3>3 DEF AddDropping, Stored, Removed
        <3> QED BY <1>8, <3>2, <3>3 DEF InsertPut
    <2> QED BY <1>8, <2>1 DEF InsertPut
<1> QED BY <1>1, <1>2, <1>3, <1>4, <1>5, <1>6, <1>7, <1>8 DEF Next, Step

-----------------------------------------------------------------------------
(* The byte counter.                                                       *)

LEMMA InitCount == Init => CountInv
<1> SUFFICES ASSUME Init PROVE CountInv
    OBVIOUS
<1>1. Cardinality(Bytes(entries)) = 0
    BY EmptyStoreHasNoBytes DEF Init
<1>2. Pending = 0
    BY TaskAssumption DEF Init, Pending
<1> QED BY <1>1, <1>2, SizesAssumption DEF Init, CountInv, DriftIsEntryLimit, FullOnlyAfterDrift

\* A step that leaves the store, the counter and the caller inside alone.
LEMMA QuietStep ==
    ASSUME CountInv, UNCHANGED <<entries, current_memory_bytes, leaked>>, Pending' = Pending,
           \A t \in Tasks : outcome'[t] \in {outcome[t], "none", "hit", "miss", "lock_error", "exceeds_max_file_size", "exceeds_max_capacity"}
    PROVE  CountInv'
BY DEF CountInv, DriftIsEntryLimit, FullOnlyAfterDrift, Bytes

\* A step that changes the store: it is enough that counter and bytes move together.
LEMMA LoudStep ==
    ASSUME CountInv,
           current_memory_bytes' = Cardinality(Bytes(entries')) + Pending' + leaked',
           current_memory_bytes' <= max_capacity_bytes,
           leaked \in Nat, leaked' \in Nat, leaked' >= leaked,
           \A t \in Tasks : outcome'[t] \in {outcome[t], "none", "hit", "miss", "inserted", "panic"}
    PROVE  CountInv'
BY DEF CountInv, DriftIsEntryLimit, FullOnlyAfterDrift, Bytes

LEMMA NextCount == TypeOK /\ LockInv /\ SizeInv /\ CountInv /\ [Next]_vars => CountInv'
<1> SUFFICES ASSUME TypeOK, LockInv, SizeInv, CountInv, [Next]_vars PROVE CountInv'
    OBVIOUS
<1> USE TaskAssumption, SizesAssumption
<1> DEFINE held == Cardinality(Bytes(entries))
<1>a. /\ \A k \in DOMAIN entries : entries[k].size_bytes \in Nat
      /\ \A t \in Tasks : arg[t].size_bytes \in Nat /\ arg[t].key \in Keys /\ NewAsset(t) \in Asset
    BY AssetTypes
<1>s. IsStore(entries) /\ Fits(entries)
    BY DEF TypeOK, SizeInv, Fits
<1>h. held \in Nat /\ current_memory_bytes \in Nat /\ leaked \in Nat
    BY <1>s, BytesFinite DEF TypeOK
<1>d. current_memory_bytes = held + Pending + leaked /\ current_memory_bytes <= max_capacity_bytes
    BY DEF CountInv, DriftIsEntryLimit
<1>r. \A k \in DOMAIN entries : Cardinality(Bytes(Removed(entries, k))) + entries[k].size_bytes = held
    BY <1>s, BytesRemoved
<1>n. \A k \in DOMAIN entries : Cardinality(Bytes(Removed(entries, k))) \in Nat
    BY <1>s, RemovedIsStore, BytesFinite
<1> HIDE DEF held
<1>o. inner_owner = NoTask => Pending = 0
    BY DEF Pending
<1>e. ASSUME NEW t \in Tasks, pc[t] = "evicting" PROVE Pending = 0 /\ inner_owner = t
    BY <1>e DEF Pending, LockInv, Inside
<1>u. ASSUME Unlock PROVE Pending' = 0
    BY <1>u DEF Unlock, Pending
<1>p. ASSUME NEW k \in DOMAIN entries, PopLru(k), Pending = 0
      PROVE  /\ current_memory_bytes' = Cardinality(Bytes(entries')) + leaked
             /\ current_memory_bytes' <= max_capacity_bytes
    <2>1. /\ entries' = Removed(entries, k)
          /\ current_memory_bytes' = SatSub(current_memory_bytes, entries[k].size_bytes)
        BY <1>p DEF PopLru
    <2>2. current_memory_bytes >= entries[k].size_bytes
        BY <1>p, <1>a, <1>d, <1>h, <1>r, <1>n
    <2>3. current_memory_bytes' = current_memory_bytes - entries[k].size_bytes
        BY <2>1, <2>2 DEF SatSub
    <2> QED BY <2>1, <2>3, <1>p, <1>a, <1>d, <1>h, <1>r, <1>n
<1>1. CASE Tick \/ UNCHANGED vars
    BY <1>1, QuietStep DEF Tick, vars, store, locks, Pending, TypeOK
<1>2. ASSUME NEW t \in Tasks, NEW k \in Keys, CallGet(t, k) PROVE CountInv'
    <2>1. inner_owner # t
        BY <1>2 DEF CallGet, LockInv, Inside
    <2>2. Pending' = Pending
        BY <1>2, <2>1 DEF CallGet, Goto, Pending, locks, TypeOK
    <2> QED BY <1>2, <2>2, QuietStep DEF CallGet, Goto, store, TypeOK
<1>3. ASSUME NEW t \in Tasks, NEW k \in Keys, NEW size \in Sizes, CallInsert(t, k, size) PROVE CountInv'
    <2>1. inner_owner # t
        BY <1>3 DEF CallInsert, LockInv, Inside
    <2>2. Pending' = Pending
        BY <1>3, <2>1 DEF CallInsert, Goto, Return, Pending, locks, TypeOK
    <2>3. \A u \in Tasks : outcome'[u] \in {outcome[u], "none", "exceeds_max_file_size", "exceeds_max_capacity"}
        BY <1>3 DEF CallInsert, Goto, Return, Refusal, TypeOK
    <2> QED BY <1>3, <2>2, <2>3, QuietStep DEF CallInsert, store
<1>4. ASSUME NEW t \in Tasks, GetMiss(t) \/ GetHit(t) PROVE CountInv'
    <2>1. Pending' = Pending
        BY <1>4, <1>o DEF GetMiss, GetHit, Pending, locks
    <2> QED BY <1>4, <2>1, QuietStep DEF GetMiss, GetHit, Return, store, TypeOK
<1>5. ASSUME NEW t \in Tasks, GetExpired(t) PROVE CountInv'
    <2>1. PICK k \in DOMAIN entries : k = arg[t].key /\ entries' = Removed(entries, k)
        BY <1>5 DEF GetExpired
    <2>2. Pending = 0 /\ Pending' = entries[k].size_bytes
        BY <1>5, <1>o, <2>1 DEF GetExpired, Goto, Pending, TypeOK
    <2>3. Cardinality(Bytes(entries')) + entries[k].size_bytes = held
        BY <2>1, <1>r
    <2>4. /\ current_memory_bytes' = current_memory_bytes /\ leaked' = leaked
          /\ \A u \in Tasks : outcome'[u] \in {outcome[u], "none"}
        BY <1>5 DEF GetExpired, Goto, TypeOK
    <2>5. current_memory_bytes' = Cardinality(Bytes(entries')) + Pending' + leaked'
        BY <2>1, <2>2, <2>3, <2>4, <1>d, <1>h, <1>a, <1>n
    <2> QED BY <2>4, <2>5, <1>d, <1>h, LoudStep
<1>6. ASSUME NEW t \in Tasks, GetRelease(t) PROVE CountInv'
    <2>1. Pending = arg[t].size_bytes /\ Pending' = 0
        BY <1>6 DEF GetRelease, Pending, LockInv, Inside
    <2>2. current_memory_bytes' = SatSub(current_memory_bytes, arg[t].size_bytes) /\ leaked' = leaked /\ entries' = entries
        BY <1>6 DEF GetRelease
    <2>3. current_memory_bytes' = current_memory_bytes - arg[t].size_bytes
        BY <2>1, <2>2, <1>d, <1>h, <1>a DEF SatSub
    <2>4. current_memory_bytes' = Cardinality(Bytes(entries')) + Pending' + leaked' /\ current_memory_bytes' <= max_capacity_bytes
        BY <2>1, <2>2, <2>3, <1>d, <1>h, <1>a DEF held
    <2>5. \A u \in Tasks : outcome'[u] \in {outcome[u], "miss"}
        BY <1>6 DEF GetRelease, Return, TypeOK
    <2> QED BY <2>2, <2>4, <2>5, <1>h, LoudStep
<1>7. ASSUME NEW t \in Tasks, InsertLockError(t) \/ InsertLockInner(t) \/ InsertLockMem(t) PROVE CountInv'
    <2>1. Pending' = Pending
        BY <1>7 DEF InsertLockError, InsertLockInner, InsertLockMem, Goto, Return, Pending, locks, LockInv, Inside, TypeOK
    <2> QED BY <1>7, <2>1, QuietStep DEF InsertLockError, InsertLockInner, InsertLockMem, Goto, Return, store, TypeOK
<1>8. ASSUME NEW t \in Tasks, Evict(t) PROVE CountInv'
    <2>1. PICK k \in DOMAIN entries : PopLru(k)
        BY <1>8 DEF Evict
    <2>2. Pending = 0 /\ Pending' = Pending
        BY <1>8, <1>e DEF Evict, Pending, locks
    <2>3. leaked' = leaked /\ outcome' = outcome
        BY <1>8 DEF Evict
    <2>4. current_memory_bytes' = Cardinality(Bytes(entries')) + leaked /\ current_memory_bytes' <= max_capacity_bytes
        BY <2>1, <2>2, <1>p
    <2>5. IsStore(entries')
        BY <2>1, <1>s, RemovedIsStore DEF PopLru
    <2>6. Cardinality(Bytes(entries')) \in Nat
        BY <2>5, BytesFinite
    <2>7. current_memory_bytes' = Cardinality(Bytes(entries')) + Pending' + leaked'
        BY <2>2, <2>3, <2>4, <2>6, <1>h
    <2> QED BY <2>3, <2>4, <2>7, <1>h, LoudStep
<1>9. ASSUME NEW t \in Tasks, EvictPanics(t) PROVE CountInv'
    <2>1. PICK k \in DOMAIN entries : PopLru(k)
        BY <1>9 DEF EvictPanics
    <2>2. Pending = 0 /\ Pending' = 0
        BY <1>9, <1>e, <1>u DEF EvictPanics
    <2>3. leaked' = leaked /\ \A u \in Tasks : outcome'[u] \in {outcome[u], "panic"}
        BY <1>9 DEF EvictPanics, Return, TypeOK
    <2>4. current_memory_bytes' = Cardinality(Bytes(entries')) + leaked /\ current_memory_bytes' <= max_capacity_bytes
        BY <2>1, <2>2, <1>p
    <2>5. IsStore(entries')
        BY <2>1, <1>s, RemovedIsStore DEF PopLru
    <2>6. Cardinality(Bytes(entries')) \in Nat
        BY <2>5, BytesFinite
    <2>7. current_memory_bytes' = Cardinality(Bytes(entries')) + Pending' + leaked'
        BY <2>2, <2>3, <2>4, <2>6, <1>h
    <2> QED BY <2>3, <2>4, <2>7, <1>h, LoudStep
<1>10. ASSUME NEW t \in Tasks, Full(t) PROVE CountInv'
    <2>1. Pending = 0 /\ Pending' = 0
        BY <1>10, <1>e, <1>u DEF Full
    <2>2. UNCHANGED <<entries, current_memory_bytes, leaked>>
        BY <1>10 DEF Full, store
    <2>3. leaked > 0
        <3>1. held = 0
            BY <1>10, EmptyStoreHasNoBytes DEF Full, held
        <3>2. current_memory_bytes + arg[t].size_bytes > max_capacity_bytes /\ arg[t].size_bytes <= max_capacity_bytes
            BY <1>10 DEF Full, TooFull, SizeInv
        <3> QED BY <3>1, <3>2, <2>1, <1>d, <1>h, <1>a
    <2> QED BY <2>1, <2>2, <2>3 DEF CountInv, DriftIsEntryLimit, FullOnlyAfterDrift, Bytes
<1>11. ASSUME NEW t \in Tasks, InsertPut(t) PROVE CountInv'
    <2> DEFINE k == arg[t].key
               size == arg[t].size_bytes
    <2>1. Pending = 0 /\ Pending' = 0
        BY <1>11, <1>e, <1>u DEF InsertPut
    <2>2. NewAsset(t) \in Asset /\ NewAsset(t).size_bytes = size /\ k \in Keys /\ size \in Nat
        BY <1>a DEF NewAsset
    <2>3. size <= max_capacity_bytes /\ current_memory_bytes + size <= max_capacity_bytes
        BY <1>11, <1>a, <1>h DEF InsertPut, TooFull, SizeInv
    <2>4. \A u \in Tasks : outcome'[u] \in {outcome[u], "inserted"}
        BY <1>11 DEF InsertPut, Return, TypeOK
    <2>5. /\ current_memory_bytes' = Cardinality(Bytes(entries')) + leaked'
          /\ current_memory_bytes' <= max_capacity_bytes
          /\ Cardinality(Bytes(entries')) \in Nat
          /\ leaked' \in Nat /\ leaked' >= leaked
        <3>1. CASE Replace(t)
            <4>1. /\ k \in DOMAIN entries /\ entries' = Stored(entries, k, NewAsset(t)) /\ leaked' = leaked
                  /\ current_memory_bytes' = SatSub(current_memory_bytes, entries[k].size_bytes) + size
                BY <3>1 DEF Replace
            <4>2. IsStore(entries') /\ Cardinality(Bytes(entries')) + entries[k].size_bytes = held + size
                BY <4>1, <2>2, <2>3, <1>s, BytesReplaced DEF held
            <4>3. Cardinality(Bytes(entries')) \in Nat
                BY <4>2, BytesFinite
            <4>4. entries[k].size_bytes \in Nat /\ entries[k].size_bytes <= held
                BY <4>1, <1>a, <1>r, <1>n, <1>h
            <4>5. current_memory_bytes' = current_memory_bytes - entries[k].size_bytes + size
                BY <4>1, <4>4, <2>1, <1>d, <1>h DEF SatSub
            <4> QED BY <4>1, <4>2, <4>3, <4>4, <4>5, <2>1, <2>2, <2>3, <1>d, <1>h
        <3>2. CASE AddNew(t)
            <4>1. /\ k \notin DOMAIN entries /\ entries' = Stored(entries, k, NewAsset(t)) /\ leaked' = leaked
                  /\ current_memory_bytes' = current_memory_bytes + size
                BY <3>2 DEF AddNew
            <4>2. Cardinality(Bytes(entries')) = held + size
                BY <4>1, <2>2, <2>3, <1>s, BytesAdded DEF held
            <4> QED BY <4>1, <4>2, <2>1, <2>2, <2>3, <1>d, <1>h
        <3>3. CASE AddDropping(t)
            <4>1. PICK old \in DOMAIN entries :
                    /\ entries' = Stored(Removed(entries, old), k, NewAsset(t))
                    /\ leaked' = leaked + entries[old].size_bytes
                BY <3>3 DEF AddDropping
            <4>2. k \notin DOMAIN entries /\ current_memory_bytes' = current_memory_bytes + size
                BY <3>3 DEF AddDropping
            <4>3. IsStore(Removed(entries, old)) /\ k \notin DOMAIN Removed(entries, old)
                BY <4>2, <1>s, RemovedIsStore DEF Removed
            <4>4. Cardinality(Bytes(entries')) = Cardinality(Bytes(Removed(entries, old))) + size
                BY <4>1, <4>3, <2>2, <2>3, BytesAdded
            <4>5. /\ Cardinality(Bytes(Removed(entries, old))) + entries[old].size_bytes = held
                  /\ Cardinality(Bytes(Removed(entries, old))) \in Nat /\ entries[old].size_bytes \in Nat
                BY <1>r, <1>n, <1>a
            <4> QED BY <4>1, <4>2, <4>4, <4>5, <2>1, <2>2, <2>3, <1>d, <1>h
        <3> QED BY <1>11, <3>1, <3>2, <3>3 DEF InsertPut
    <2>6. current_memory_bytes' = Cardinality(Bytes(entries')) + Pending' + leaked'
        BY <2>1, <2>5
    <2> QED BY <2>4, <2>5, <2>6, <1>h, LoudStep
<1> QED BY <1>1, <1>2, <1>3, <1>4, <1>5, <1>6, <1>7, <1>8, <1>9, <1>10, <1>11 DEF Next, Step

-----------------------------------------------------------------------------
(* Theorems.                                                               *)

\* The strengthened invariant is inductive.
THEOREM Invariance == Spec => []IndInv
<1>1. Init => IndInv
    BY InitType, InitLock, InitSize, InitCount DEF IndInv
<1>2. IndInv /\ [Next]_vars => IndInv'
    BY NextType, NextLock, NextSize, NextCount DEF IndInv
<1> QED BY <1>1, <1>2, PTL DEF Spec

\* The bodies held never exceed the budget, and the counter never understates them.
THEOREM BudgetHolds == Spec => []BudgetRespected
<1>1. IndInv => BudgetRespected
    <2> SUFFICES ASSUME IndInv PROVE BudgetRespected
        OBVIOUS
    <2>1. /\ current_memory_bytes = Cardinality(Bytes(entries)) + Pending + leaked
          /\ current_memory_bytes <= max_capacity_bytes
        BY DEF IndInv, CountInv, DriftIsEntryLimit
    <2>2. Cardinality(Bytes(entries)) \in Nat /\ leaked \in Nat
        BY BytesFinite DEF IndInv, TypeOK
    <2>3. Pending \in Nat
        BY AssetTypes DEF IndInv, TypeOK, Pending
    <2> QED BY <2>1, <2>2, <2>3 DEF BudgetRespected
<1> QED BY <1>1, Invariance, PTL

\* The counter drifts by what the entry limit drops and by nothing else.
THEOREM DriftExplained == Spec => []DriftIsEntryLimit
<1>1. IndInv => DriftIsEntryLimit
    BY DEF IndInv, CountInv
<1> QED BY <1>1, Invariance, PTL

\* While the entry limit has dropped nothing, an asset of admissible size is stored.
THEOREM FullNeedsDrift == Spec => []FullOnlyAfterDrift
<1>1. IndInv => FullOnlyAfterDrift
    BY DEF IndInv, CountInv
<1> QED BY <1>1, Invariance, PTL
=============================================================================
