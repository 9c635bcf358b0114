------------------------- MODULE LruCacheRefinement -------------------------
(***************************************************************************)
(* LruCache implements AssetStore, for any number of callers, keys, sizes  *)
(* and limits.  Beside the invariant of LruCacheProofs the step simulation *)
(* needs what the locks protect between two steps of a call: the key an    *)
(* expired lookup removed stays away until the miss is answered, and       *)
(* nobody panics in the store while somebody else is inside.               *)
(***************************************************************************)
EXTENDS LruCacheProofs

\* What holds of a caller that is in the middle of a call.
MidCall(t) ==
    /\ pc[t] # "idle" => outcome[t] = "none"
    /\ pc[t] \in Inside => ~poisoned
    /\ pc[t] = "get_mem" => arg[t].key \notin DOMAIN entries

CallInv == \A t \in Tasks : MidCall(t)

RefInv == IndInv /\ CallInv

-----------------------------------------------------------------------------
(* The middle of a call.                                                   *)

\* Only one caller is inside.
LEMMA Alone ==
    ASSUME LockInv, NEW t \in Tasks, NEW u \in Tasks, u # t,
           inner_owner = t \/ inner_owner = NoTask
    PROVE  pc[u] \notin Inside
BY TaskAssumption DEF LockInv

\* A caller that is outside, whose own state did not change, is still well.
LEMMA OutsideStays ==
    ASSUME NEW u \in Tasks, MidCall(u), pc[u] \notin Inside,
           pc'[u] = pc[u], outcome'[u] = outcome[u]
    PROVE  MidCall(u)'
BY DEF MidCall, Inside

\* So is one whose store and locks did not change either.
LEMMA QuietStays ==
    ASSUME NEW u \in Tasks, MidCall(u),
           pc'[u] = pc[u], outcome'[u] = outcome[u], arg'[u] = arg[u],
           entries' = entries, poisoned' = poisoned
    PROVE  MidCall(u)'
BY DEF MidCall

LEMMA IdleIsWell ==
    ASSUME NEW u \in Tasks, pc'[u] = "idle"
    PROVE  MidCall(u)'
BY DEF MidCall, Inside

LEMMA InitCall == Init => CallInv
BY DEF Init, CallInv, MidCall, Inside

LEMMA NextCall == IndInv /\ CallInv /\ [Next]_vars => CallInv'
<1> SUFFICES ASSUME IndInv, CallInv, [Next]_vars, NEW u \in Tasks PROVE MidCall(u)'
    BY DEF CallInv
<1> USE DEF IndInv
<1>u. MidCall(u)
    BY DEF CallInv
<1>1. CASE Tick \/ UNCHANGED vars
    BY <1>1, <1>u, QuietStays DEF Tick, vars, store, locks
<1>2. ASSUME NEW t \in Tasks, NEW k \in Keys, CallGet(t, k) PROVE MidCall(u)'
    <2>1. CASE u = t
        BY <1>2, <2>1 DEF CallGet, Goto, MidCall, Inside, TypeOK
    <2>2. CASE u # t
        BY <1>2, <1>u, <2>2, QuietStays DEF CallGet, Goto, store, locks, TypeOK
    <2> QED BY <2>1, <2>2
<1>3. ASSUME NEW t \in Tasks, NEW k \in Keys, NEW size \in Sizes, CallInsert(t, k, size) PROVE MidCall(u)'
    <2>1. CASE u = t
        BY <1>3, <2>1 DEF CallInsert, Goto, Return, MidCall, Inside, TypeOK
    <2>2. CASE u # t
        BY <1>3, <1>u, <2>2, QuietStays DEF CallInsert, Goto, Return, store, locks, TypeOK
    <2> QED BY <2>1, <2>2
<1>4. ASSUME NEW t \in Tasks, GetMiss(t) \/ GetHit(t) \/ GetRelease(t) \/ InsertLockError(t) \/ Full(t)
      PROVE  MidCall(u)'
    <2>1. CASE u = t
        BY <1>4, <2>1, IdleIsWell DEF GetMiss, GetHit, GetRelease, InsertLockError, Full, Return, TypeOK
    <2>2. CASE u # t
        BY <1>4, <1>u, <2>2, QuietStays
        DEF GetMiss, GetHit, GetRelease, InsertLockError, Full, Return, store, locks, TypeOK
    <2> QED BY <2>1, <2>2
<1>5. ASSUME NEW t \in Tasks, GetExpired(t) PROVE MidCall(u)'
    <2>1. CASE u = t
        <3>1. arg'[t].key = arg[t].key /\ entries' = Removed(entries, arg[t].key)
            BY <1>5 DEF GetExpired, TypeOK, Arg
        <3>2. outcome'[t] = "none" /\ ~poisoned'
            BY <1>5 DEF GetExpired, Goto, TypeOK
        <3>3. arg'[t].key \notin DOMAIN entries'
            BY <3>1 DEF Removed
        <3> QED BY <2>1, <3>2, <3>3 DEF MidCall
    <2>2. CASE u # t
        BY <1>5, <1>u, <2>2, Alone, OutsideStays DEF GetExpired, Goto, TypeOK
    <2> QED BY <2>1, <2>2
<1>6. ASSUME NEW t \in Tasks, InsertLockInner(t) \/ InsertLockMem(t) PROVE MidCall(u)'
    <2>1. CASE u = t
        BY <1>6, <1>u, <2>1 DEF InsertLockInner, InsertLockMem, Goto, MidCall, Inside, TypeOK
    <2>2. CASE u # t
        BY <1>6, <1>u, <2>2, QuietStays DEF InsertLockInner, InsertLockMem, Goto, store, TypeOK
    <2> QED BY <2>1, <2>2
<1>7. ASSUME NEW t \in Tasks, Evict(t) PROVE MidCall(u)'
    <2>1. CASE u = t
        BY <1>7, <1>u, <2>1 DEF Evict, MidCall, locks
    <2>2. CASE u # t
        <3>1. inner_owner = t
            BY <1>7 DEF Evict, LockInv, Inside
        <3> QED BY <1>7, <1>u, <2>2, <3>1, Alone, OutsideStays DEF Evict
    <2> QED BY <2>1, <2>2
<1>8. ASSUME NEW t \in Tasks, EvictPanics(t) \/ InsertPut(t) PROVE MidCall(u)'
    <2>1. CASE u = t
        BY <1>8, <2>1, IdleIsWell DEF EvictPanics, InsertPut, Return, TypeOK
    <2>2. CASE u # t
        <3>1. inner_owner = t
            BY <1>8 DEF EvictPanics, InsertPut, LockInv, Inside
        <3> QED BY <1>8, <1>u, <2>2, <3>1, Alone, OutsideStays DEF EvictPanics, InsertPut, Return, TypeOK
    <2> QED BY <2>1, <2>2
<1> QED BY <1>1, <1>2, <1>3, <1>4, <1>5, <1>6, <1>7, <1>8 DEF Next, Step

\* The invariant the simulation rests on.
THEOREM CallsAreWhole == Spec => []RefInv
<1>1. Init => CallInv
    BY InitCall
<1>2. IndInv /\ CallInv /\ [Next]_vars => CallInv'
    BY NextCall
<1> QED BY <1>1, <1>2, Invariance, PTL DEF Spec, RefInv

-----------------------------------------------------------------------------
(* The simulation.                                                         *)

\* The mapped requests; `wanted' is what AssetStore calls request.
wanted == [t \in Tasks |-> Request(t)]

LEMMA RequestCases ==
    ASSUME NEW t \in Tasks
    PROVE  /\ pc[t] = "idle" => Request(t) = AS!Nothing
           /\ pc[t] \in {"get", "get_mem"} => Request(t) = AS!Looking(arg[t].key)
           /\ pc[t] \notin {"idle", "get", "get_mem"} =>
                 Request(t) = AS!Offering(arg[t].key, NewAsset(t))
BY DEF Request, AS!Nothing, AS!Looking, AS!Offering

\* A caller whose place and arguments stay the same wants the same.
LEMMA SameRequest ==
    ASSUME NEW t \in Tasks, pc'[t] = pc[t], arg'[t] = arg[t]
    PROVE  Request(t)' = Request(t)
BY DEF Request, NewAsset

LEMMA ReturnMaps ==
    ASSUME TypeOK, NEW t \in Tasks, NEW r, Return(t, r)
    PROVE  /\ wanted' = [wanted EXCEPT ![t] = AS!Nothing]
           /\ outcome' = [outcome EXCEPT ![t] = r]
<1>1. Request(t)' = AS!Nothing
    BY DEF Return, TypeOK, Request, AS!Nothing
<1>2. ASSUME NEW u \in Tasks, u # t PROVE Request(u)' = Request(u)
    BY <1>2, SameRequest DEF Return, TypeOK
<1> QED BY <1>1, <1>2 DEF Return, wanted

\* A step inside a call is invisible but for what it does to the store.
LEMMA StayMaps ==
    ASSUME RefInv, NEW t \in Tasks, NEW l, Goto(t, l), pc[t] # "idle",
           Request(t)' = Request(t), \A u \in Tasks : u # t => arg'[u] = arg[u]
    PROVE  wanted' = wanted /\ outcome' = outcome
<1>1. outcome[t] = "none"
    BY DEF RefInv, CallInv, MidCall
<1>2. outcome' = outcome
    BY <1>1 DEF Goto, RefInv, IndInv, TypeOK
<1>3. ASSUME NEW u \in Tasks PROVE Request(u)' = Request(u)
    BY <1>3, SameRequest DEF Goto, RefInv, IndInv, TypeOK
<1> QED BY <1>2, <1>3 DEF wanted

\* A call that begins.
LEMMA GotoMaps ==
    ASSUME TypeOK, NEW t \in Tasks, NEW l, Goto(t, l),
           \A u \in Tasks : u # t => arg'[u] = arg[u]
    PROVE  /\ wanted' = [wanted EXCEPT ![t] = Request(t)']
           /\ outcome' = [outcome EXCEPT ![t] = "none"]
<1>1. ASSUME NEW u \in Tasks, u # t PROVE Request(u)' = Request(u)
    BY <1>1, SameRequest DEF Goto, TypeOK
<1> QED BY <1>1 DEF Goto, wanted

LEMMA InitMaps == Init => AS!Init
BY DEF Init, AS!Init, AS!Nothing, Request

\* Each module brings its own copy of the standard operator.
LEMMA SameCount == \A S : AS!Cardinality(S) = Cardinality(S)
BY Zenon DEF AS!Cardinality, Cardinality

\* What is removed, stored and counted is the same on both levels.
LEMMA SameStore ==
    /\ \A m, k : Removed(m, k) = AS!OnlyKeys(m, DOMAIN m \ {k})
    /\ \A m : AS!Volume(m) = Bytes(m)
    /\ \A m, k, a : Stored(m, k, a) = AS!WithAsset(m, k, a)
BY DEF Removed, Stored, Bytes, AS!OnlyKeys, AS!Volume, AS!WithAsset

LEMMA LookupMaps ==
    ASSUME RefInv, NEW t \in Tasks, NEW k \in Keys, CallGet(t, k)
    PROVE  AS!Lookup(t, k)
<1>1. TypeOK /\ pc[t] = "idle"
    BY DEF RefInv, IndInv, CallGet
<1>2. Request(t) = AS!Nothing
    BY <1>1, RequestCases
<1>3. Request(t)' = AS!Looking(k)
    BY <1>1 DEF CallGet, Goto, TypeOK, Arg, Request, AS!Looking
<1>4. wanted' = [wanted EXCEPT ![t] = AS!Looking(k)] /\ outcome' = [outcome EXCEPT ![t] = "none"]
    BY <1>1, <1>3, GotoMaps DEF CallGet
<1> QED BY <1>2, <1>4 DEF CallGet, AS!Lookup, AS!Ask, wanted, store, locks

LEMMA OfferMaps ==
    ASSUME RefInv, NEW t \in Tasks, NEW k \in Keys, NEW size \in Sizes, CallInsert(t, k, size)
    PROVE  AS!Offer(t, k, size) \/ AS!OfferTooLarge(t, size)
<1> USE SizesAssumption
<1>1. TypeOK /\ pc[t] = "idle" /\ UNCHANGED <<now, entries, poisoned>>
    BY DEF RefInv, IndInv, CallInsert, store, locks
<1>2. Request(t) = AS!Nothing
    BY <1>1, RequestCases
<1>3. CASE Refusal(size) # "none"
    <2>1. /\ wanted' = [wanted EXCEPT ![t] = AS!Nothing]
          /\ outcome' = [outcome EXCEPT ![t] = Refusal(size)]
        BY <1>1, <1>3, ReturnMaps DEF CallInsert
    <2>2. \/ size > max_file_size_bytes /\ Refusal(size) = "exceeds_max_file_size"
          \/ size > max_capacity_bytes /\ Refusal(size) = "exceeds_max_capacity"
        BY <1>3 DEF Refusal
    <2> QED BY <1>1, <1>2, <2>1, <2>2 DEF AS!OfferTooLarge, AS!Answer, wanted
<1>4. CASE Refusal(size) = "none"
    <2> DEFINE a == [size_bytes |-> size, created_at |-> now]
    <2>1. Request(t)' = AS!Offering(k, a)
        BY <1>1, <1>4 DEF CallInsert, Goto, TypeOK, Request, NewAsset, AS!Offering
    <2>2. wanted' = [wanted EXCEPT ![t] = AS!Offering(k, a)] /\ outcome' = [outcome EXCEPT ![t] = "none"]
        BY <1>1, <1>4, <2>1, GotoMaps DEF CallInsert, TypeOK
    <2>3. size <= max_file_size_bytes /\ size <= max_capacity_bytes
        BY <1>4 DEF Refusal
    <2> QED BY <1>1, <1>2, <2>2, <2>3 DEF AS!Offer, AS!Ask, wanted
<1> QED BY <1>3, <1>4

LEMMA GetMaps ==
    ASSUME RefInv, NEW t \in Tasks, GetMiss(t) \/ GetHit(t) \/ GetRelease(t)
    PROVE  AS!Found(t) \/ AS!NotFound(t)
<1>1. TypeOK /\ pc[t] \in {"get", "get_mem"} /\ UNCHANGED <<now, entries, poisoned>>
    BY DEF RefInv, IndInv, GetMiss, GetHit, GetRelease, store, locks
<1>2. wanted[t] = AS!Looking(arg[t].key)
    BY <1>1, RequestCases DEF wanted
<1>3. wanted[t].kind = "lookup" /\ wanted[t].key = arg[t].key
    BY <1>2 DEF AS!Looking
<1>4. CASE GetHit(t)
    <2>1. AS!Answer(t, "hit")
        BY <1>1, <1>4, ReturnMaps DEF GetHit, AS!Answer, wanted
    <2>2. AS!Fresh(entries[arg[t].key])
        BY <1>1, <1>4, SizesAssumption DEF GetHit, IsExpired, AS!Fresh, TypeOK, IsStore, Asset
    <2> QED BY <1>1, <1>3, <1>4, <2>1, <2>2 DEF GetHit, AS!Found, wanted
<1>5. CASE GetMiss(t) \/ GetRelease(t)
    <2>1. AS!Answer(t, "miss")
        BY <1>1, <1>5, ReturnMaps DEF GetMiss, GetRelease, AS!Answer, wanted
    <2>2. poisoned \/ arg[t].key \notin DOMAIN entries
        BY <1>5 DEF GetMiss, GetRelease, RefInv, CallInv, MidCall
    <2> QED BY <1>1, <1>3, <2>1, <2>2 DEF AS!NotFound, wanted
<1> QED BY <1>4, <1>5

LEMMA ExpiryMaps ==
    ASSUME RefInv, NEW t \in Tasks, GetExpired(t)
    PROVE  \E k \in Keys : AS!Forget(t, k)
<1> DEFINE k == arg[t].key
<1>1. TypeOK /\ k \in Keys /\ pc[t] = "get" /\ k \in DOMAIN entries /\ ~poisoned
    BY DEF RefInv, IndInv, GetExpired, TypeOK, Arg
<1>2. wanted[t] = AS!Looking(k)
    BY <1>1, RequestCases DEF wanted
<1>3. arg'[t].key = k /\ pc'[t] = "get_mem" /\ \A u \in Tasks : u # t => arg'[u] = arg[u]
    BY <1>1 DEF GetExpired, Goto, TypeOK, Arg
<1>4. Request(t)' = Request(t)
    BY <1>1, <1>3 DEF Request
<1>5. wanted' = wanted /\ outcome' = outcome
    BY <1>1, <1>3, <1>4, StayMaps DEF GetExpired
<1>6. ~AS!Fresh(entries[k])
    BY <1>1, SizesAssumption DEF GetExpired, IsExpired, AS!Fresh, TypeOK, IsStore, Asset
<1>7. entries' = AS!OnlyKeys(entries, DOMAIN entries \ {k}) /\ UNCHANGED <<now, poisoned>>
    BY SameStore DEF GetExpired
<1>8. AS!Forget(t, k)
    BY <1>1, <1>2, <1>5, <1>6, <1>7 DEF AS!Forget, wanted
<1> QED BY <1>1, <1>8

LEMMA EvictionMaps ==
    ASSUME RefInv, NEW t \in Tasks, Evict(t) \/ EvictPanics(t)
    PROVE  \E k \in Keys : AS!Forget(t, k) \/ AS!Break(t, k)
<1>1. TypeOK /\ pc[t] = "evicting" /\ ~poisoned /\ now' = now
    BY DEF RefInv, IndInv, CallInv, MidCall, Inside, Evict, EvictPanics
<1>2. wanted[t] = AS!Offering(arg[t].key, NewAsset(t))
    BY <1>1, RequestCases DEF wanted
<1>3. wanted[t].kind = "offer"
    BY <1>2 DEF AS!Offering
<1>4. PICK k \in DOMAIN entries : entries' = Removed(entries, k)
    BY DEF Evict, EvictPanics, PopLru
<1>5. k \in Keys /\ entries' = AS!OnlyKeys(entries, DOMAIN entries \ {k})
    BY <1>1, <1>4, SameStore DEF TypeOK, IsStore
<1>6. CASE Evict(t)
    <2>1. wanted' = wanted /\ outcome' = outcome /\ poisoned' = poisoned
        BY <1>6, SameRequest DEF Evict, wanted, locks
    <2>2. AS!Forget(t, k)
        BY <1>1, <1>3, <1>5, <2>1 DEF AS!Forget, wanted
    <2> QED BY <1>5, <2>2
<1>7. CASE EvictPanics(t)
    <2>1. AS!Answer(t, "panic") /\ poisoned' = TRUE
        BY <1>1, <1>7, ReturnMaps DEF EvictPanics, AS!Answer, wanted
    <2>2. AS!Break(t, k)
        BY <1>1, <1>3, <1>5, <2>1 DEF AS!Break, wanted
    <2> QED BY <1>5, <2>2
<1> QED BY <1>6, <1>7

LEMMA PutMaps ==
    ASSUME RefInv, RefInv', NEW t \in Tasks, InsertPut(t)
    PROVE  AS!Take(t)
<1>1. TypeOK /\ pc[t] = "evicting" /\ ~poisoned /\ UNCHANGED <<now, poisoned>>
    BY DEF RefInv, IndInv, CallInv, MidCall, Inside, InsertPut
<1>2. wanted[t] = AS!Offering(arg[t].key, NewAsset(t))
    BY <1>1, RequestCases DEF wanted
<1>3. wanted[t].kind = "offer" /\ wanted[t].key = arg[t].key /\ wanted[t].asset = NewAsset(t)
    BY <1>2 DEF AS!Offering
<1>4. AS!Answer(t, "inserted")
    BY <1>1, ReturnMaps DEF InsertPut, AS!Answer, wanted
<1>5. Cardinality(AS!Volume(entries')) <= max_capacity_bytes
    <2>1. CountInv' /\ TypeOK'
        BY DEF RefInv, IndInv
    <2>2. /\ current_memory_bytes' = Cardinality(Bytes(entries')) + Pending' + leaked'
          /\ current_memory_bytes' <= max_capacity_bytes
        BY <2>1 DEF CountInv, DriftIsEntryLimit, Bytes
    <2>3. IsStore(entries') /\ leaked' \in Nat
        BY <2>1 DEF TypeOK, IsStore
    <2>4. Cardinality(Bytes(entries')) \in Nat
        BY <2>3, BytesFinite
    <2>5. Pending' = 0
        BY TaskAssumption DEF InsertPut, Unlock, Pending
    <2> QED BY <2>2, <2>3, <2>4, <2>5, SameStore, SizesAssumption
<1>6. \E S \in SUBSET DOMAIN entries :
        entries' = AS!WithAsset(AS!OnlyKeys(entries, S), arg[t].key, NewAsset(t))
    <2>1. CASE Replace(t) \/ AddNew(t)
        <3>1. entries = AS!OnlyKeys(entries, DOMAIN entries)
            BY <1>1 DEF TypeOK, IsStore, AS!OnlyKeys
        <3>2. entries' = AS!WithAsset(entries, arg[t].key, NewAsset(t))
            BY <2>1, SameStore DEF Replace, AddNew
        <3> QED BY <3>1, <3>2
    <2>2. CASE AddDropping(t)
        <3>1. PICK old \in DOMAIN entries :
                entries' = Stored(Removed(entries, old), arg[t].key, NewAsset(t))
            BY <2>2 DEF AddDropping
        <3>2. entries' = AS!WithAsset(AS!OnlyKeys(entries, DOMAIN entries \ {old}), arg[t].key, NewAsset(t))
            BY <3>1, SameStore
        <3> QED BY <3>2
    <2> QED BY <2>1, <2>2 DEF InsertPut
<1>7. \E S \in SUBSET DOMAIN entries :
        entries' = AS!WithAsset(AS!OnlyKeys(entries, S), wanted[t].key, wanted[t].asset)
    BY <1>3, <1>6, Zenon
<1> QED BY <1>1, <1>3, <1>4, <1>5, <1>7, SameCount, Zenon DEF AS!Take, wanted

LEMMA RefusalMaps ==
    ASSUME RefInv, NEW t \in Tasks, Full(t) \/ InsertLockError(t)
    PROVE  AS!Refuse(t)
<1>1. TypeOK /\ pc[t] \in {"evicting", "insert_inner"} /\ UNCHANGED <<entries, poisoned>>
    BY DEF RefInv, IndInv, Full, InsertLockError, store, locks
<1>2. wanted[t].kind = "offer"
    BY <1>1, RequestCases DEF wanted, AS!Offering
<1>3. CASE Full(t)
    <2>1. AS!Answer(t, "capacity_full_after_eviction") /\ DOMAIN entries = {}
        BY <1>1, <1>3, ReturnMaps DEF Full, AS!Answer, wanted
    <2> QED BY <1>1, <1>2, <2>1 DEF AS!Refuse, wanted
<1>4. CASE InsertLockError(t)
    <2>1. AS!Answer(t, "lock_error") /\ poisoned
        BY <1>1, <1>4, ReturnMaps DEF InsertLockError, AS!Answer, wanted
    <2> QED BY <1>1, <1>2, <2>1 DEF AS!Refuse, wanted
<1> QED BY <1>3, <1>4

\* Taking a lock shows nothing.
LEMMA LockingStutters ==
    ASSUME RefInv, NEW t \in Tasks, InsertLockInner(t) \/ InsertLockMem(t)
    PROVE  UNCHANGED AS!vars
<1>1. TypeOK /\ pc[t] # "idle" /\ arg' = arg /\ UNCHANGED <<now, entries, poisoned>>
    BY DEF RefInv, IndInv, InsertLockInner, InsertLockMem, store
<1>2. Request(t)' = Request(t)
    BY <1>1 DEF InsertLockInner, InsertLockMem, Goto, TypeOK, Request, NewAsset
<1>3. wanted' = wanted /\ outcome' = outcome
    BY <1>1, <1>2, StayMaps DEF InsertLockInner, InsertLockMem
<1> QED BY <1>1, <1>3 DEF AS!vars, wanted

LEMMA StepMaps == RefInv /\ RefInv' /\ [Next]_vars => [AS!Next]_(AS!vars)
<1> SUFFICES ASSUME RefInv, RefInv', [Next]_vars PROVE AS!Next \/ UNCHANGED AS!vars
    OBVIOUS
<1>1. CASE Tick
    <2>1. wanted' = wanted
        BY <1>1, SameRequest DEF Tick, wanted
    <2>2. AS!Tick
        BY <1>1, <2>1 DEF Tick, AS!Tick, wanted, store, locks
    <2> QED BY <2>2 DEF AS!Next
<1>2. CASE UNCHANGED vars
    <2>1. wanted' = wanted
        BY <1>2, SameRequest DEF vars, wanted
    <2> QED BY <1>2, <2>1 DEF vars, store, locks, AS!vars, wanted
<1>3. ASSUME NEW t \in Tasks, NEW k \in Keys, CallGet(t, k) PROVE AS!Next
    BY <1>3, LookupMaps DEF AS!Next
<1>4. ASSUME NEW t \in Tasks, NEW k \in Keys, NEW size \in Sizes, CallInsert(t, k, size) PROVE AS!Next
    BY <1>4, OfferMaps DEF AS!Next
<1>5. ASSUME NEW t \in Tasks, GetMiss(t) \/ GetHit(t) \/ GetRelease(t) PROVE AS!Next
    BY <1>5, GetMaps DEF AS!Next
<1>6. ASSUME NEW t \in Tasks, GetExpired(t) PROVE AS!Next
    BY <1>6, ExpiryMaps DEF AS!Next
<1>7. ASSUME NEW t \in Tasks, Evict(t) \/ EvictPanics(t) PROVE AS!Next
    BY <1>7, EvictionMaps DEF AS!Next
<1>8. ASSUME NEW t \in Tasks, InsertPut(t) PROVE AS!Next
    BY <1>8, PutMaps DEF AS!Next
<1>9. ASSUME NEW t \in Tasks, Full(t) \/ InsertLockError(t) PROVE AS!Next
    BY <1>9, RefusalMaps DEF AS!Next
<1>10. ASSUME NEW t \in Tasks, InsertLockInner(t) \/ InsertLockMem(t) PROVE UNCHANGED AS!vars
    BY <1>10, LockingStutters
<1> QED BY <1>1, <1>2, <1>3, <1>4, <1>5, <1>6, <1>7, <1>8, <1>9, <1>10 DEF Next, Step

\* The interleaved, two-lock cache implements the atomic bounded store.
THEOREM Refinement == Spec => ImplementsStore
<1>1. Init => AS!Init
    BY InitMaps
<1>2. RefInv /\ RefInv' /\ [Next]_vars => [AS!Next]_(AS!vars)
    BY StepMaps
<1> QED BY <1>1, <1>2, CallsAreWhole, PTL DEF Spec, ImplementsStore, AS!Spec
=============================================================================
