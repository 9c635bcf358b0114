------------------------ MODULE SecurityManagerProofs ------------------------
(***************************************************************************)
(* Proofs about SecurityManager, for any addresses, settings and window.   *)
(*                                                                         *)
(* The trackers forget, so none of the properties is inductive alone.  The *)
(* key fact is that a tracker mirrors the history: it holds nothing that   *)
(* did not happen and still holds everything inside the window.  A verdict *)
(* computed from the tracker is then the verdict the history demands.      *)
(***************************************************************************)
EXTENDS SecurityManager, FiniteSetTheorems, TLAPS

Recorded(ip) == requests[ip] \cup failures[ip] \cup manual[ip]

\* Events are numbered in the order they are recorded, none lies in the future.
HistoryInv ==
    /\ \A ip \in IPs : \A e \in Recorded(ip) : e.seq < pushes /\ e.at <= now
    /\ \A ip \in IPs : IsFiniteSet(requests[ip]) /\ IsFiniteSet(failures[ip])
    /\ \A ip \in IPs : admitted[ip] \subseteq requests[ip]

\* Tracker m is a sound and, inside the window, complete record of history h.
Mirrors(m, h) ==
    \A ip \in IPs : Tracked(m, ip) \subseteq h[ip] /\ Fresh(h[ip]) \subseteq Tracked(m, ip)

RateInv ==
    /\ cfg.rate_limit_rpm # 0 => Mirrors(request_tracker, requests)
    /\ RateVerdictsExact
    /\ RollingRateLimit

Causes(ip) == Offences(ip) \cup manual[ip]

BanInv ==
    /\ Mirrors(tls_failures, failures)
    /\ \A ip \in DOMAIN blacklist :
            \E e \in Causes(ip) : blacklist[ip] = e.at + cfg.ban_duration
    /\ \A ip \in IPs : \A e \in Causes(ip) :
            now < e.at + cfg.ban_duration =>
                ip \in DOMAIN blacklist /\ blacklist[ip] >= e.at + cfg.ban_duration

IndInv == TypeOK /\ HistoryInv /\ RateInv /\ BanInv

-----------------------------------------------------------------------------
(* Lemmas about windows and trackers.                                      *)

\* Recording an event later does not change the window of an earlier one.
LEMMA WindowOfOld ==
    ASSUME NEW S \in SUBSET Stamp, NEW n \in Stamp, NEW e \in S, e.seq < n.seq
    PROVE  WindowUpTo(S \cup {n}, e) = WindowUpTo(S, e)
BY DEF WindowUpTo, Stamp

\* The window that ends with the newest event is the fresh part of the
\* history and that event.
LEMMA WindowOfNew ==
    ASSUME NEW S \in SUBSET Stamp, NEW n \in Stamp, n.at = now,
           ROLLING_WINDOW \in Nat,
           \A e \in S : e.seq < n.seq
    PROVE  WindowUpTo(S \cup {n}, n) = Fresh(S) \cup {n}
BY DEF WindowUpTo, Fresh, Stamp

\* cleanup() leaves for each address exactly the fresh part of its history.
LEMMA RetainedIsFresh ==
    ASSUME NEW m, NEW h, Mirrors(m, h), NEW ip \in IPs
    PROVE  Tracked(Retained(m), ip) = Fresh(h[ip])
BY DEF Mirrors, Tracked, Retained, Fresh

\* A tracker rebuilt by cleanup() mirrors the same history.
LEMMA RetainedMirrors ==
    ASSUME NEW m, NEW h, Mirrors(m, h)
    PROVE  Mirrors(Retained(m), h)
BY RetainedIsFresh DEF Mirrors, Fresh

\* What a recording method puts in the tracker for its address.
LEMMA RecentIsFresh ==
    ASSUME NEW m, NEW h, Mirrors(m, h), NEW ip \in IPs
    PROVE  Fresh(Tracked(Retained(m), ip)) = Fresh(h[ip])
BY RetainedIsFresh DEF Fresh

\* cleanup() and the map operations keep the maps well typed.
LEMMA RetainedType ==
    ASSUME NEW m, IsMap(m, SUBSET Stamp)
    PROVE  IsMap(Retained(m), SUBSET Stamp)
BY DEF Retained, Fresh, IsMap

LEMMA PutType ==
    ASSUME NEW m, NEW T, IsMap(m, T), NEW ip \in IPs, NEW v \in T
    PROVE  IsMap(Put(m, ip, v), T)
BY DEF Put, IsMap

LEMMA DropType ==
    ASSUME NEW m, NEW T, IsMap(m, T), NEW ip
    PROVE  IsMap(Drop(m, ip), T)
BY DEF Drop, IsMap

LEMMA LiveBansType ==
    ASSUME TypeOK
    PROVE  IsMap(LiveBans, Nat)
BY DEF TypeOK, LiveBans, IsMap

LEMMA CfgType ==
    ASSUME TypeOK
    PROVE  cfg.ban_duration \in Nat /\ cfg.max_tls_failures \in Nat /\ cfg.rate_limit_rpm \in Nat
BY ConfigAssumption DEF TypeOK

LEMMA StampType ==
    ASSUME TypeOK
    PROVE  NewStamp \in Stamp /\ NewStamp.at = now /\ NewStamp.seq = pushes
BY BoundAssumption DEF TypeOK, NewStamp, Stamp

-----------------------------------------------------------------------------
(* Type correctness.                                                       *)

LEMMA InitType == Init => TypeOK
<1> SUFFICES ASSUME Init PROVE TypeOK
    OBVIOUS
<1>1. poisoned \in BOOLEAN
    BY Zenon DEF Init
<1> QED BY <1>1, BoundAssumption DEF Init, TypeOK, IsMap

LEMMA NextType == TypeOK /\ [Next]_vars => TypeOK'
<1> SUFFICES ASSUME TypeOK, [Next]_vars PROVE TypeOK'
    OBVIOUS
<1> USE BoundAssumption
<1>s. NewStamp \in Stamp
    BY StampType
<1>c. cfg.ban_duration \in Nat
    BY CfgType
<1>r. IsMap(Retained(tls_failures), SUBSET Stamp) /\ IsMap(Retained(request_tracker), SUBSET Stamp)
    BY RetainedType, Zenon DEF TypeOK
<1>f. \A S \in SUBSET Stamp : Fresh(S) \in SUBSET Stamp
    BY DEF Fresh
<1>1. CASE Tick
    BY <1>1 DEF Tick, TypeOK, inner, history, IsMap
<1>2. ASSUME NEW ip \in IPs, RecordTlsFailure(ip) PROVE TypeOK'
    <2> DEFINE recent == Fresh(Tracked(Retained(tls_failures), ip)) \cup {NewStamp}
    <2>1. recent \in SUBSET Stamp
        BY <1>s, <1>r, <1>f DEF Tracked, IsMap
    <2>2. IsMap(tls_failures', SUBSET Stamp)
        <3> HIDE DEF recent
        <3>1. tls_failures' = Put(Retained(tls_failures), ip, recent)
            BY <1>2 DEF RecordTlsFailure, recent
        <3> QED BY <3>1, <2>1, <1>r, PutType
    <2>3. now + cfg.ban_duration \in Nat
        BY <1>c DEF TypeOK
    <2>4. IsMap(blacklist', Nat)
        <3>1. blacklist' \in {LiveBans, Put(LiveBans, ip, now + cfg.ban_duration)}
            BY <1>2 DEF RecordTlsFailure
        <3> QED BY <3>1, <2>3, LiveBansType, PutType
    <2>5. IsMap(request_tracker', SUBSET Stamp)
        BY <1>2, <1>r DEF RecordTlsFailure
    <2>6. failures' \in [IPs -> SUBSET Stamp]
        BY <1>2, <1>s DEF RecordTlsFailure, TypeOK
    <2>7. poisoned' \in BOOLEAN
        BY <1>2, Zenon DEF RecordTlsFailure
    <2> QED BY <1>2, <2>2, <2>4, <2>5, <2>6, <2>7 DEF RecordTlsFailure, TypeOK
<1>3. ASSUME NEW ip \in IPs, CheckAndRecordRequest(ip) PROVE TypeOK'
    <2> DEFINE recent == Fresh(Tracked(Retained(request_tracker), ip)) \cup {NewStamp}
    <2>1. recent \in SUBSET Stamp
        BY <1>s, <1>r, <1>f DEF Tracked, IsMap
    <2>2. IsMap(request_tracker', SUBSET Stamp)
        <3> HIDE DEF recent
        <3>1. request_tracker' \in {Retained(request_tracker), Put(Retained(request_tracker), ip, recent)}
            BY <1>3 DEF CheckAndRecordRequest, WaveThrough, CountRequest, recent
        <3> QED BY <3>1, <2>1, <1>r, PutType
    <2>3. IsMap(blacklist', Nat)
        BY <1>3, LiveBansType DEF CheckAndRecordRequest
    <2>4. IsMap(tls_failures', SUBSET Stamp)
        BY <1>3, <1>r DEF CheckAndRecordRequest
    <2>5. requests' \in [IPs -> SUBSET Stamp] /\ admitted' \in [IPs -> SUBSET Stamp]
        BY <1>3, <1>s DEF CheckAndRecordRequest, WaveThrough, CountRequest, TypeOK
    <2> QED BY <1>3, <2>2, <2>3, <2>4, <2>5 DEF CheckAndRecordRequest, TypeOK
<1>4. ASSUME NEW ip \in IPs, IsBlacklisted(ip) PROVE TypeOK'
    <2>1. blacklist' \in {blacklist, Drop(blacklist, ip)}
        BY <1>4 DEF IsBlacklisted
    <2>2. IsMap(blacklist', Nat)
        BY <2>1, DropType DEF TypeOK
    <2> QED BY <1>4, <2>2 DEF IsBlacklisted, TypeOK, history, IsMap
<1>5. ASSUME NEW ip \in IPs, GetTlsFailureCount(ip) PROVE TypeOK'
    <2>1. IsMap(tls_failures', SUBSET Stamp)
        <3>1. CASE ip \notin DOMAIN tls_failures
            BY <1>5, <3>1 DEF GetTlsFailureCount, TypeOK
        <3>2. CASE ip \in DOMAIN tls_failures
            <4>1. Fresh(tls_failures[ip]) \in SUBSET Stamp
                BY <3>2, <1>f DEF TypeOK, IsMap
            <4>2. tls_failures' \in {Drop(tls_failures, ip), Put(tls_failures, ip, Fresh(tls_failures[ip]))}
                BY <1>5, <3>2 DEF GetTlsFailureCount
            <4> QED BY <4>1, <4>2, PutType, DropType DEF TypeOK
        <3> QED BY <3>1, <3>2
    <2> QED BY <1>5, <2>1 DEF GetTlsFailureCount, TypeOK, history, IsMap
<1>6. ASSUME NEW ip \in IPs, AddToBlacklist(ip) PROVE TypeOK'
    <2>1. now + cfg.ban_duration \in Nat
        BY <1>c DEF TypeOK
    <2>2. IsMap(blacklist', Nat)
        BY <1>6, <2>1, PutType DEF AddToBlacklist, TypeOK
    <2>3. manual' \in [IPs -> SUBSET Stamp]
        BY <1>6, <1>s DEF AddToBlacklist, TypeOK
    <2> QED BY <1>6, <2>2, <2>3 DEF AddToBlacklist, TypeOK, IsMap
<1>7. CASE UNCHANGED vars
    BY <1>7 DEF vars, inner, history, TypeOK, IsMap
<1> QED BY <1>1, <1>2, <1>3, <1>4, <1>5, <1>6, <1>7 DEF Next

\* The maps of the security manager keep their types under every interleaving
\* of its methods.
THEOREM TypeCorrectness == Spec => []TypeOK
BY InitType, NextType, PTL DEF Spec

-----------------------------------------------------------------------------
(* The histories.                                                          *)

LEMMA InitHistory == Init => HistoryInv
BY FS_EmptySet DEF Init, HistoryInv, Recorded

LEMMA NextHistory == TypeOK /\ HistoryInv /\ [Next]_vars => HistoryInv'
<1> SUFFICES ASSUME TypeOK, HistoryInv, [Next]_vars PROVE HistoryInv'
    OBVIOUS
<1> USE BoundAssumption
<1>s. NewStamp \in Stamp /\ NewStamp.at = now /\ NewStamp.seq = pushes
    BY StampType
<1>n. now \in Nat /\ pushes \in Nat
    BY DEF TypeOK
<1>e. \A ip \in IPs : \A e \in Recorded(ip) : e.at \in Nat /\ e.seq \in Nat
    BY DEF TypeOK, Recorded, Stamp
<1>a. \A S : IsFiniteSet(S) => IsFiniteSet(S \cup {NewStamp})
    BY FS_AddElement
<1>1. CASE Tick
    BY <1>1, <1>n, <1>e DEF Tick, HistoryInv, Recorded, history
<1>2. ASSUME NEW ip \in IPs, RecordTlsFailure(ip) PROVE HistoryInv'
    BY <1>2, <1>s, <1>n, <1>e, <1>a DEF RecordTlsFailure, HistoryInv, Recorded, TypeOK
<1>3. ASSUME NEW ip \in IPs, CheckAndRecordRequest(ip) PROVE HistoryInv'
    <2>1. \A i \in IPs : admitted'[i] \subseteq requests'[i]
        BY <1>3 DEF CheckAndRecordRequest, WaveThrough, CountRequest, HistoryInv, TypeOK
    <2> QED BY <1>3, <2>1, <1>s, <1>n, <1>e, <1>a DEF CheckAndRecordRequest, HistoryInv, Recorded, TypeOK
<1>4. ASSUME NEW ip \in IPs, IsBlacklisted(ip) \/ GetTlsFailureCount(ip) PROVE HistoryInv'
    BY <1>4 DEF IsBlacklisted, GetTlsFailureCount, HistoryInv, Recorded, history
<1>5. ASSUME NEW ip \in IPs, AddToBlacklist(ip) PROVE HistoryInv'
    BY <1>5, <1>s, <1>n, <1>e DEF AddToBlacklist, HistoryInv, Recorded, TypeOK
<1>6. CASE UNCHANGED vars
    BY <1>6 DEF vars, history, HistoryInv, Recorded
<1> QED BY <1>1, <1>2, <1>3, <1>4, <1>5, <1>6 DEF Next

-----------------------------------------------------------------------------
(* Trackers mirror their histories.                                        *)

\* Recording one event in the tracker and in the history keeps them together.
LEMMA RecordMirrors ==
    ASSUME NEW m, NEW h, DOMAIN h = IPs, Mirrors(m, h), NEW ip \in IPs, NEW n
    PROVE  Mirrors(Put(Retained(m), ip, Fresh(Tracked(Retained(m), ip)) \cup {n}),
                   [h EXCEPT ![ip] = @ \cup {n}])
<1> DEFINE r == Fresh(Tracked(Retained(m), ip)) \cup {n}
<1>1. r = Fresh(h[ip]) \cup {n}
    BY RecentIsFresh
<1>2. Mirrors(Retained(m), h)
    BY RetainedMirrors
<1> HIDE DEF r
<1> QED BY <1>1, <1>2 DEF Mirrors, Put, Tracked, Fresh

\* Time passing can only take events out of the window.
LEMMA TickMirrors ==
    ASSUME TypeOK, Tick, NEW m, NEW h, Mirrors(m, h),
           \A ip \in IPs : h[ip] \in SUBSET Stamp
    PROVE  \A ip \in IPs : {e \in h[ip] : now' - e.at <= ROLLING_WINDOW} \subseteq Tracked(m, ip)
BY BoundAssumption, WindowAssumption DEF Tick, Mirrors, Fresh, TypeOK, Stamp

-----------------------------------------------------------------------------
(* The rate limiter.                                                       *)

LEMMA InitRate == Init => RateInv
BY FS_EmptySet, ConfigAssumption
   DEF Init, RateInv, Mirrors, Tracked, Fresh, RateVerdictsExact, RollingRateLimit

\* The admitted requests of one address in the window that ends at t.
AdmittedIn(A, t) == {r \in A : r.at <= t /\ t - r.at <= ROLLING_WINDOW}

\* A window never holds more admitted requests than the tracker counted when
\* the newest of them was let through.
LEMMA CountKeepsRollingLimit ==
    ASSUME TypeOK, HistoryInv, RateInv, NEW ip \in IPs, CheckAndRecordRequest(ip)
    PROVE  RollingRateLimit'
<1> SUFFICES ASSUME cfg.rate_limit_rpm # 0, NEW i \in IPs, NEW t \in 0..now
             PROVE  Cardinality(AdmittedIn(admitted'[i], t)) <= cfg.rate_limit_rpm
    BY DEF RollingRateLimit, AdmittedIn, CheckAndRecordRequest
<1> USE BoundAssumption, WindowAssumption
<1>c. cfg.rate_limit_rpm \in Nat
    BY CfgType
<1>s. NewStamp \in Stamp /\ NewStamp.at = now /\ NewStamp.seq = pushes
    BY StampType
<1>o. Cardinality(AdmittedIn(admitted[i], t)) <= cfg.rate_limit_rpm
    BY DEF RateInv, RollingRateLimit, AdmittedIn
<1>1. CASE admitted'[i] = admitted[i]
    BY <1>1, <1>o
<1>2. CASE admitted'[i] # admitted[i]
    <2> DEFINE recent == Fresh(Tracked(Retained(request_tracker), i)) \cup {NewStamp}
    <2>1. /\ i = ip
          /\ admitted'[i] = admitted[i] \cup {NewStamp}
          /\ ~(Cardinality(recent) > cfg.rate_limit_rpm)
        BY <1>2, Zenon DEF CheckAndRecordRequest, WaveThrough, CountRequest, TypeOK
    <2>2. CASE t < now
        <3>1. AdmittedIn(admitted'[i], t) = AdmittedIn(admitted[i], t)
            BY <2>1, <2>2, <1>s DEF AdmittedIn, TypeOK
        <3> QED BY <3>1, <1>o
    <2>3. CASE t = now
        <3>1. recent = Fresh(requests[i]) \cup {NewStamp}
            BY RecentIsFresh DEF RateInv
        <3>2. AdmittedIn(admitted'[i], t) \subseteq recent
            BY <3>1, <2>1, <2>3 DEF AdmittedIn, Fresh, HistoryInv
        <3>3. IsFiniteSet(recent)
            <4>1. IsFiniteSet(Fresh(requests[i]))
                BY FS_Subset DEF Fresh, HistoryInv
            <4> QED BY <3>1, <4>1, FS_AddElement
        <3>4. Cardinality(AdmittedIn(admitted'[i], t)) <= Cardinality(recent)
            BY <3>2, <3>3, FS_Subset
        <3>5. Cardinality(recent) \in Nat /\ Cardinality(AdmittedIn(admitted'[i], t)) \in Nat
            BY <3>2, <3>3, FS_Subset, FS_CardinalityType
        <3> HIDE DEF recent
        <3> QED BY <3>4, <3>5, <2>1, <1>c
    <2> QED BY <2>2, <2>3 DEF TypeOK
<1> QED BY <1>1, <1>2

\* The verdict on the new request is the one the history demands, and the
\* verdicts on earlier requests keep their windows.
LEMMA CountKeepsVerdicts ==
    ASSUME TypeOK, HistoryInv, RateInv, NEW ip \in IPs, CheckAndRecordRequest(ip)
    PROVE  RateVerdictsExact'
<1> USE BoundAssumption, WindowAssumption
<1>s. NewStamp \in Stamp /\ NewStamp.at = now /\ NewStamp.seq = pushes
    BY StampType
<1>u. cfg' = cfg /\ requests' = [requests EXCEPT ![ip] = @ \cup {NewStamp}]
    BY DEF CheckAndRecordRequest
<1>h. \A i \in IPs : requests[i] \in SUBSET Stamp /\ \A e \in requests[i] : e.seq < NewStamp.seq
    BY <1>s DEF TypeOK, HistoryInv, Recorded
<1>r. DOMAIN requests = IPs /\ DOMAIN admitted = IPs
    BY DEF TypeOK
<1>a. \A i \in IPs : admitted'[i] = admitted[i] \/ (i = ip /\ admitted'[i] = admitted[i] \cup {NewStamp})
    BY <1>r DEF CheckAndRecordRequest, WaveThrough, CountRequest
<1> SUFFICES ASSUME NEW i \in IPs, NEW r \in requests'[i]
             PROVE  r \in admitted'[i] <=>
                        \/ cfg.rate_limit_rpm = 0
                        \/ Cardinality(WindowUpTo(requests'[i], r)) <= cfg.rate_limit_rpm
    BY <1>u DEF RateVerdictsExact, WindowUpTo
<1>1. CASE r \in requests[i]
    <2>1. r # NewStamp
        BY <1>1, <1>h, <1>s DEF TypeOK
    <2>2. r \in admitted'[i] <=> r \in admitted[i]
        BY <2>1, <1>a
    <2>3. WindowUpTo(requests'[i], r) = WindowUpTo(requests[i], r)
        BY <1>1, <1>u, <1>r, <1>h, <1>s, WindowOfOld
    <2> QED BY <1>1, <2>2, <2>3 DEF RateInv, RateVerdictsExact
<1>2. CASE r \notin requests[i]
    <2> DEFINE recent == Fresh(Tracked(Retained(request_tracker), ip)) \cup {NewStamp}
    <2>1. i = ip /\ r = NewStamp /\ requests'[i] = requests[i] \cup {NewStamp}
        BY <1>2, <1>u, <1>r
    <2>2. NewStamp \notin admitted[i]
        BY <1>2, <2>1 DEF HistoryInv
    <2>3. WindowUpTo(requests'[i], r) = Fresh(requests[i]) \cup {NewStamp}
        BY <2>1, <1>s, <1>h, WindowOfNew
    <2>4. CASE cfg.rate_limit_rpm = 0
        BY <2>1, <2>4, <1>r DEF CheckAndRecordRequest, WaveThrough, CountRequest
    <2>5. CASE cfg.rate_limit_rpm # 0
        <3>1. recent = WindowUpTo(requests'[i], r)
            BY <2>1, <2>3, <2>5, RecentIsFresh DEF RateInv
        <3>2. NewStamp \in admitted'[i] <=> ~(Cardinality(recent) > cfg.rate_limit_rpm)
            BY <2>1, <2>2, <2>5, <1>r DEF CheckAndRecordRequest, WaveThrough, CountRequest
        <3>3. IsFiniteSet(recent)
            <4>1. IsFiniteSet(Fresh(requests[i]))
                BY FS_Subset DEF Fresh, HistoryInv
            <4> QED BY <2>3, <3>1, <4>1, FS_AddElement
        <3>4. Cardinality(recent) \in Nat /\ cfg.rate_limit_rpm \in Nat
            BY <3>3, FS_CardinalityType, CfgType
        <3> HIDE DEF recent
        <3> QED BY <2>1, <2>5, <3>1, <3>2, <3>4
    <2> QED BY <2>4, <2>5
<1> QED BY <1>1, <1>2

LEMMA NextRate == TypeOK /\ HistoryInv /\ RateInv /\ [Next]_vars => RateInv'
<1> SUFFICES ASSUME TypeOK, HistoryInv, RateInv, [Next]_vars PROVE RateInv'
    OBVIOUS
<1> USE BoundAssumption, WindowAssumption
<1>m. cfg.rate_limit_rpm # 0 => Mirrors(request_tracker, requests)
    BY DEF RateInv
<1>k. ASSUME now' = now, cfg' = cfg, requests' = requests, admitted' = admitted,
             request_tracker' \in {request_tracker, Retained(request_tracker)}
      PROVE  RateInv'
    <2>1. cfg'.rate_limit_rpm # 0 => Mirrors(request_tracker', requests)
        BY <1>k, <1>m, RetainedMirrors
    <2>2. (cfg.rate_limit_rpm # 0 => Mirrors(request_tracker, requests))'
        BY <1>k, <2>1 DEF Mirrors, Tracked, Fresh
    <2> QED BY <1>k, <2>2 DEF RateInv, RateVerdictsExact, RollingRateLimit, WindowUpTo
<1>1. CASE Tick
    <2>1. cfg' = cfg /\ now' = now + 1 /\ UNCHANGED <<requests, admitted, request_tracker>>
        BY <1>1 DEF Tick, inner, history
    <2>2. RateVerdictsExact'
        BY <2>1 DEF RateInv, RateVerdictsExact, WindowUpTo
    <2>3. (cfg.rate_limit_rpm # 0 => Mirrors(request_tracker, requests))'
        <3> SUFFICES ASSUME cfg.rate_limit_rpm # 0 PROVE Mirrors(request_tracker, requests)'
            BY <2>1
        <3>1. \A ip \in IPs : {e \in requests[ip] : now' - e.at <= ROLLING_WINDOW} \subseteq Tracked(request_tracker, ip)
            BY <1>1, <1>m, TickMirrors DEF TypeOK
        <3> QED BY <2>1, <3>1, <1>m DEF Mirrors, Tracked, Fresh
    <2>4. RollingRateLimit'
        <3> SUFFICES ASSUME cfg.rate_limit_rpm # 0, NEW i \in IPs, NEW t \in 0..(now + 1)
                     PROVE  Cardinality(AdmittedIn(admitted[i], t)) <= cfg.rate_limit_rpm
            BY <2>1 DEF RollingRateLimit, AdmittedIn
        <3>o. \A u \in 0..now : Cardinality(AdmittedIn(admitted[i], u)) <= cfg.rate_limit_rpm
            BY DEF RateInv, RollingRateLimit, AdmittedIn
        <3>1. CASE t \in 0..now
            BY <3>1, <3>o
        <3>2. CASE t = now + 1
            <4>1. AdmittedIn(admitted[i], t) \subseteq AdmittedIn(admitted[i], now)
                BY <3>2 DEF AdmittedIn, HistoryInv, Recorded, TypeOK, Stamp
            <4>2. IsFiniteSet(AdmittedIn(admitted[i], now))
                <5>1. AdmittedIn(admitted[i], now) \subseteq requests[i] /\ IsFiniteSet(requests[i])
                    BY DEF AdmittedIn, HistoryInv
                <5> QED BY <5>1, FS_Subset
            <4>3. /\ Cardinality(AdmittedIn(admitted[i], t)) <= Cardinality(AdmittedIn(admitted[i], now))
                  /\ Cardinality(AdmittedIn(admitted[i], now)) \in Nat
                  /\ Cardinality(AdmittedIn(admitted[i], t)) \in Nat
                BY <4>1, <4>2, FS_Subset, FS_CardinalityType
            <4>4. now \in 0..now /\ cfg.rate_limit_rpm \in Nat
                BY CfgType DEF TypeOK
            <4>5. Cardinality(AdmittedIn(admitted[i], now)) <= cfg.rate_limit_rpm
                BY <3>o, <4>4
            <4> QED BY <4>3, <4>4, <4>5
        <3> QED BY <3>1, <3>2 DEF TypeOK
    <2> QED BY <2>2, <2>3, <2>4 DEF RateInv
<1>2. ASSUME NEW ip \in IPs, CheckAndRecordRequest(ip) PROVE RateInv'
    <2>1. RollingRateLimit' /\ RateVerdictsExact'
        BY <1>2, CountKeepsRollingLimit, CountKeepsVerdicts
    <2>2. (cfg.rate_limit_rpm # 0 => Mirrors(request_tracker, requests))'
        <3> SUFFICES ASSUME cfg.rate_limit_rpm # 0 PROVE Mirrors(request_tracker, requests)'
            BY <1>2 DEF CheckAndRecordRequest
        <3>1. DOMAIN requests = IPs
            BY DEF TypeOK
        <3>2. /\ requests' = [requests EXCEPT ![ip] = @ \cup {NewStamp}]
              /\ request_tracker' = Put(Retained(request_tracker), ip,
                                        Fresh(Tracked(Retained(request_tracker), ip)) \cup {NewStamp})
              /\ now' = now
            BY <1>2 DEF CheckAndRecordRequest, WaveThrough, CountRequest
        <3>3. Mirrors(request_tracker', requests')
            BY <3>1, <3>2, <1>m, RecordMirrors, Zenon
        <3> QED BY <3>2, <3>3 DEF Mirrors, Tracked, Fresh
    <2> QED BY <2>1, <2>2 DEF RateInv
<1>3. ASSUME NEW ip \in IPs,
             \/ RecordTlsFailure(ip) \/ IsBlacklisted(ip)
             \/ GetTlsFailureCount(ip) \/ AddToBlacklist(ip)
      PROVE  RateInv'
    BY <1>3, <1>k DEF RecordTlsFailure, IsBlacklisted, GetTlsFailureCount, AddToBlacklist, history
<1>4. CASE UNCHANGED vars
    BY <1>4, <1>k DEF vars, inner, history
<1> QED BY <1>1, <1>2, <1>3, <1>4 DEF Next

-----------------------------------------------------------------------------
(* The ban list.                                                           *)

LEMMA InitBan == Init => BanInv
BY DEF Init, BanInv, Mirrors, Tracked, Fresh, Causes, Offences

\* A failure leaves the verdict on the earlier failures as it was, and is an
\* offence itself exactly when the tracker counts too many.
LEMMA OffencesAfterFailure ==
    ASSUME TypeOK, HistoryInv, BanInv, NEW ip \in IPs, RecordTlsFailure(ip)
    PROVE  LET recent == Fresh(Tracked(Retained(tls_failures), ip)) \cup {NewStamp} IN
           /\ \A i \in IPs \ {ip} : Offences(i)' = Offences(i)
           /\ Offences(ip)' = Offences(ip) \cup
                 (IF Cardinality(recent) > cfg.max_tls_failures THEN {NewStamp} ELSE {})
<1> USE BoundAssumption, WindowAssumption
<1> DEFINE recent == Fresh(Tracked(Retained(tls_failures), ip)) \cup {NewStamp}
<1>s. NewStamp \in Stamp /\ NewStamp.at = now /\ NewStamp.seq = pushes
    BY StampType
<1>u. cfg' = cfg /\ failures' = [failures EXCEPT ![ip] = @ \cup {NewStamp}]
    BY DEF RecordTlsFailure
<1>h. \A i \in IPs : failures[i] \in SUBSET Stamp /\ \A e \in failures[i] : e.seq < NewStamp.seq
    BY <1>s DEF TypeOK, HistoryInv, Recorded
<1>r. DOMAIN failures = IPs
    BY DEF TypeOK
<1>1. \A i \in IPs \ {ip} : Offences(i)' = Offences(i)
    BY <1>u, <1>r DEF Offences, WindowUpTo
<1>2. failures'[ip] = failures[ip] \cup {NewStamp} /\ NewStamp \notin failures[ip]
    BY <1>u, <1>r, <1>h, <1>s DEF TypeOK
<1>3. \A f \in failures[ip] : WindowUpTo(failures'[ip], f) = WindowUpTo(failures[ip], f)
    BY <1>2, <1>h, <1>s, WindowOfOld
<1>4. WindowUpTo(failures'[ip], NewStamp) = recent
    <2>1. WindowUpTo(failures[ip] \cup {NewStamp}, NewStamp) = Fresh(failures[ip]) \cup {NewStamp}
        BY <1>h, <1>s, WindowOfNew
    <2> QED BY <1>2, <2>1, RecentIsFresh, Zenon DEF BanInv
<1>5. Offences(ip)' = {f \in failures'[ip] :
            Cardinality(WindowUpTo(failures'[ip], f)) > cfg.max_tls_failures}
    BY <1>u DEF Offences, WindowUpTo
<1> HIDE DEF recent
<1>6. Offences(ip)' = Offences(ip) \cup
          (IF Cardinality(recent) > cfg.max_tls_failures THEN {NewStamp} ELSE {})
    BY <1>2, <1>3, <1>4, <1>5 DEF Offences
<1> QED BY <1>1, <1>6 DEF recent

\* Every ban on the list has a cause, and every cause that has not run out has
\* a ban at least as long.
BansCaused(b, C) == \A ip \in DOMAIN b : \E e \in C[ip] : b[ip] = e.at + cfg.ban_duration
CausesBanned(b, C) ==
    \A ip \in IPs : \A e \in C[ip] :
        now < e.at + cfg.ban_duration => ip \in DOMAIN b /\ b[ip] >= e.at + cfg.ban_duration

AllCauses == [ip \in IPs |-> Causes(ip)]

LEMMA BanInvSplit ==
    ASSUME TypeOK
    PROVE  BanInv <=> /\ Mirrors(tls_failures, failures)
                      /\ BansCaused(blacklist, AllCauses)
                      /\ CausesBanned(blacklist, AllCauses)
BY Zenon DEF BanInv, BansCaused, CausesBanned, AllCauses, TypeOK, IsMap

LEMMA CauseType ==
    ASSUME TypeOK, HistoryInv, NEW ip \in IPs, NEW e \in AllCauses[ip]
    PROVE  e \in Stamp /\ e.at \in Nat /\ e.at <= now
BY DEF TypeOK, HistoryInv, Recorded, AllCauses, Causes, Offences, Stamp

\* Dropping ended bans loses nothing.
LEMMA LiveBansKeep ==
    ASSUME TypeOK, HistoryInv,
           BansCaused(blacklist, AllCauses), CausesBanned(blacklist, AllCauses)
    PROVE  BansCaused(LiveBans, AllCauses) /\ CausesBanned(LiveBans, AllCauses)
<1>1. \A ip \in IPs : \A e \in AllCauses[ip] : e.at + cfg.ban_duration \in Nat
    BY CauseType, CfgType
<1>2. now \in Nat /\ \A ip \in DOMAIN blacklist : blacklist[ip] \in Nat
    BY BoundAssumption DEF TypeOK, IsMap
<1> QED BY <1>1, <1>2 DEF BansCaused, CausesBanned, LiveBans

\* A ban starting now outlasts every other cause.
LEMMA NewBanKeeps ==
    ASSUME TypeOK, HistoryInv, NEW b, IsMap(b, Nat),
           BansCaused(b, AllCauses), CausesBanned(b, AllCauses), NEW ip \in IPs
    PROVE  LET C == [AllCauses EXCEPT ![ip] = @ \cup {NewStamp}]
               p == Put(b, ip, now + cfg.ban_duration)
           IN  BansCaused(p, C) /\ CausesBanned(p, C)
<1>1. \A i \in IPs : \A e \in AllCauses[i] : e.at \in Nat /\ e.at <= now
    BY CauseType
<1>2. now \in Nat /\ cfg.ban_duration \in Nat /\ NewStamp.at = now
    BY BoundAssumption, CfgType, StampType DEF TypeOK
<1>3. DOMAIN AllCauses = IPs /\ DOMAIN b \subseteq IPs
    BY DEF AllCauses, IsMap
<1> QED BY <1>1, <1>2, <1>3 DEF BansCaused, CausesBanned, Put

LEMMA NextBan == TypeOK /\ HistoryInv /\ BanInv /\ [Next]_vars => BanInv'
<1> SUFFICES ASSUME TypeOK, HistoryInv, BanInv, [Next]_vars PROVE BanInv'
    OBVIOUS
<1> USE BoundAssumption, WindowAssumption
<1>i. /\ Mirrors(tls_failures, failures)
      /\ BansCaused(blacklist, AllCauses)
      /\ CausesBanned(blacklist, AllCauses)
    BY BanInvSplit
<1>t. TypeOK'
    BY NextType
<1>l. BansCaused(LiveBans, AllCauses) /\ CausesBanned(LiveBans, AllCauses)
    BY <1>i, LiveBansKeep
<1>q. ASSUME now' = now, cfg' = cfg,
             Mirrors(tls_failures', failures'),
             BansCaused(blacklist', AllCauses'), CausesBanned(blacklist', AllCauses')
      PROVE  BanInv'
    <2>1. Mirrors(tls_failures, failures)'
        BY <1>q DEF Mirrors, Tracked, Fresh
    <2>2. BansCaused(blacklist, AllCauses)' /\ CausesBanned(blacklist, AllCauses)'
        BY <1>q DEF BansCaused, CausesBanned
    <2> QED BY <2>1, <2>2, <1>t, BanInvSplit, PTL
<1>u. ASSUME cfg' = cfg, failures' = failures, manual' = manual
      PROVE  AllCauses' = AllCauses
    BY <1>u DEF AllCauses, Causes, Offences, WindowUpTo
<1>1. CASE Tick
    <2>1. cfg' = cfg /\ now' = now + 1 /\ UNCHANGED <<failures, manual, tls_failures, blacklist>>
        BY <1>1 DEF Tick, inner, history
    <2>2. \A ip \in IPs : {e \in failures[ip] : now' - e.at <= ROLLING_WINDOW} \subseteq Tracked(tls_failures, ip)
        BY <1>1, <1>i, TickMirrors DEF TypeOK
    <2>3. Mirrors(tls_failures, failures)'
        BY <2>1, <2>2, <1>i DEF Mirrors, Tracked, Fresh
    <2>4. BansCaused(blacklist, AllCauses)'
        BY <2>1, <1>u, <1>i DEF BansCaused
    <2>5. CausesBanned(blacklist, AllCauses)'
        <3>1. \A ip \in IPs : \A e \in AllCauses[ip] : e.at + cfg.ban_duration \in Nat
            BY CauseType, CfgType
        <3>2. now \in Nat
            BY DEF TypeOK
        <3> QED BY <2>1, <3>1, <3>2, <1>u, <1>i DEF CausesBanned
    <2> QED BY <2>3, <2>4, <2>5, <1>t, BanInvSplit, PTL
<1>2. ASSUME NEW ip \in IPs, RecordTlsFailure(ip) PROVE BanInv'
    <2> DEFINE recent == Fresh(Tracked(Retained(tls_failures), ip)) \cup {NewStamp}
    <2>1. /\ now' = now /\ cfg' = cfg /\ manual' = manual
          /\ failures' = [failures EXCEPT ![ip] = @ \cup {NewStamp}]
          /\ tls_failures' = Put(Retained(tls_failures), ip, recent)
          /\ blacklist' = IF Cardinality(recent) > cfg.max_tls_failures
                          THEN Put(LiveBans, ip, now + cfg.ban_duration) ELSE LiveBans
        BY <1>2 DEF RecordTlsFailure
    <2>2. Mirrors(tls_failures', failures')
        BY <2>1, <1>i, RecordMirrors, Zenon DEF TypeOK
    <2>3. /\ \A i \in IPs \ {ip} : Offences(i)' = Offences(i)
          /\ Offences(ip)' = Offences(ip) \cup
                (IF Cardinality(recent) > cfg.max_tls_failures THEN {NewStamp} ELSE {})
        BY <1>2, OffencesAfterFailure
    <2> HIDE DEF recent
    <2>4. CASE Cardinality(recent) > cfg.max_tls_failures
        <3>1. AllCauses' = [AllCauses EXCEPT ![ip] = @ \cup {NewStamp}]
            BY <2>1, <2>3, <2>4, Zenon DEF AllCauses, Causes
        <3>2. BansCaused(blacklist', AllCauses') /\ CausesBanned(blacklist', AllCauses')
            BY <2>1, <2>4, <3>1, <1>l, NewBanKeeps, LiveBansType, Zenon
        <3> QED BY <2>1, <2>2, <3>2, <1>q
    <2>5. CASE ~(Cardinality(recent) > cfg.max_tls_failures)
        <3>1. AllCauses' = AllCauses
            BY <2>1, <2>3, <2>5 DEF AllCauses, Causes
        <3> QED BY <2>1, <2>2, <2>5, <3>1, <1>l, <1>q
    <2> QED BY <2>4, <2>5
<1>3. ASSUME NEW ip \in IPs, CheckAndRecordRequest(ip) PROVE BanInv'
    <2>1. /\ now' = now /\ cfg' = cfg /\ failures' = failures /\ manual' = manual
          /\ tls_failures' = Retained(tls_failures) /\ blacklist' = LiveBans
        BY <1>3 DEF CheckAndRecordRequest
    <2>2. Mirrors(tls_failures', failures')
        BY <2>1, <1>i, RetainedMirrors
    <2> QED BY <2>1, <2>2, <1>u, <1>l, <1>q
<1>4. ASSUME NEW ip \in IPs, IsBlacklisted(ip) PROVE BanInv'
    <2>1. now' = now /\ cfg' = cfg /\ UNCHANGED <<failures, manual, tls_failures>>
        BY <1>4 DEF IsBlacklisted, history
    <2>2. BansCaused(blacklist', AllCauses) /\ CausesBanned(blacklist', AllCauses)
        <3>1. \A i \in IPs : \A e \in AllCauses[i] : e.at + cfg.ban_duration \in Nat
            BY CauseType, CfgType
        <3>2. now \in Nat /\ IsMap(blacklist, Nat)
            BY DEF TypeOK
        <3> QED BY <1>4, <1>i, <3>1, <3>2 DEF IsBlacklisted, Banned, Drop, BansCaused, CausesBanned, IsMap
    <2> QED BY <2>1, <2>2, <1>i, <1>u, <1>q
<1>5. ASSUME NEW ip \in IPs, GetTlsFailureCount(ip) PROVE BanInv'
    <2>1. now' = now /\ cfg' = cfg /\ UNCHANGED <<failures, manual, blacklist>>
        BY <1>5 DEF GetTlsFailureCount, history
    <2>2. Mirrors(tls_failures', failures')
        BY <1>5, <1>i, <2>1 DEF GetTlsFailureCount, Mirrors, Tracked, Put, Drop, Fresh
    <2> QED BY <2>1, <2>2, <1>i, <1>u, <1>q
<1>6. ASSUME NEW ip \in IPs, AddToBlacklist(ip) PROVE BanInv'
    <2>1. /\ now' = now /\ cfg' = cfg /\ UNCHANGED <<failures, tls_failures>>
          /\ manual' = [manual EXCEPT ![ip] = @ \cup {NewStamp}]
          /\ blacklist' = Put(blacklist, ip, now + cfg.ban_duration)
        BY <1>6 DEF AddToBlacklist
    <2>2. AllCauses' = [AllCauses EXCEPT ![ip] = @ \cup {NewStamp}]
        BY <2>1, Zenon DEF AllCauses, Causes, Offences, WindowUpTo, TypeOK
    <2>3. BansCaused(blacklist', AllCauses') /\ CausesBanned(blacklist', AllCauses')
        BY <2>1, <2>2, <1>i, NewBanKeeps, Zenon DEF TypeOK
    <2> QED BY <2>1, <2>3, <1>i, <1>q
<1>7. CASE UNCHANGED vars
    BY <1>7, <1>i, <1>u, <1>q DEF vars, inner, history
<1> QED BY <1>1, <1>2, <1>3, <1>4, <1>5, <1>6, <1>7 DEF Next

-----------------------------------------------------------------------------
(* Theorems.                                                               *)

\* The strengthened invariant is inductive.
THEOREM Invariance == Spec => []IndInv
<1>1. Init => IndInv
    BY InitType, InitHistory, InitRate, InitBan DEF IndInv
<1>2. IndInv /\ [Next]_vars => IndInv'
    BY NextType, NextHistory, NextRate, NextBan DEF IndInv
<1> QED BY <1>1, <1>2, PTL DEF Spec

\* check_and_record_request decides as if no timestamp were ever thrown away.
THEOREM RateLimiterExact == Spec => []RateVerdictsExact
<1>1. IndInv => RateVerdictsExact
    BY DEF IndInv, RateInv
<1> QED BY <1>1, Invariance, PTL

\* No rolling window holds more admitted requests of an address than its limit.
THEOREM RollingLimitHolds == Spec => []RollingRateLimit
<1>1. IndInv => RollingRateLimit
    BY DEF IndInv, RateInv
<1> QED BY <1>1, Invariance, PTL

\* is_blacklisted answers yes exactly while an offence or a manual ban lasts.
THEOREM BansExact == Spec => []BanVerdictsExact
<1>1. IndInv => BanVerdictsExact
    <2> SUFFICES ASSUME IndInv, NEW ip \in IPs
                 PROVE  Banned(ip) <=> \E e \in Causes(ip) : now < e.at + cfg.ban_duration
        BY DEF BanVerdictsExact, Causes
    <2>1. TypeOK /\ HistoryInv /\ BanInv
        BY DEF IndInv
    <2>2. \A e \in Causes(ip) : e.at + cfg.ban_duration \in Nat
        BY <2>1, CauseType, CfgType DEF AllCauses
    <2>3. now \in Nat /\ IsMap(blacklist, Nat)
        BY <2>1, BoundAssumption DEF TypeOK
    <2> QED BY <2>1, <2>2, <2>3 DEF BanInv, Banned, IsMap
<1> QED BY <1>1, Invariance, PTL

\* No method ends or shortens a ban that is still running.
THEOREM BansOnlyGrow == Spec => BansNeverShorten
<1> DEFINE Grows == \A ip \in IPs : Banned(ip) /\ now' < blacklist[ip] =>
                        ip \in DOMAIN blacklist' /\ blacklist'[ip] >= blacklist[ip]
<1>1. IndInv /\ [Next]_vars => [Grows]_vars
    <2> SUFFICES ASSUME IndInv, Next, NEW i \in IPs, Banned(i), now' < blacklist[i]
                 PROVE  i \in DOMAIN blacklist' /\ blacklist'[i] >= blacklist[i]
        OBVIOUS
    <2>1. TypeOK /\ HistoryInv /\ BanInv
        BY DEF IndInv
    <2>2. i \in DOMAIN blacklist /\ now < blacklist[i] /\ blacklist[i] \in Nat
        BY <2>1 DEF Banned, TypeOK, IsMap
    <2>3. blacklist[i] <= now + cfg.ban_duration
        <3>1. PICK e \in Causes(i) : blacklist[i] = e.at + cfg.ban_duration
            BY <2>1, <2>2 DEF BanInv
        <3>2. e.at \in Nat /\ e.at <= now /\ now \in Nat /\ cfg.ban_duration \in Nat
            BY <2>1, <3>1, CauseType, CfgType, BoundAssumption DEF AllCauses, TypeOK
        <3> QED BY <3>1, <3>2
    <2>4. i \in DOMAIN LiveBans /\ LiveBans[i] = blacklist[i]
        BY <2>2 DEF LiveBans
    <2>5. blacklist' \in {blacklist, LiveBans}
          \/ \E ip \in IPs : \/ blacklist' = Drop(blacklist, ip) /\ ~Banned(ip)
                             \/ blacklist' = Put(blacklist, ip, now + cfg.ban_duration)
                             \/ blacklist' = Put(LiveBans, ip, now + cfg.ban_duration)
        BY Zenon DEF Next, Tick, RecordTlsFailure, CheckAndRecordRequest, IsBlacklisted,
               GetTlsFailureCount, AddToBlacklist, inner
    <2>6. ASSUME NEW ip \in IPs, NEW b \in {blacklist, LiveBans},
                 blacklist' = Put(b, ip, now + cfg.ban_duration)
          PROVE  i \in DOMAIN blacklist' /\ blacklist'[i] >= blacklist[i]
        BY <2>2, <2>3, <2>4, <2>6 DEF Put
    <2>7. ASSUME NEW ip \in IPs, blacklist' = Drop(blacklist, ip), ~Banned(ip)
          PROVE  i \in DOMAIN blacklist' /\ blacklist'[i] >= blacklist[i]
        BY <2>2, <2>7 DEF Drop
    <2>8. CASE blacklist' \in {blacklist, LiveBans}
        BY <2>2, <2>4, <2>8
    <2> QED BY <2>5, <2>6, <2>7, <2>8
<1>2. Spec => [][Grows]_vars
    BY <1>1, Invariance, PTL DEF Spec
<1> QED BY <1>2 DEF BansNeverShorten
=============================================================================
