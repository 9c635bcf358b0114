--------------------------- MODULE SecurityManager ---------------------------
(***************************************************************************)
(* src/security.rs: the per-IP rate limiter, the TLS-failure counter and   *)
(* the ban list that every worker shares.  All three maps live behind one  *)
(* Mutex and every method reads the clock after it has taken the lock, so  *)
(* a method is one atomic step at one instant.                             *)
(*                                                                         *)
(* A Vec<Instant> is only ever filtered, pushed to and counted.  It is     *)
(* modelled as a set of stamps; `seq' numbers the pushes, so that two      *)
(* pushes at the same instant stay two elements.                           *)
(*                                                                         *)
(* The first offence of an address is logged under the lock, and println!  *)
(* panics when stdout is gone.  That poisons the mutex: from then on every *)
(* method panics at lock().expect, in the task of its caller, and the      *)
(* maps stay as they are.                                                  *)
(***************************************************************************)
EXTENDS Integers, FiniteSets

CONSTANTS
    IPs,                \* client addresses
    Configs,            \* the settings a manager may be built with
    ROLLING_WINDOW,     \* length of the rolling window
    StdoutMayFail,      \* can println! panic?
    MaxTime,            \* bound: the clock stops here
    MaxPushes           \* bound: recorded requests, failures and manual bans

ASSUME WindowAssumption == ROLLING_WINDOW \in Nat
ASSUME StdoutAssumption == StdoutMayFail \in BOOLEAN
ASSUME BoundAssumption == MaxTime \in Nat /\ MaxPushes \in Nat
ASSUME ConfigAssumption ==
    Configs \subseteq [ban_duration : Nat, max_tls_failures : Nat, rate_limit_rpm : Nat]

VARIABLES
    now,                \* Instant::now()
    cfg,                \* the three settings fixed when the manager is built
    blacklist,          \* ip -> instant the ban ends
    tls_failures,       \* ip -> stamps of recent failures
    request_tracker,    \* ip -> stamps of recent requests
    poisoned,           \* a method has panicked with the lock held
    pushes,             \* number of the next recorded event
    \* What really happened, never forgotten; no action reads these.
    requests,           \* [ip -> every request counted or waved through]
    admitted,           \* [ip -> the requests answered Ok]
    failures,           \* [ip -> every TLS failure]
    manual              \* [ip -> every call of add_to_blacklist]

inner   == <<blacklist, tls_failures, request_tracker>>
history == <<requests, admitted, failures, manual>>
vars    == <<now, cfg, inner, poisoned, pushes, history>>

Stamp == [at : Nat, seq : Nat]

-----------------------------------------------------------------------------
\* HashMap<IpAddr, T>: type, insert, remove, get-or-empty.
IsMap(m, T) == DOMAIN m \subseteq IPs /\ m \in [DOMAIN m -> T]
Put(m, k, v) == [x \in DOMAIN m \cup {k} |-> IF x = k THEN v ELSE m[x]]
Drop(m, k)   == [x \in DOMAIN m \ {k} |-> m[x]]
Tracked(m, ip) == IF ip \in DOMAIN m THEN m[ip] ELSE {}

\* Mutant: the window is half open.
FreshStrict(S) == {e \in S : now - e.at < ROLLING_WINDOW}

\* retain(|t| now.duration_since(*t) <= ROLLING_WINDOW)
Fresh(S) == {e \in S : now - e.at <= ROLLING_WINDOW}

\* Mutant: entries whose stamps have all expired stay.
RetainedWithEmpty(m) == [ip \in DOMAIN m |-> Fresh(m[ip])]

\* cleanup() on one tracker: old stamps go, then entries without stamps.
Retained(m) == [ip \in {i \in DOMAIN m : Fresh(m[i]) # {}} |-> Fresh(m[ip])]

\* cleanup() on the ban list: bans that have ended go.
LiveBans == [ip \in {i \in DOMAIN blacklist : now < blacklist[i]} |-> blacklist[ip]]

Init ==
    /\ now = 0
    /\ cfg \in Configs
    /\ blacklist = [ip \in {} |-> 0]
    /\ tls_failures = [ip \in {} |-> {}]
    /\ request_tracker = [ip \in {} |-> {}]
    /\ poisoned = FALSE
    /\ pushes = 0
    /\ requests = [ip \in IPs |-> {}]
    /\ admitted = [ip \in IPs |-> {}]
    /\ failures = [ip \in IPs |-> {}]
    /\ manual = [ip \in IPs |-> {}]

Tick ==
    /\ now < MaxTime
    /\ now' = now + 1
    /\ UNCHANGED <<cfg, inner, poisoned, pushes, history>>

NewStamp == [at |-> now, seq |-> pushes]

\* Mutant: the offence is logged before the ban is put on the list.
RecordLogsFirst(ip) ==
    LET recent == Fresh(Tracked(Retained(tls_failures), ip)) \cup {NewStamp}
        offence == Cardinality(recent) > cfg.max_tls_failures
    IN
    /\ ~poisoned /\ pushes < MaxPushes
    /\ pushes' = pushes + 1
    /\ tls_failures' = Put(Retained(tls_failures), ip, recent)
    /\ request_tracker' = Retained(request_tracker)
    /\ poisoned' \in IF StdoutMayFail /\ offence /\ ip \notin DOMAIN LiveBans THEN BOOLEAN ELSE {FALSE}
    /\ blacklist' = IF offence /\ ~poisoned' THEN Put(LiveBans, ip, now + cfg.ban_duration) ELSE LiveBans
    /\ failures' = [failures EXCEPT ![ip] = @ \cup {NewStamp}]
    /\ UNCHANGED <<now, cfg, requests, admitted, manual>>

\* The ban is put on the list first; only one that is not running yet is logged.
RecordTlsFailure(ip) ==
    LET recent == Fresh(Tracked(Retained(tls_failures), ip)) \cup {NewStamp}
        offence == Cardinality(recent) > cfg.max_tls_failures
    IN
    /\ ~poisoned /\ pushes < MaxPushes
    /\ pushes' = pushes + 1
    /\ tls_failures' = Put(Retained(tls_failures), ip, recent)
    /\ request_tracker' = Retained(request_tracker)
    /\ blacklist' = IF offence THEN Put(LiveBans, ip, now + cfg.ban_duration) ELSE LiveBans
    /\ poisoned' \in IF StdoutMayFail /\ offence /\ ip \notin DOMAIN LiveBans THEN BOOLEAN ELSE {FALSE}
    /\ failures' = [failures EXCEPT ![ip] = @ \cup {NewStamp}]
    /\ UNCHANGED <<now, cfg, requests, admitted, manual>>

\* check_and_record_request when rate_limit_rpm is 0: Ok(0), nothing recorded.
WaveThrough(ip) ==
    /\ cfg.rate_limit_rpm = 0
    /\ request_tracker' = Retained(request_tracker)
    /\ admitted' = [admitted EXCEPT ![ip] = @ \cup {NewStamp}]

\* Mutant: the count is taken before the push.
CountBeforePush(ip) ==
    LET recent == Fresh(Tracked(Retained(request_tracker), ip)) IN
    /\ cfg.rate_limit_rpm # 0
    /\ request_tracker' = Put(Retained(request_tracker), ip, recent \cup {NewStamp})
    /\ admitted' = IF Cardinality(recent) > cfg.rate_limit_rpm
                   THEN admitted
                   ELSE [admitted EXCEPT ![ip] = @ \cup {NewStamp}]

\* check_and_record_request otherwise: the request is recorded even when it is
\* then refused.
CountRequest(ip) ==
    LET recent == Fresh(Tracked(Retained(request_tracker), ip)) \cup {NewStamp} IN
    /\ cfg.rate_limit_rpm # 0
    /\ request_tracker' = Put(Retained(request_tracker), ip, recent)
    /\ admitted' = IF Cardinality(recent) > cfg.rate_limit_rpm
                   THEN admitted
                   ELSE [admitted EXCEPT ![ip] = @ \cup {NewStamp}]

CheckAndRecordRequest(ip) ==
    /\ ~poisoned /\ pushes < MaxPushes
    /\ pushes' = pushes + 1
    /\ WaveThrough(ip) \/ CountRequest(ip)
    /\ tls_failures' = Retained(tls_failures)
    /\ blacklist' = LiveBans
    /\ requests' = [requests EXCEPT ![ip] = @ \cup {NewStamp}]
    /\ UNCHANGED <<now, cfg, poisoned, failures, manual>>

\* What is_blacklisted answers.
Banned(ip) == ip \in DOMAIN blacklist /\ now < blacklist[ip]

\* Mutant: the lookup takes the ban off the list whether or not it has ended.
IsBlacklistedForgets(ip) ==
    /\ ~poisoned
    /\ blacklist' = Drop(blacklist, ip)
    /\ UNCHANGED <<now, cfg, tls_failures, request_tracker, poisoned, pushes, history>>

\* is_blacklisted forgets the ban it finds ended.
IsBlacklisted(ip) ==
    /\ ~poisoned
    /\ blacklist' = IF ip \in DOMAIN blacklist /\ ~Banned(ip)
                    THEN Drop(blacklist, ip) ELSE blacklist
    /\ UNCHANGED <<now, cfg, tls_failures, request_tracker, poisoned, pushes, history>>

\* get_tls_failure_count forgets old failures of that one address.
GetTlsFailureCount(ip) ==
    /\ ~poisoned
    /\ tls_failures' =
         IF ip \notin DOMAIN tls_failures THEN tls_failures
         ELSE IF Fresh(tls_failures[ip]) = {} THEN Drop(tls_failures, ip)
         ELSE Put(tls_failures, ip, Fresh(tls_failures[ip]))
    /\ UNCHANGED <<now, cfg, blacklist, request_tracker, poisoned, pushes, history>>

\* Mutant: the ban is dated back instead of forward.
AddBackdated(ip) ==
    /\ ~poisoned /\ pushes < MaxPushes
    /\ pushes' = pushes + 1
    /\ blacklist' = Put(blacklist, ip, now - cfg.ban_duration)
    /\ manual' = [manual EXCEPT ![ip] = @ \cup {NewStamp}]
    /\ UNCHANGED <<now, cfg, tls_failures, request_tracker, poisoned, requests, admitted, failures>>

AddToBlacklist(ip) ==
    /\ ~poisoned /\ pushes < MaxPushes
    /\ pushes' = pushes + 1
    /\ blacklist' = Put(blacklist, ip, now + cfg.ban_duration)
    /\ manual' = [manual EXCEPT ![ip] = @ \cup {NewStamp}]
    /\ UNCHANGED <<now, cfg, tls_failures, request_tracker, poisoned, requests, admitted, failures>>

Next ==
    \/ Tick
    \/ \E ip \in IPs :
        \/ RecordTlsFailure(ip)
        \/ CheckAndRecordRequest(ip)
        \/ IsBlacklisted(ip)
        \/ GetTlsFailureCount(ip)
        \/ AddToBlacklist(ip)

Spec == Init /\ [][Next]_vars

-----------------------------------------------------------------------------
(* Properties.                                                             *)

\* The types of the maps, the clock and the histories.
TypeOK ==
    /\ now \in 0..MaxTime
    /\ pushes \in 0..MaxPushes
    /\ cfg \in Configs
    /\ poisoned \in BOOLEAN
    /\ IsMap(blacklist, Nat)
    /\ IsMap(tls_failures, SUBSET Stamp)
    /\ IsMap(request_tracker, SUBSET Stamp)
    /\ requests \in [IPs -> SUBSET Stamp]
    /\ admitted \in [IPs -> SUBSET Stamp]
    /\ failures \in [IPs -> SUBSET Stamp]
    /\ manual \in [IPs -> SUBSET Stamp]

\* The events of S in the window that ends with event e.
WindowUpTo(S, e) == {q \in S : q.seq <= e.seq /\ e.at - q.at <= ROLLING_WINDOW}

\* What check_and_record_request answers, with the stamps it has thrown away,
\* is what a limiter that never forgets a request would answer: a request is
\* let through exactly when it and its predecessors in the window are within
\* rate_limit_rpm (refused requests count, and 0 switches the limiter off).
RateVerdictsExact ==
    \A ip \in IPs : \A r \in requests[ip] :
        r \in admitted[ip] <=>
            \/ cfg.rate_limit_rpm = 0
            \/ Cardinality(WindowUpTo(requests[ip], r)) <= cfg.rate_limit_rpm

\* No rolling window, wherever it is placed, holds more than rate_limit_rpm
\* admitted requests of one address.
RollingRateLimit ==
    cfg.rate_limit_rpm # 0 =>
        \A ip \in IPs, t \in 0..now :
            Cardinality({r \in admitted[ip] : r.at <= t /\ t - r.at <= ROLLING_WINDOW})
                <= cfg.rate_limit_rpm

\* The failures that must have brought on a ban: with the ones before it in
\* its window each exceeds max_tls_failures.
Offences(ip) ==
    {f \in failures[ip] :
        Cardinality(WindowUpTo(failures[ip], f)) > cfg.max_tls_failures}

\* is_blacklisted tells the truth about the past: an address is banned exactly
\* while ban_duration since an offence, or since a manual ban, has not run out,
\* whichever calls collected garbage in between, and also when the offence could
\* not be logged and the call that found it panicked.
BanVerdictsExact ==
    \A ip \in IPs :
        Banned(ip) <=>
            \E e \in Offences(ip) \cup manual[ip] : now < e.at + cfg.ban_duration

\* No method ends or shortens a ban that is still running.
BansNeverShorten ==
    [][\A ip \in IPs : Banned(ip) /\ now' < blacklist[ip] =>
            ip \in DOMAIN blacklist' /\ blacklist'[ip] >= blacklist[ip]]_vars

\* The maps stay small: an entry without stamps is never kept, and once a
\* recording method has run, only live bans and stamps inside the window remain.
GarbageCollected ==
    [][/\ \A m \in {tls_failures', request_tracker'} :
            \A ip \in DOMAIN m : m[ip] # {}
       /\ <<requests, failures>>' # <<requests, failures>> =>
            /\ \A ip \in DOMAIN blacklist' :
                    now < blacklist'[ip] \/ (cfg.ban_duration = 0 /\ blacklist'[ip] = now)
            /\ \A m \in {tls_failures', request_tracker'} :
                    \A ip \in DOMAIN m : \A e \in m[ip] : now - e.at <= ROLLING_WINDOW]_vars
=============================================================================
