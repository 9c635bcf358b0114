-------------------------- MODULE RequestPipeline --------------------------
(***************************************************************************)
(* src/proxy.rs, handle_request: one request from the call by hyper to its *)
(* response, among other requests and configuration reloads.  A step ends  *)
(* where the code awaits (auth provider, upstream, body), takes a lock of  *)
(* shared state (security manager, cache engine) or spawns a task (cache   *)
(* insertion, upgrade tunnel); hyper may drop the future at any await.     *)
(*                                                                         *)
(* The other components appear as what they promise: a snapshot store that *)
(* numbers its snapshots (ConfigReload), a manager that accepts or refuses *)
(* a client (SecurityManager), and per snapshot a cache engine that may    *)
(* forget any entry and never invents one (LruCache).                      *)
(***************************************************************************)
EXTENDS Integers, FiniteSets

CONSTANTS
    Requests,           \* request slots
    Keys,               \* cache keys: host, path and query
    Entrypoints,        \* keys that is_uncacheable_entrypoint accepts
    AssetPaths,         \* keys that end in a static asset's extension
    Configs,            \* what a snapshot may say
    Inputs,             \* what a client may send
    Replies,            \* what an upstream may answer
    AuthStatuses,       \* the auth provider's statuses outside 2xx
    MaxReloads,         \* bound: reloads
    MaxArrivals,        \* bound: requests
    NoRoute, None

Methods == {"GET", "HEAD", "POST"}
Setting == {"on", "off", "unset"}

ASSUME KeysAssumption == Entrypoints \subseteq Keys /\ AssetPaths \subseteq Keys
ASSUME InputsAssumption ==
    Inputs \subseteq [method : Methods, key : Keys, oversized : BOOLEAN,
                      upgrade : BOOLEAN, forwardable : BOOLEAN]
ASSUME RepliesAssumption ==
    Replies \subseteq [status : Nat, static_type : BOOLEAN, no_store : BOOLEAN,
                       declared : BOOLEAN, big : BOOLEAN, whole : BOOLEAN]
ASSUME AuthAssumption == AuthStatuses \subseteq Nat \ (200..299)
ASSUME BoundsAssumption == MaxReloads \in Nat /\ MaxArrivals \in Nat
ASSUME NoneAssumption == None \notin Inputs /\ None \notin Replies

VARIABLES
    generation,         \* number of the current snapshot
    config,             \* [generation -> what that snapshot says]
    store,              \* [generation -> [key -> the asset in its cache engine]]
    inserts,            \* spawned cache insertions that have not run
    pc,                 \* [request -> where its task is]
    req,                \* [request -> what the client sent]
    snap,               \* [request -> generation of the snapshot it holds]
    reply,              \* [request -> the upstream's answer while it is handled]
    resp,               \* [request -> the response it returned]
    passed,             \* history: [request -> the checks it has passed]
    arrivals            \* requests so far

live == <<generation, config>>
vars == <<live, store, inserts, pc, req, snap, reply, resp, passed, arrivals>>

Generations == 0..MaxReloads

-----------------------------------------------------------------------------
(* What the code computes from a request and its snapshot.                 *)

Conf(r)  == config[snap[r]]
Route(r) == Conf(r).routes[req[r].key]

\* is_static_asset: an entry point never; else by extension or Content-Type.
IsStaticAsset(k, static_type) == k \notin Entrypoints /\ (k \in AssetPaths \/ static_type)

\* cache_engine: the snapshot's, unless the route says off or the method is
\* not cacheable.  An unmatched request counts as enabled.
UsesCache(r) ==
    /\ Conf(r).cache
    /\ Route(r) # NoRoute => Route(r).cache # "off"
    /\ req[r].method \in {"GET", "HEAD"}

ShouldInterceptErrors(r) ==
    \/ Route(r).intercept_errors = "on"
    \/ Route(r).intercept_errors = "unset" /\ Conf(r).intercept_errors

Switches(r, a) == a.status = 101 /\ req[r].upgrade

Intercepts(r, a) == ShouldInterceptErrors(r) /\ a.status \in 400..599

\* Is the upstream's answer collected for the cache?  Only a declared length
\* can be too big here.
Cacheable(r, a) ==
    /\ UsesCache(r)
    /\ IsStaticAsset(req[r].key, a.static_type)
    /\ ~a.no_store
    /\ ~(a.declared /\ a.big)
    /\ a.status = 200

\* What is stored: the answer, with the upstream, method and snapshot that
\* produced it.  The answer to a HEAD request has no body.
Asset(r) == [key |-> req[r].key, upstream |-> Route(r).upstream, method |-> req[r].method,
             generation |-> snap[r], reply |-> reply[r]]

\* The size of the body, and whether it comes to its end.
BodyTooBig(a) == a.reply.big /\ a.method # "HEAD"
BodyWhole(a)  == a.reply.whole \/ a.method = "HEAD"

-----------------------------------------------------------------------------
Init ==
    /\ generation = 0
    /\ \E c \in Configs : config = [g \in Generations |-> c]
    /\ store = [g \in Generations |-> [k \in Keys |-> None]]
    /\ inserts = {}
    /\ pc = [r \in Requests |-> "idle"]
    /\ req = [r \in Requests |-> None]
    /\ snap = [r \in Requests |-> 0]
    /\ reply = [r \in Requests |-> None]
    /\ resp = [r \in Requests |-> None]
    /\ passed = [r \in Requests |-> {}]
    /\ arrivals = 0

Goto(r, p) == pc' = [pc EXCEPT ![r] = p]

Pass(r, gate) == passed' = [passed EXCEPT ![r] = @ \cup {gate}]

\* A response leaves handle_request: its X-Proxy-Cache mark, whether
\* inject_security_headers and the access log saw it, and what it carries.
Return(r, p, status, mark, secured, logged, asset) ==
    /\ Goto(r, p)
    /\ resp' = [resp EXCEPT ![r] = [status |-> status, mark |-> mark, secured |-> secured,
                                    logged |-> logged, asset |-> asset]]

\* `return Ok(...)' in the middle of the handler.
ReturnEarly(r, status, logged) == Return(r, "done", status, "none", FALSE, logged, None)

\* The end of the handler: access log, then the security headers.
Finish(r, p, status, mark, asset) == Return(r, p, status, mark, TRUE, TRUE, asset)

-----------------------------------------------------------------------------
(* Reload: the new snapshot comes with an empty cache engine.              *)

\* Mutant: the new snapshot takes over the entries of the old one.
ReloadKeepsEntries(c) ==
    /\ generation < MaxReloads
    /\ generation' = generation + 1
    /\ config' = [config EXCEPT ![generation + 1] = c]
    /\ store' = [store EXCEPT ![generation + 1] = store[generation]]
    /\ UNCHANGED <<inserts, pc, req, snap, reply, resp, passed, arrivals>>

Reload(c) ==
    /\ generation < MaxReloads
    /\ generation' = generation + 1
    /\ config' = [config EXCEPT ![generation + 1] = c]
    /\ UNCHANGED <<store, inserts, pc, req, snap, reply, resp, passed, arrivals>>

-----------------------------------------------------------------------------
(* handle_request, up to the cache.                                        *)

\* hyper calls the handler, which takes the current snapshot.
Arrive(r, i) ==
    /\ pc[r] \in {"idle", "done"}
    /\ arrivals < MaxArrivals
    /\ arrivals' = arrivals + 1
    /\ Goto(r, "screen")
    /\ req' = [req EXCEPT ![r] = i]
    /\ snap' = [snap EXCEPT ![r] = generation]
    /\ resp' = [resp EXCEPT ![r] = None]
    /\ passed' = [passed EXCEPT ![r] = {}]
    /\ UNCHANGED <<live, store, inserts, reply>>

quiet == <<live, store, inserts, req, snap, arrivals>>

\* is_blacklisted: 444, not in the access log.
Blacklisted(r) ==
    /\ pc[r] = "screen"
    /\ ReturnEarly(r, 444, FALSE)
    /\ UNCHANGED <<quiet, reply, passed>>

NotBlacklisted(r) ==
    /\ pc[r] = "screen"
    /\ Pass(r, "blacklist")
    /\ Goto(r, "limit")
    /\ UNCHANGED <<quiet, reply, resp>>

\* check_and_record_request refuses: 429, logged here.
RateLimited(r) ==
    /\ pc[r] = "limit"
    /\ ReturnEarly(r, 429, TRUE)
    /\ UNCHANGED <<quiet, reply, passed>>

\* The request was counted; a declared body over max_body_size is a 413.
PayloadTooLarge(r) ==
    /\ pc[r] = "limit" /\ req[r].oversized
    /\ ReturnEarly(r, 413, FALSE)
    /\ UNCHANGED <<quiet, reply, passed>>

Admit(r) ==
    /\ pc[r] = "limit" /\ ~req[r].oversized
    /\ passed' = [passed EXCEPT ![r] = @ \cup {"rate", "size"}]
    /\ Goto(r, IF UsesCache(r) THEN "lookup" ELSE "dispatch")
    /\ UNCHANGED <<quiet, reply, resp>>

\* engine.get finds a live entry: returned from here, without the headers.
CacheHit(r) ==
    /\ pc[r] = "lookup"
    /\ LET asset == store[snap[r]][req[r].key] IN
       /\ asset # None
       /\ Return(r, "done", asset.reply.status, "HIT", FALSE, TRUE, asset)
    /\ UNCHANGED <<quiet, reply, passed>>

\* Mutant: a miss starts the request again.
CacheMissRetries(r) ==
    /\ pc[r] = "lookup"
    /\ Goto(r, "screen")
    /\ UNCHANGED <<quiet, reply, resp, passed>>

\* engine.get finds nothing, or an expired entry, which it drops.
CacheMiss(r) ==
    /\ pc[r] = "lookup"
    /\ store' = [store EXCEPT ![snap[r]][req[r].key] = None]
    /\ Goto(r, "dispatch")
    /\ UNCHANGED <<live, inserts, req, snap, arrivals, reply, resp, passed>>

-----------------------------------------------------------------------------
(* Routing and authentication.                                             *)

NoMatchingRoute(r) ==
    /\ pc[r] = "dispatch" /\ Route(r) = NoRoute
    /\ Finish(r, "done", 444, "none", None)
    /\ UNCHANGED <<quiet, reply, passed>>

\* `auth on' without forward_auth.
AuthMisconfigured(r) ==
    /\ pc[r] = "dispatch" /\ Route(r) # NoRoute
    /\ Route(r).auth_required /\ ~Conf(r).forward_auth
    /\ ReturnEarly(r, 500, FALSE)
    /\ UNCHANGED <<quiet, reply, passed>>

\* Mutant: a route without a provider is forwarded.
DispatchLenient(r) ==
    /\ pc[r] = "dispatch" /\ Route(r) # NoRoute
    /\ Goto(r, IF Route(r).auth_required /\ Conf(r).forward_auth THEN "auth" ELSE "forward")
    /\ UNCHANGED <<quiet, reply, resp, passed>>

Dispatch(r) ==
    /\ pc[r] = "dispatch" /\ Route(r) # NoRoute
    /\ Route(r).auth_required => Conf(r).forward_auth
    /\ Goto(r, IF Route(r).auth_required THEN "auth" ELSE "forward")
    /\ UNCHANGED <<quiet, reply, resp, passed>>

\* The provider answers 2xx.
AuthSuccess(r) ==
    /\ pc[r] = "auth"
    /\ Pass(r, "auth")
    /\ Goto(r, "forward")
    /\ UNCHANGED <<quiet, reply, resp>>

\* The provider answers anything else, which goes to the client as it is.
AuthDenied(r, status) ==
    /\ pc[r] = "auth"
    /\ ReturnEarly(r, status, FALSE)
    /\ UNCHANGED <<quiet, reply, passed>>

\* The provider cannot be reached, or its URL does not parse.
AuthError(r) ==
    /\ pc[r] = "auth"
    /\ ReturnEarly(r, 500, FALSE)
    /\ UNCHANGED <<quiet, reply, passed>>

-----------------------------------------------------------------------------
(* The upstream.                                                           *)

\* A request that cannot be rebuilt (URI or header value): Err ends the
\* connection without a response or a log entry.
ForwardFails(r) ==
    /\ pc[r] = "forward" /\ ~req[r].forwardable
    /\ Goto(r, "idle")
    /\ UNCHANGED <<quiet, reply, resp, passed>>

Forward(r) ==
    /\ pc[r] = "forward" /\ req[r].forwardable
    /\ Goto(r, "upstream")
    /\ UNCHANGED <<quiet, reply, resp, passed>>

\* No connection, a broken one, or a body over the limit while it is sent.
UpstreamFails(r) ==
    /\ pc[r] = "upstream"
    /\ Finish(r, "done", 502, "none", None)
    /\ UNCHANGED <<quiet, reply, passed>>

\* 101 to an upgrade request: the response is returned and a tunnel spawned.
SwitchProtocols(r, a) ==
    /\ pc[r] = "upstream" /\ Switches(r, a)
    /\ Finish(r, "tunnel_client", 101, "none", None)
    /\ UNCHANGED <<quiet, reply, passed>>

\* An error page instead of the upstream's error: it has the security headers
\* and no access log entry.
InterceptError(r, a) ==
    /\ pc[r] = "upstream" /\ ~Switches(r, a) /\ Intercepts(r, a)
    /\ Return(r, "done", a.status, "none", TRUE, FALSE, None)
    /\ UNCHANGED <<quiet, reply, passed>>

\* The answer is streamed to the client.
Bypass(r, a) ==
    /\ pc[r] = "upstream" /\ ~Switches(r, a) /\ ~Intercepts(r, a) /\ ~Cacheable(r, a)
    /\ Finish(r, "done", a.status, "BYPASS", None)
    /\ UNCHANGED <<quiet, reply, passed>>

Collect(r, a) ==
    /\ pc[r] = "upstream" /\ ~Switches(r, a) /\ ~Intercepts(r, a) /\ Cacheable(r, a)
    /\ reply' = [reply EXCEPT ![r] = a]
    /\ Goto(r, "collect")
    /\ UNCHANGED <<quiet, resp, passed>>

\* Mutant: what has come of a body is stored when it breaks off.
CollectSucceedsAnyhow(r) ==
    /\ pc[r] = "collect"
    /\ inserts' = inserts \cup {Asset(r)}
    /\ Finish(r, "done", reply[r].status, "MISS", Asset(r))
    /\ reply' = [reply EXCEPT ![r] = None]
    /\ UNCHANGED <<live, store, req, snap, arrivals, passed>>

\* The whole body has come: the insertion is spawned, the client answered.
CollectSucceeds(r) ==
    /\ pc[r] = "collect" /\ BodyWhole(Asset(r))
    /\ inserts' = inserts \cup {Asset(r)}
    /\ Finish(r, "done", reply[r].status, "MISS", Asset(r))
    /\ reply' = [reply EXCEPT ![r] = None]
    /\ UNCHANGED <<live, store, req, snap, arrivals, passed>>

\* Mutant: the answer is marked before it is known what became of the body.
CollectFailsAsMiss(r) ==
    /\ pc[r] = "collect" /\ ~BodyWhole(Asset(r))
    /\ Finish(r, "done", reply[r].status, "MISS", None)
    /\ reply' = [reply EXCEPT ![r] = None]
    /\ UNCHANGED <<live, store, inserts, req, snap, arrivals, passed>>

\* The body broke off: the client gets the answer's head and an empty body.
CollectFails(r) ==
    /\ pc[r] = "collect" /\ ~BodyWhole(Asset(r))
    /\ Finish(r, "done", reply[r].status, "none", None)
    /\ reply' = [reply EXCEPT ![r] = None]
    /\ UNCHANGED <<live, store, inserts, req, snap, arrivals, passed>>

\* The client goes away while the handler awaits; hyper drops the future.
Cancel(r) ==
    /\ pc[r] \in {"auth", "upstream", "collect"}
    /\ Goto(r, "idle")
    /\ reply' = [reply EXCEPT ![r] = None]
    /\ UNCHANGED <<quiet, resp, passed>>

-----------------------------------------------------------------------------
(* Spawned tasks.                                                          *)

\* Mutants: the engine does not check sizes; late insertions are not run.
InsertAnySize(a, evicted, room) ==
    /\ a \in inserts
    /\ inserts' = inserts \ {a}
    /\ store' = [store EXCEPT ![a.generation] =
                    [k \in Keys |-> IF k = a.key /\ room THEN a
                                    ELSE IF k \in evicted THEN None ELSE @[k]]]
    /\ UNCHANGED <<live, pc, req, snap, reply, resp, passed, arrivals>>
InsertCurrentOnly(a, evicted, room) ==
    a.generation = generation /\ InsertAnySize(a, evicted, room)

\* engine.insert, into the engine the request held.  To make room it may evict
\* any entries; the asset goes in unless it is too big or no room was made.
Insert(a, evicted, room) ==
    /\ a \in inserts
    /\ inserts' = inserts \ {a}
    /\ store' = [store EXCEPT ![a.generation] =
                    [k \in Keys |-> IF BodyTooBig(a) THEN @[k]
                                    ELSE IF k = a.key /\ room THEN a
                                    ELSE IF k \in evicted THEN None ELSE @[k]]]
    /\ UNCHANGED <<live, pc, req, snap, reply, resp, passed, arrivals>>

TunnelClient(r, ok) ==
    /\ pc[r] = "tunnel_client"
    /\ Goto(r, IF ok THEN "tunnel_upstream" ELSE "done")
    /\ UNCHANGED <<quiet, reply, resp, passed>>

TunnelUpstream(r, ok) ==
    /\ pc[r] = "tunnel_upstream"
    /\ Goto(r, IF ok THEN "tunnel_open" ELSE "done")
    /\ UNCHANGED <<quiet, reply, resp, passed>>

\* copy_bidirectional returns.
TunnelCloses(r) ==
    /\ pc[r] = "tunnel_open"
    /\ Goto(r, "done")
    /\ UNCHANGED <<quiet, reply, resp, passed>>
-----------------------------------------------------------------------------
\* Steps the handler takes by itself.
Handle(r) ==
    \/ Blacklisted(r) \/ NotBlacklisted(r)
    \/ RateLimited(r) \/ PayloadTooLarge(r) \/ Admit(r)
    \/ CacheHit(r) \/ CacheMiss(r)
    \/ NoMatchingRoute(r) \/ AuthMisconfigured(r) \/ Dispatch(r)
    \/ ForwardFails(r) \/ Forward(r)

\* Steps that wait for the auth provider, the upstream or the client.
Answered(r) ==
    \/ AuthSuccess(r) \/ (\E status \in AuthStatuses : AuthDenied(r, status)) \/ AuthError(r)
    \/ UpstreamFails(r)
    \/ pc[r] = "upstream" /\ \E a \in Replies :
           SwitchProtocols(r, a) \/ InterceptError(r, a) \/ Bypass(r, a) \/ Collect(r, a)
    \/ CollectSucceeds(r) \/ CollectFails(r)
    \/ Cancel(r)
    \/ \E ok \in BOOLEAN : TunnelClient(r, ok) \/ TunnelUpstream(r, ok)
    \/ TunnelCloses(r)

\* The keys in an engine.
Filled(g) == {k \in Keys : store[g][k] # None}

RunInsert ==
    \E a \in inserts : \E evicted \in SUBSET Filled(a.generation), room \in BOOLEAN :
        Insert(a, evicted, room)

Next ==
    \/ \E c \in Configs : Reload(c)
    \/ \E r \in Requests : (\E i \in Inputs : Arrive(r, i)) \/ Handle(r) \/ Answered(r)
    \/ RunInsert

Spec == Init /\ [][Next]_vars

\* The runtime polls every task that is ready; nothing is assumed of clients,
\* the auth provider and the upstreams, on which the code sets no timeout.
FairSpec == Spec /\ (\A r \in Requests : WF_vars(Handle(r))) /\ WF_vars(RunInsert)

-----------------------------------------------------------------------------
(* Properties.                                                             *)

Rest     == {"idle", "done"}
Awaiting == {"auth", "upstream", "collect", "tunnel_client", "tunnel_upstream", "tunnel_open"}
Places   == Rest \cup Awaiting \cup {"screen", "limit", "lookup", "dispatch", "forward"}
Marks    == {"none", "HIT", "MISS", "BYPASS"}

RouteOf(a) == config[a.generation].routes[a.key]

Upstreams == UNION {{c.routes[k].upstream : k \in {j \in Keys : c.routes[j] # NoRoute}} : c \in Configs}
Assets    == [key : Keys, upstream : Upstreams, method : Methods, generation : Generations,
              reply : Replies]
Responses == [status : Nat, mark : Marks, secured : BOOLEAN, logged : BOOLEAN,
              asset : Assets \cup {None}]

\* The types of snapshots, engines, spawned tasks and requests.  A response
\* marked HIT or MISS carries what is, or is about to be, in an engine; any
\* other carries no such thing, the one whose body broke off included.
TypeOK ==
    /\ generation \in Generations
    /\ config \in [Generations -> Configs]
    /\ store \in [Generations -> [Keys -> Assets \cup {None}]]
    /\ inserts \subseteq Assets
    /\ pc \in [Requests -> Places]
    /\ req \in [Requests -> Inputs \cup {None}]
    /\ snap \in [Requests -> Generations]
    /\ reply \in [Requests -> Replies \cup {None}]
    /\ resp \in [Requests -> Responses \cup {None}]
    /\ \A r \in Requests : resp[r] # None =>
           IF resp[r].mark \in {"HIT", "MISS"} THEN resp[r].asset \in Assets ELSE resp[r].asset = None
    /\ passed \in [Requests -> SUBSET {"blacklist", "rate", "size", "auth"}]
    /\ arrivals \in 0..MaxArrivals

\* Requests that talk to an upstream, or have spawned a tunnel to one.
Contacting == {r \in Requests : pc[r] \in Awaiting \ {"auth"}}

\* The order of handle_request's checks: whoever reaches an upstream was not
\* blacklisted, was counted, is not oversized, and has been authenticated if
\* the route in the request's own snapshot asks for it, across reloads.  A
\* request answered from the cache reaches none: the lookup comes before the
\* route's authentication, which a hit therefore never meets.
OnlyCheckedReachUpstream ==
    \A r \in Contacting :
        /\ {"blacklist", "rate", "size"} \subseteq passed[r]
        /\ Route(r) # NoRoute
        /\ Route(r).auth_required => "auth" \in passed[r]

\* Where the assets are: in engines, in spawned insertions, in responses.
Held ==
    ({store[g][k] : g \in Generations, k \in Keys} \cup inserts
        \cup {resp[r].asset : r \in {q \in Requests : resp[q] # None}}) \ {None}

\* docs/cache.md, "An asset is saved to cache only if": a static asset as
\* is_static_asset has it (no entry point, and so no .html), complete, with
\* status 200, not no-store, fetched with a cacheable method while the snapshot
\* had a cache and the route it came over had it on.
OnlyEligibleAssets ==
    \A a \in Held :
        /\ a.reply.status = 200 /\ ~a.reply.no_store /\ BodyWhole(a)
        /\ IsStaticAsset(a.key, a.reply.static_type)
        /\ a.method \in {"GET", "HEAD"}
        /\ config[a.generation].cache
        /\ RouteOf(a) # NoRoute /\ RouteOf(a).cache # "off"

\* docs/cache.md, rule C.3: nothing over max_file_size is in an engine, with
\* or without a Content-Length.
NothingTooBig ==
    \A g \in Generations, k \in Keys : store[g][k] # None => ~BodyTooBig(store[g][k])

\* The lookup does not ask whether a route matched, and runs before the route
\* is used.  Still a hit belongs to the request: it has the request's key, the
\* request's snapshot routes that key with the cache on, and the asset came
\* from the upstream of that very route, whatever was reloaded or inserted
\* late in between.
HitsBelong ==
    \A r \in Requests : (resp[r] # None /\ resp[r].mark = "HIT") =>
        LET a == resp[r].asset IN
        /\ a.key = req[r].key
        /\ Route(r) # NoRoute /\ Route(r).cache # "off"
        /\ a.upstream = Route(r).upstream

\* A request that has entered the handler leaves it, or from some point on only
\* waits for the outside: no step of the handler itself is left undone.
RequestsSettle ==
    \A r \in Requests :
        (pc[r] \notin Rest) ~> (pc[r] \in Rest \/ [](pc[r] \in Awaiting))

\* Every spawned insertion runs, even when its request is long gone and the
\* snapshot it belongs to has been replaced.
InsertsRun ==
    \A g \in Generations, k \in Keys :
        (\E a \in inserts : a.generation = g /\ a.key = k)
            ~> ~(\E a \in inserts : a.generation = g /\ a.key = k)

\* docs/security.md: the proxy "appends a strict suite of security headers to
\* every outgoing HTTP response".
SecurityHeadersOnEveryResponse == \A r \in Requests : resp[r] # None => resp[r].secured

\* tests/integration/test_cache.py, the body of a HIT equals the body first
\* fetched: a GET is never served what a HEAD fetched.
GetHitsHaveBody ==
    \A r \in Requests : (resp[r] # None /\ resp[r].mark = "HIT" /\ req[r].method = "GET") =>
        resp[r].asset.method = "GET"
=============================================================================
