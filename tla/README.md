# Verification of the Barebones Reverse Proxy

TLA+ models of the proxy in `src/src`, the TLC runs that check them on small
instances, and TLAPS proofs of the safety properties of five components for
every value of their constants. `PROJECT.json` maps each definition to the lines
it translates.

## The system and its parts

A process has one reload thread and several single-threaded workers. A worker
accepts a connection and spawns a task that screens the peer, reads a PROXY
header, makes the TLS handshake and hands the stream to hyper, which calls
`handle_request` for each request. That handler takes the current configuration
snapshot, asks the shared security manager, looks into the snapshot's cache,
authenticates, forwards to the upstream, and may spawn a cache insertion or an
upgrade tunnel. On SIGHUP the reload thread builds and publishes a new snapshot.

| Part | Source | Module | State |
|---|---|---|---|
| security manager | `security.rs` | `SecurityManager` | modelled, proved |
| asset cache | `cache.rs` | `LruCache`, `AssetStore` | modelled, proved, refinement proved |
| live configuration, reload, worker pool | `server.rs`, `runtime_config.rs` | `ConfigReload` | modelled, proved |
| log file switching | `log.rs` | `ConfigReload` | destination only |
| request handler | `proxy.rs` | `RequestPipeline` | modelled, proved |
| forward authentication | `auth.rs` | `RequestPipeline` | outcomes only |
| connection task | `worker.rs` | `Connection`, `ConfigReload` | modelled without socket set-up, proved |
| PROXY protocol | `proxy_protocol.rs` | `Connection` | modelled, proved |
| configuration parser | `parser.rs`, `config.rs` | `ConfigParser`, `Text` | modelled |
| router | `router.rs` | `Router` | modelled |
| certificate table | `tls.rs` | `TlsAcceptor` | modelled |
| error pages, `main` | `error_pages.rs`, `lib.rs`, `main.rs` | - | formatting, glue |

The components meet as follows. `RequestPipeline` and `Connection` use the
security manager as something that may accept or refuse; `RequestPipeline` uses
a cache engine as a partial map that may forget entries and never invents one,
and a snapshot store that numbers snapshots. `SecurityManager`, `LruCache` and
`ConfigReload` check those promises on the code of each; for the cache the
promise is a specification of its own, `AssetStore`, which `LruCache`
implements. `ConfigFile` puts the parser, the router and the certificate table
together: the routes the last two work on are the ones the first returned.

## The models

**SecurityManager.** One mutex guards three maps and each method reads the
clock under it, so a method is one action. A `Vec<Instant>` is a set of stamps,
made distinct by a push number. `cleanup` (`Retained`, `LiveBans`) is part of the
methods that call it. `record_tls_failure` logs a new ban while it holds the
mutex; if standard output fails (`StdoutMayFail`), `println!` panics there, the
mutex is `poisoned`, and no method answers any more. The variables `requests`,
`admitted`, `failures` and `manual` are history: no action reads them, and the
properties compare the manager that forgets with this record that does not.

**LruCache.** A call of `get` or `insert` goes from lock to lock and evicts one
entry per step; `pc` and `arg` are the caller's position and locals. The lru
crate is external: a map, a recency list and an entry limit at which `put`
drops the oldest entry and returns nothing (`AddDropping`). `println!` in the
eviction loop may panic (`EvictPanics`), which poisons both locks. `leaked` is
history. The read-only accessors are left out.

**AssetStore** is the cache as its callers see it: a call is asked, and at one
moment answered, by finding a live asset, by taking, refusing or forgetting, or
by breaking for good. It has no locks, counter or recency. In `LruCache`,
`ImplementsStore` maps the engine's entries, poisoning and each caller's call to
its state; the steps between the locks map to stutters.

**ConfigReload.** `proxy.conf` is a record of what a reload can tell apart.
`Write` replaces it in one step and `Load` reads it in one step; a file caught in
the middle of an edit is one more content here, and what the beginning of a file
means is a question of `ConfigFile`. Signals coalesce. Before `Register` a signal
ends the process; later the thread receives, loads, switches the log file (or
panics) and publishes, one step each; loading may also panic when the root
certificates cannot be read.
Workers bind or die, and `main` joins them in order, so that it notices a dead
worker only once it comes to it. A connection takes a snapshot when it is
accepted, another for its limits, and one for each request; the log entry of a
request goes to the global `log_file`.

**RequestPipeline.** `handle_request` from one await or lock to the next, with
every early return. `passed` records the checks a request has been through.
Snapshots are numbered and each has its own `store`; spawned insertions wait in
`inserts` and may run at any later time. `Cancel` is hyper dropping the handler
at an await. Paths, types, sizes and headers are reduced to the classes the code
branches on; an answer also says whether its body arrives whole. `CacheMiss`
also stands for expiry, so an entry may vanish at any lookup; `Insert` may evict
any entries. As in the code, the cache is asked (`proxy.rs:227`) before the
provider (`proxy.rs:284`): a hit on a route with `auth on` is served to whoever
asks, and `OnlyCheckedReachUpstream` speaks only of requests that reach an
upstream.

**Connection.** The task of one connection. Bytes are tokens: `PREFIX` for
`PROXY`, one token for CRLF, one for the address fields. `ReadByte` follows the
byte-wise loops, `PollRead` is `ProxyStream::poll_read` for reads of any size
of at least one byte. A task that has passed the second blacklist check is
`cleared`, and starts its handshake or serves in a step of its own (`Begin`), so
that a ban may come in between. The security manager is a counter of recent
failures, from which `WindowSlides` takes one at any time, and a set of banned
addresses, which `BanEnds` takes one from. `late` is history: the connections of
an address that were already past the check when its ban began. "Served" is the
end of the whole connection; what happens request by request is in
`RequestPipeline`.

**ConfigFile.** A text is a sequence of lexemes (words, punctuation, spaces,
line ends), coarser than characters and fine enough for every test the code
makes (`Text`). `ConfigParser` follows `parse_proxy_config`: `strip_comments`,
then one step per line, in the four contexts top level, `route`, `security` and
`cache`, each with its table of directives. Error values are not told apart.
`Router` and `TlsAcceptor` are operators over texts. `ConfigFile` starts from a
*document*, what somebody meant to write, and says whether it makes sense
(`Sound`) and what it describes (`ConfigSaid`); the program sees its text, with
comments put in, or cut off anywhere. This reference uses none of the parser's
definitions. What a statement means comes from a table written out in
`MCConfigFile` (`Vocabulary`: these words set this field to this value; other
words mean nothing), what is a URL and which are https from another (`Urls`), and
the defaults (`Unsaid`), the fields that may be set again (`Repeatable`) and the
places for comments (`Comments`) are written anew. The two share the lexemes, the
names of the configuration's fields and the constants for widths and units.

Operators whose comment begins with "Mutant" are plausible bugs. They are not
part of any specification; substituted for the definition that follows them,
each makes the property named in `PROJECT.json` fail.

## The runs

| Run | Checks | Result |
|---|---|---|
| `security_manager` | verdicts exact up to a poisoned mutex, rolling limit, bans exact and never shortened, garbage collected | holds, 633,845 states |
| `lru_cache` | byte budget, drift only from the entry limit, refusal only after drift, implements the atomic store, every call returns | holds, 158,070 states |
| `lru_cache_byte_accurate` | exact byte usage (`docs/cache.md:28`) | violated |
| `config_reload` | whole snapshots, one manager, generations identify snapshots, connections move forward, signals lost only by a panic, the process ends with its workers | holds, 192,612 states |
| `config_reload_bad_log` | a reload is always applied (`README.md:127`) | violated |
| `config_reload_logs` | log entries go to the snapshot's file (`docs/architecture.md:57`) | violated |
| `request_pipeline` | only checked requests reach an upstream, only whole and eligible assets are held, nothing too big is stored, hits belong to their request | holds, 1,648,868 states |
| `request_pipeline_liveness` | requests settle, spawned insertions run | holds, 20,246 states |
| `request_pipeline_headers` | security headers on every response (`docs/security.md:162`) | violated |
| `request_pipeline_head` | a hit has the body that was fetched (`tests/integration/test_cache.py:27`) | violated |
| `config_file` | the parser accepts what makes sense and returns what is written, torn files mean their first lines, sizes never wrap, routes are reachable and rewritten right, certificates cover their hosts | holds, 723,455 states |
| `connection` | bytes conserved, resolved address, honest headers, a ban keeps out all but those past the check, header stage ends | holds, 808,256 states |

### What the violated runs show

- **Byte usage.** With the LruCache at its entry limit, `put` drops an entry
  whose bytes stay counted. `DriftIsEntryLimit` says this is the only cause, and
  `BudgetRespected` that the error is always on the safe side.
- **Bad log file.** A configuration that loads but names a log file that cannot
  be opened makes `update_log_file` panic and ends the reload thread. A later
  good configuration is never applied. `SignalsLostOnlyByPanic` says nothing
  else loses a signal.
- **Log destination.** A request in flight during a reload is logged to the new
  file.
- **Security headers.** The early returns (444 for a banned client, 429, 413,
  authentication answers) and cache hits leave without them.
- **HEAD and GET.** They share a cache key, so what a HEAD stored, with an empty
  body, is served to a GET.

More differences between documents and code were met while modelling and have
no run of their own:

- Each snapshot gets a new, empty cache engine (`runtime_config.rs:112`), while
  `docs/cache.md:29` has entries preserved across reloads. `HitsBelong` rests on
  this: its mutant keeps the entries, and a request is then served the asset of
  another upstream.
- `docs/cache.md:41` and `:52` give `off` as the default of `enabled`. The parser
  starts a cache block with `true` (`parser.rs:727`), so `cache { }` turns the
  cache on. `MeansWhatIsWritten` follows the code here and the documents in all
  other defaults they give but one: for `trusted_upstream` they say none, the
  code has 0.0.0.0.
- `docs/cache.md:44` has `default_ttl_sec` apply when the upstream omits max-age.
  The handler always inserts without a TTL of its own (`proxy.rs:619`), so
  max-age is ignored and every entry lives for `default_ttl_sec`.
- `docs/cache.md:88` lists `.html` among the cached extensions. `is_static_asset`
  refuses `.html` as an entry point before it looks at extensions
  (`cache.rs:205`), and `OnlyEligibleAssets` says that no entry point is held.
- `docs/security.md:135` has a resolver with wildcard matches; the one in
  `tls.rs` looks up exact names only.
- `README.md:131` keeps existing connections on the snapshot they started with.
  In the code the acceptor and the header limit of a connection are of the
  snapshots of their moment, and every request takes the current one; what does
  hold is `ConnectionMovesForward`.
- `docs/cache.md:101` promises `X-Proxy-Cache` on every response; the early
  returns do not have it.
- The example in `README.md:98` gives `listen` an address, which the parser
  refuses, and asks for `auth on` without `forward_auth`, which it also refuses.
- `strip_comments` does not see a block comment directly behind another, and
  `check_trailing_garbage` can never fail where it is called.
- A route without a scheme, or behind an earlier route whose endpoint is a
  prefix of its own, is accepted and never chosen (`RoutesReachable` says these
  are the only such routes). With any https route, all connections need TLS.
- A SIGHUP before the handler is registered ends the process.

### Bounds

- `security_manager`: two addresses, a window of 1, five instants and four
  recorded events, enough for events to leave the window, for a ban to run out
  and for a second offence during it. The settings include 0 for each limit.
- `lru_cache`: two callers, three keys over two entries, four calls. Empty
  bodies reach the entry limit before the budget, bodies over half the budget
  force evictions, two sizes are refused, and an entry can expire.
- `config_reload`: seven contents (two good, one bad in each of five ways), two
  published reloads, two workers, one connection with one request at a time; one
  reload can be under way while older snapshots are held and a third signal
  waits.
- `request_pipeline`: two request slots, three arrivals, one reload, three keys:
  an asset, an entry point with the extension of one, and neither. Three arrivals
  let one request store, another hit, and a third overlap them. The
  configurations differ in upstream, authentication, interception, in whether a
  key is routed, whether its route caches and whether there is a cache engine.
  Answers differ in status, type, size and in whether the body breaks off. The liveness run has simpler inputs
  and answers, and a request that cannot be forwarded.
- `connection`: two connections, eight streams, header limit 5 for 107. The
  streams hold a good header, cut, malformed and overlong ones, near misses of
  the prefix, and none.
- `config_file`: all sequences of up to four items at top level, up to four
  statements in a route and three in another block, from lists with every
  directive, its aliases, wrong values, missing semicolons and stray braces; all pairs of a list of endpoints;
  comments at every place of a few files and all their beginnings. `usize` ends
  at 511 and a kilobyte is 2, so that every unit can overflow. No value contains
  a semicolon; a file cut off behind such a one could be taken with half of it,
  which `TornFileIsPrefix` does not cover. `CertificatesCoverHosts` takes a client
  to ask for the host as the endpoint spells it: no upper case, IP addresses or
  wildcard names.

Symmetry is used for addresses and request slots in runs that check only
invariants and action properties. Deadlock checking is off where the counters
have bounds and everything may have been served; in `config_file` it is on, a
text the parser gets stuck in would be a deadlock.

### Fairness

Weak fairness of the steps a thread or task takes by itself: the OS runs ready
threads, and tokio polls ready tasks and fires timers. Locks are taken when
free; a step that stays enabled is taken. Nothing is assumed of clients,
operators, upstreams or the authentication provider. So `RequestsSettle` allows
a request to wait for ever for the outside, on which the code sets no timeout,
and `SignalsLostOnlyByPanic` speaks of a file that is not changed again.
`HeaderStageEnds` rests on the timer in `handle_proxy_protocol`, and
`DeadPoolEndsProcess` on `main` being scheduled.

## The proofs

`SecurityManagerProofs` assumes only that the settings, window and bounds are
natural numbers. The invariants speak of the history, which the maps have partly
forgotten, so they are not inductive. `IndInv` adds that push numbers are below
`pushes` and instants not after `now` (`HistoryInv`), and that each tracker
*mirrors* its history: it holds only real events and at least all those inside
the window (`RateInv`, `BanInv`). The count taken at a push is then the count
over the true window, whatever was collected before.

- `TypeCorrectness`, `RateLimiterExact`, `RollingLimitHolds`, `BansExact`:
  `Spec => []` of `TypeOK`, `RateVerdictsExact`, `RollingRateLimit`,
  `BanVerdictsExact`.
- `BansOnlyGrow`: `Spec => BansNeverShorten`, an action property.

`LruCacheProofs` holds for any callers, keys, sizes, capacity and entry limit of
at least 1. The cached bytes are the cardinality of a set of (key, position)
pairs, so that storing, removing and replacing an asset become lemmas on finite
sets. `IndInv` adds that whoever is between two steps of a critical section owns
the locks (`LockInv`) and that no asset past the size checks exceeds the budget
(`SizeInv`); without the first a second caller could disturb the pending bytes,
and without the second a refusal would not imply drift.

- `TypeCorrectness`, `BudgetHolds`, `DriftExplained`, `FullNeedsDrift`:
  `Spec => []` of `TypeOK`, `BudgetRespected`, `DriftIsEntryLimit`,
  `FullOnlyAfterDrift`.

`LruCacheRefinement` adds what the locks protect in the middle of a call
(`MidCall`): a caller in the middle of a call has no outcome yet, the key an
expired lookup has removed stays away until the miss is answered, and nothing is
poisoned while somebody is inside. It then shows action by action that the
engine's step is a step of `AssetStore` or leaves its state alone.

- `CallsAreWhole`: `Spec => []RefInv`; `Refinement`: `Spec => ImplementsStore`.

`ConfigReloadProofs` holds for any contents, log files, workers, connections and
number of reloads. Every snapshot anyone takes is the current one (`LiveStep`),
so what holds of all live snapshots need only be shown of the next current one.
That is the reload thread's candidate, so `IInv` adds what the thread knows of
it between loading and publishing: it is whole, carries the shared manager and
has the number after the current one.

- `TypeCorrectness`, `WholeSnapshots`, `OneManager`, `GenerationsIdentify`,
  `ForwardOnly`: `Spec => []` of `TypeOK`, `SnapshotsAreWhole`,
  `ManagerSurvives`, `GenerationIdentifies`, `ConnectionMovesForward`.

`ConnectionProofs` holds for any streams, peers, connections and header limit,
with a header prefix that is not empty, fits the limit and contains no CRLF.
`IInv` says for each place of the task where the bytes are (`ConnInv`): while
`handle_proxy_protocol` reads, what it has read and what is left in the socket
is what was sent, which makes a verdict on the bytes read one on the stream;
afterwards what was delivered, what is buffered and what is left in the socket
is the body. `BanHoldsFromCheck` is inductive next to `IInv`: only
`ClientAccepted` takes a connection past the check, and it asks the ban list
(`NobodyPasses`); only `HandshakeFails` begins a ban, and it records who is past
the check at that moment.

- `TypeCorrectness`, `StreamsIntact`, `ClientsResolved`, `HeadersHonest`,
  `BansHold`: `Spec => []` of `TypeOK`, `StreamIntact`, `ResolvedIsClient`,
  `OnlyHonestHeaders`, `BanHoldsFromCheck`.

`RequestPipelineProofs` holds for any requests, keys, configurations, answers
and number of reloads. The properties look a route up in a snapshot that may
have been replaced since, and at assets long after the request that fetched
them. `IInv` therefore says of every asset, in an engine, on its way or in a
response, that *its own* snapshot allowed it (`Good`), which no reload can
change because snapshots up to the current number are never written again
(`Stable`); that an engine holds under a key only assets of that key and of its
own snapshot (`Engines`); and what a request at each place has behind it
(`ReqInv`).

- `TypeCorrectness`, `ChecksComeFirst`, `AssetsEligible`, `EnginesBounded`,
  `HitsAreOwn`: `Spec => []` of `TypeOK`, `OnlyCheckedReachUpstream`,
  `OnlyEligibleAssets`, `NothingTooBig`, `HitsBelong`.

Only model-checked: all liveness (the proof system does not cover fairness),
`GarbageCollected`, and `ConfigFile`, whose parser is a recursion over a text,
out of reach of proofs without induction over data.

## Not modelled

- What a poisoned security manager means for its callers: in `Connection` and
  `RequestPipeline` every task that calls it would panic, and its connection be
  dropped. Likewise `println!` failing in the reload thread or in a handler.
- The client address taken from the headers of a CDN (`proxy.rs:71-91`, section 8
  of `docs/security.md`): `RequestPipeline` starts with the resolved address, and
  the security manager's answers are arbitrary there for any address.
- The largest `Instant`: `now + ban_duration` (`security.rs:96`) panics before the
  ban is entered if the sum cannot be represented, and the parser sets no upper
  limit on `ban_duration` (`parser.rs:366`). The model's instants have no limit.
- Timeouts on the provider, the upstream and the body, which the code does not
  have: `RequestsSettle` shows that only these waits can hold a request up.
- Reads without room through `ProxyStream`, which the layers above do not make.
- The order of concurrent insertions of one key: the code promises none.
- Which headers go to the authentication provider and come back, header values
  in general, wording of pages and log lines, which error a bad configuration
  gives, socket options, HTTP parsing, decoding of key files: data and I/O on
  which no state here depends. `error_pages.rs`, `lib.rs` and `main.rs` hold
  nothing else.
- `Connection` and `RequestPipeline` are not composed into one machine: they
  share only the resolved address and the security manager, and which snapshot a
  connection and its requests use is in `ConfigReload`.
