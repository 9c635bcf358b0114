----------------------- MODULE RequestPipelineProofs -----------------------
(***************************************************************************)
(* Proofs about RequestPipeline for any requests, keys, configurations,    *)
(* inputs and answers and any number of reloads.                           *)
(***************************************************************************)
EXTENDS RequestPipeline, TLAPS

-----------------------------------------------------------------------------
(* The inductive invariant.                                                *)

Stored == Assets \cup {None}

Types ==
    /\ generation \in Generations
    /\ config \in [Generations -> Configs]
    /\ store \in [Generations -> [Keys -> Stored]]
    /\ inserts \subseteq Assets
    /\ pc \in [Requests -> Places]
    /\ req \in [Requests -> Inputs \cup {None}]
    /\ snap \in [Requests -> Generations]
    /\ reply \in [Requests -> Replies \cup {None}]
    /\ resp \in [Requests -> Responses \cup {None}]
    /\ passed \in [Requests -> SUBSET {"blacklist", "rate", "size", "auth"}]
    /\ arrivals \in 0..MaxArrivals

\* An asset some snapshot up to the current one allowed to be stored.  Its
\* route is looked up in its own snapshot, which no reload changes.
Good(a) ==
    /\ a \in Assets
    /\ a.generation <= generation
    /\ config[a.generation].cache
    /\ RouteOf(a) # NoRoute
    /\ RouteOf(a).cache # "off"
    /\ a.upstream = RouteOf(a).upstream
    /\ a.method \in {"GET", "HEAD"}
    /\ a.reply.status = 200
    /\ ~a.reply.no_store
    /\ BodyWhole(a)
    /\ IsStaticAsset(a.key, a.reply.static_type)

\* Every engine holds, under each key, only good assets of that key, of its
\* own snapshot and of a size it accepts.
Engines ==
    \A g \in Generations, k \in Keys :
        store[g][k] # None =>
            /\ Good(store[g][k])
            /\ store[g][k].key = k
            /\ store[g][k].generation = g
            /\ ~BodyTooBig(store[g][k])

Spawned == \A a \in inserts : Good(a)

Upstreamed == Awaiting \ {"auth"}
Screened   == {"lookup", "dispatch", "forward"} \cup Awaiting

\* What a request at each place of the handler has behind it.
ReqInv(r) ==
    /\ pc[r] \notin Rest => req[r] \in Inputs
    /\ snap[r] <= generation
    /\ pc[r] = "limit" => "blacklist" \in passed[r]
    /\ pc[r] \in Screened => {"blacklist", "rate", "size"} \subseteq passed[r]
    /\ pc[r] \in {"forward"} \cup Awaiting => Route(r) # NoRoute
    /\ pc[r] \in {"forward"} \cup Upstreamed => (Route(r).auth_required => "auth" \in passed[r])
    /\ pc[r] = "collect" => reply[r] \in Replies /\ Cacheable(r, reply[r])

\* What a response carries: a good asset or none, as its mark says, and for a
\* hit one of the request's own key and snapshot.
RespInv(r) ==
    resp[r] # None =>
        /\ IF resp[r].mark \in {"HIT", "MISS"} THEN Good(resp[r].asset) ELSE resp[r].asset = None
        /\ resp[r].mark = "HIT" =>
               /\ resp[r].asset # None
               /\ resp[r].asset.key = req[r].key
               /\ resp[r].asset.generation = snap[r]

IInv ==
    /\ Types
    /\ Engines
    /\ Spawned
    /\ \A r \in Requests : ReqInv(r) /\ RespInv(r)

-----------------------------------------------------------------------------
(* Initial states, and what a step leaves alone.                           *)

LEMMA InitInv == Init => IInv
<1> SUFFICES ASSUME Init PROVE IInv
    OBVIOUS
<1>1. Types
    BY BoundsAssumption, SMT DEF Init, Types, Generations, Stored, Places, Rest
<1>2. Engines /\ Spawned
    BY DEF Init, Engines, Spawned
<1>3. ASSUME NEW r \in Requests PROVE ReqInv(r) /\ RespInv(r)
    BY SMT DEF Init, ReqInv, RespInv, Rest, Screened, Upstreamed, Awaiting
<1> QED
    BY <1>1, <1>2, <1>3 DEF IInv

\* No step changes what an earlier snapshot says.
Stable ==
    /\ generation \in Int /\ generation' \in Int /\ generation <= generation'
    /\ \A g \in Generations : g <= generation => config'[g] = config[g]

LEMMA GoodStays ==
    ASSUME Stable, NEW a, Good(a)
    PROVE  Good(a)'
<1>1. a \in Assets /\ a.generation \in Generations /\ a.generation \in Int
    BY DEF Good, Assets, Generations
<1>2. config'[a.generation] = config[a.generation] /\ a.generation <= generation'
    BY <1>1, SMT DEF Good, Stable
<1>3. RouteOf(a)' = RouteOf(a)
    BY <1>2 DEF RouteOf
<1> QED
    BY <1>1, <1>2, <1>3, Zenon DEF Good

LEMMA SpawnedStays ==
    ASSUME Stable, Spawned, inserts' \subseteq inserts
    PROVE  Spawned'
<1>1. ASSUME NEW a \in inserts' PROVE Good(a)'
    BY <1>1, GoodStays DEF Spawned
<1> QED
    BY <1>1 DEF Spawned

LEMMA Entry ==
    ASSUME Engines, NEW g \in Generations, NEW k \in Keys, NEW a, a = store[g][k], a # None
    PROVE  Good(a) /\ a.key = k /\ a.generation = g /\ ~BodyTooBig(a)
BY DEF Engines

LEMMA NewEntry ==
    ASSUME NEW g \in Generations, NEW k \in Keys, NEW a, a = store'[g][k],
           Good(a)', a.key = k, a.generation = g, ~BodyTooBig(a)
    PROVE  /\ Good(store[g][k])'
           /\ store'[g][k].key = k /\ store'[g][k].generation = g
           /\ ~BodyTooBig(store[g][k])'
BY DEF Good, RouteOf, BodyTooBig

\* An engine that forgets keeps what it keeps, key by key.
LEMMA EnginesForget ==
    ASSUME Stable, Engines,
           \A g \in Generations, k \in Keys : store'[g][k] = store[g][k] \/ store'[g][k] = None
    PROVE  Engines'
<1>1. ASSUME NEW g \in Generations, NEW k \in Keys, store'[g][k] # None
      PROVE  /\ Good(store[g][k])'
             /\ store'[g][k].key = k /\ store'[g][k].generation = g
             /\ ~BodyTooBig(store[g][k])'
  <2>1. PICK a : a = store[g][k] /\ a = store'[g][k] /\ a # None
    BY <1>1
  <2>2. Good(a) /\ a.key = k /\ a.generation = g /\ ~BodyTooBig(a)
    BY <2>1, Entry
  <2>3. Good(a)'
    BY <2>2, GoodStays
  <2> QED
    BY <2>1, <2>2, <2>3, NewEntry
<1> QED
    BY <1>1 DEF Engines

LEMMA EnginesStay ==
    ASSUME Stable, Engines, store' = store
    PROVE  Engines'
BY EnginesForget

\* A request at its place, and a response given, while configurations change
\* around them.
LEMMA PlaceStays ==
    ASSUME Types, Stable, NEW r \in Requests, ReqInv(r),
           pc'[r] = pc[r], req'[r] = req[r], snap'[r] = snap[r],
           reply'[r] = reply[r], passed'[r] = passed[r]
    PROVE  ReqInv(r)'
<1>1. snap[r] \in Generations /\ snap[r] \in Int
    BY DEF Types, Generations
<1>2. config'[snap[r]] = config[snap[r]] /\ snap[r] <= generation'
    BY <1>1, SMT DEF ReqInv, Stable
<1>3. Conf(r)' = Conf(r) /\ Route(r)' = Route(r)
    BY <1>2 DEF Conf, Route
<1>4. Cacheable(r, reply[r])' = Cacheable(r, reply[r])
    BY <1>3 DEF Cacheable, UsesCache
<1> QED
    BY <1>2, <1>3, <1>4 DEF ReqInv

LEMMA ResponseStays ==
    ASSUME Stable, NEW r \in Requests, RespInv(r),
           req'[r] = req[r], snap'[r] = snap[r], resp'[r] = resp[r]
    PROVE  RespInv(r)'
<1> SUFFICES ASSUME NEW x, x = resp[r], x # None
             PROVE  /\ IF x.mark \in {"HIT", "MISS"} THEN Good(x.asset)' ELSE x.asset = None
                    /\ x.mark = "HIT" => /\ x.asset # None
                                         /\ x.asset.key = req[r].key
                                         /\ x.asset.generation = snap[r]
    BY Zenon DEF RespInv
<1> QED
    BY GoodStays DEF RespInv

LEMMA SnapshotsStable ==
    ASSUME Types, UNCHANGED live
    PROVE  Stable
BY DEF Types, Stable, live, Generations

\* A step of one request, whatever it does to the engines.
LEMMA OthersStay ==
    ASSUME IInv, NEW r \in Requests, Stable, Types', Engines', Spawned',
           \A q \in Requests \ {r} : /\ pc'[q] = pc[q] /\ req'[q] = req[q] /\ snap'[q] = snap[q]
                                     /\ reply'[q] = reply[q] /\ resp'[q] = resp[q]
                                     /\ passed'[q] = passed[q],
           ReqInv(r)', RespInv(r)'
    PROVE  IInv'
<1>1. ASSUME NEW q \in Requests PROVE ReqInv(q)' /\ RespInv(q)'
  <2>1. CASE q = r
    BY <2>1
  <2>2. CASE q # r
    BY <2>2, PlaceStays, ResponseStays DEF IInv
  <2> QED
    BY <2>1, <2>2
<1> QED
    BY <1>1 DEF IInv

\* A step of one request, which leaves the engines and the insertions alone.
LEMMA OneRequest ==
    ASSUME IInv, NEW r \in Requests, UNCHANGED <<live, store, inserts>>, Types',
           \A q \in Requests \ {r} : /\ pc'[q] = pc[q] /\ req'[q] = req[q] /\ snap'[q] = snap[q]
                                     /\ reply'[q] = reply[q] /\ resp'[q] = resp[q]
                                     /\ passed'[q] = passed[q],
           ReqInv(r)', RespInv(r)'
    PROVE  IInv'
<1>1. Stable
    BY SnapshotsStable DEF IInv
<1>2. Engines' /\ Spawned'
    BY <1>1, EnginesStay, SpawnedStays DEF IInv
<1> QED
    BY <1>1, <1>2, OthersStay

\* A step that moves a request on and gives no response.
LEMMA MovesOn ==
    ASSUME IInv, NEW r \in Requests, UNCHANGED <<quiet, resp>>,
           NEW p \in Places, Goto(r, p),
           NEW gates \in SUBSET {"blacklist", "rate", "size", "auth"},
           passed' = [passed EXCEPT ![r] = gates],
           NEW a \in Replies \cup {None}, reply' = [reply EXCEPT ![r] = a],
           ReqInv(r)'
    PROVE  IInv'
<1>1. Types'
    BY DEF IInv, Types, quiet, live, Goto
<1>2. \A q \in Requests \ {r} : pc'[q] = pc[q] /\ reply'[q] = reply[q] /\ passed'[q] = passed[q]
    BY DEF IInv, Types, Goto
<1>3. RespInv(r)'
    BY SnapshotsStable, ResponseStays DEF IInv, quiet
<1> QED
    BY <1>1, <1>2, <1>3, OneRequest DEF quiet

\* A response without an asset.
Answers(r) ==
    /\ resp' = [resp EXCEPT ![r] = resp'[r]] /\ resp'[r] \in Responses
    /\ resp'[r].mark \notin {"HIT", "MISS"} /\ resp'[r].asset = None
    /\ reply' = [reply EXCEPT ![r] = reply'[r]] /\ reply'[r] \in Replies \cup {None}
    /\ UNCHANGED <<quiet, passed>>

LEMMA Responds ==
    ASSUME IInv, NEW r \in Requests, NEW p \in Places, Goto(r, p), Answers(r), ReqInv(r)'
    PROVE  IInv'
<1>1. Types'
    BY Zenon DEF IInv, Types, Goto, Answers, quiet, live
<1>2. \A q \in Requests \ {r} : pc'[q] = pc[q] /\ reply'[q] = reply[q] /\ resp'[q] = resp[q]
    BY DEF IInv, Types, Goto, Answers
<1>3. RespInv(r)'
    BY Zenon DEF RespInv, Answers
<1> QED
    BY <1>1, <1>2, <1>3, OneRequest DEF Answers, quiet

\* A request at rest has nothing to show.
LEMMA AtRest ==
    ASSUME IInv, NEW r \in Requests, UNCHANGED quiet, NEW p \in Rest, Goto(r, p)
    PROVE  ReqInv(r)'
<1>1. pc'[r] = p /\ p \in Rest
    BY DEF IInv, Types, Goto
<1>2. snap'[r] <= generation'
    BY DEF IInv, ReqInv, quiet, live
<1> QED
    BY <1>1, <1>2 DEF ReqInv, Rest, Screened, Upstreamed, Awaiting

\* What a request is sent from and routed by does not change under its feet.
LEMMA SameRoute ==
    ASSUME NEW r \in Requests, UNCHANGED quiet
    PROVE  /\ Conf(r)' = Conf(r) /\ Route(r)' = Route(r)
           /\ UsesCache(r)' = UsesCache(r)
           /\ req'[r] = req[r] /\ snap'[r] = snap[r] /\ generation' = generation
<1>1. Conf(r)' = Conf(r) /\ Route(r)' = Route(r)
    BY DEF quiet, live, Conf, Route
<1>2. req'[r] = req[r] /\ snap'[r] = snap[r] /\ generation' = generation
    BY DEF quiet, live
<1> QED
    BY <1>1, <1>2 DEF UsesCache

-----------------------------------------------------------------------------
(* The handler's steps that give no response.                              *)

LEMMA NotBlacklistedInv ==
    ASSUME IInv, NEW r \in Requests, NotBlacklisted(r)
    PROVE  IInv'
<1>1. pc'[r] = "limit" /\ passed'[r] = passed[r] \cup {"blacklist"} /\ req[r] \in Inputs
    BY DEF NotBlacklisted, Goto, Pass, IInv, Types, ReqInv, Rest
<1>2. ReqInv(r)'
    BY <1>1, SameRoute DEF NotBlacklisted, IInv, ReqInv, Rest, Screened, Upstreamed, Awaiting
<1>3. /\ passed' = [passed EXCEPT ![r] = passed[r] \cup {"blacklist"}]
      /\ passed[r] \cup {"blacklist"} \in SUBSET {"blacklist", "rate", "size", "auth"}
    BY DEF NotBlacklisted, Pass, IInv, Types
<1>4. reply' = [reply EXCEPT ![r] = reply[r]] /\ reply[r] \in Replies \cup {None}
    BY DEF NotBlacklisted, IInv, Types
<1> QED
    BY <1>2, <1>3, <1>4, MovesOn, Zenon DEF NotBlacklisted, Places

LEMMA AdmitInv ==
    ASSUME IInv, NEW r \in Requests, Admit(r)
    PROVE  IInv'
<1>1. PICK p \in {"lookup", "dispatch"} : Goto(r, p)
    BY DEF Admit
<1>2. pc'[r] = p /\ passed'[r] = passed[r] \cup {"rate", "size"} /\ req[r] \in Inputs
      /\ "blacklist" \in passed[r]
    BY <1>1 DEF Admit, Goto, IInv, Types, ReqInv, Rest
<1>3. ReqInv(r)'
    BY <1>2, SameRoute DEF Admit, IInv, ReqInv, Rest, Screened, Upstreamed, Awaiting
<1>4. /\ passed' = [passed EXCEPT ![r] = passed[r] \cup {"rate", "size"}]
      /\ passed[r] \cup {"rate", "size"} \in SUBSET {"blacklist", "rate", "size", "auth"}
    BY DEF Admit, IInv, Types
<1>5. reply' = [reply EXCEPT ![r] = reply[r]] /\ reply[r] \in Replies \cup {None}
    BY DEF Admit, IInv, Types
<1> QED
    BY <1>1, <1>3, <1>4, <1>5, MovesOn, Zenon DEF Admit, Places

\* The route is known from here on, and with it whether the provider must agree.
LEMMA DispatchInv ==
    ASSUME IInv, NEW r \in Requests, Dispatch(r)
    PROVE  IInv'
<1>1. PICK p \in {"auth", "forward"} :
          Goto(r, p) /\ (p = "forward" => ~Route(r).auth_required)
    BY DEF Dispatch
<1>2. pc'[r] = p /\ passed'[r] = passed[r] /\ req[r] \in Inputs /\ pc[r] \in Screened
    BY <1>1 DEF Dispatch, Goto, IInv, Types, ReqInv, Rest, Screened
<1>3. ReqInv(r)'
    BY <1>1, <1>2, SameRoute DEF Dispatch, IInv, ReqInv, Rest, Screened, Upstreamed, Awaiting
<1>4. passed' = [passed EXCEPT ![r] = passed[r]] /\ reply' = [reply EXCEPT ![r] = reply[r]]
    BY DEF Dispatch, IInv, Types
<1>5. /\ passed[r] \in SUBSET {"blacklist", "rate", "size", "auth"}
      /\ reply[r] \in Replies \cup {None}
    BY DEF IInv, Types
<1> QED
    BY <1>1, <1>3, <1>4, <1>5, MovesOn, Zenon DEF Dispatch, Places, Awaiting

LEMMA AuthSuccessInv ==
    ASSUME IInv, NEW r \in Requests, AuthSuccess(r)
    PROVE  IInv'
<1>1. /\ pc'[r] = "forward" /\ passed'[r] = passed[r] \cup {"auth"}
      /\ req[r] \in Inputs /\ pc[r] \in Screened /\ pc[r] \in Awaiting
    BY DEF AuthSuccess, Goto, Pass, IInv, Types, ReqInv, Rest, Screened, Awaiting
<1>2. ReqInv(r)'
    BY <1>1, SameRoute DEF AuthSuccess, IInv, ReqInv, Rest, Screened, Upstreamed, Awaiting
<1>3. /\ passed' = [passed EXCEPT ![r] = passed[r] \cup {"auth"}]
      /\ passed[r] \cup {"auth"} \in SUBSET {"blacklist", "rate", "size", "auth"}
    BY DEF AuthSuccess, Pass, IInv, Types
<1>4. reply' = [reply EXCEPT ![r] = reply[r]] /\ reply[r] \in Replies \cup {None}
    BY DEF AuthSuccess, IInv, Types
<1> QED
    BY <1>2, <1>3, <1>4, MovesOn, Zenon DEF AuthSuccess, Places

\* Between two places behind the route and its checks, and from any place to
\* rest.
LEMMA StaysChecked ==
    ASSUME IInv, NEW r \in Requests, UNCHANGED <<quiet, resp, passed>>,
           pc[r] \in {"forward"} \cup Upstreamed,
           NEW p \in (Upstreamed \ {"collect"}) \cup Rest, Goto(r, p),
           NEW a \in Replies \cup {None}, reply' = [reply EXCEPT ![r] = a]
    PROVE  IInv'
<1>1. pc'[r] = p /\ passed'[r] = passed[r] /\ req[r] \in Inputs
    BY DEF Goto, IInv, Types, ReqInv, Rest, Upstreamed, Awaiting
<1>2. ReqInv(r)'
    BY <1>1, SameRoute DEF IInv, ReqInv, Rest, Screened, Upstreamed, Awaiting
<1>3. /\ passed' = [passed EXCEPT ![r] = passed[r]]
      /\ passed[r] \in SUBSET {"blacklist", "rate", "size", "auth"} /\ p \in Places
    BY DEF IInv, Types, Places, Upstreamed
<1> QED
    BY <1>2, <1>3, MovesOn, Zenon

LEMMA ForwardInv ==
    ASSUME IInv, NEW r \in Requests, ForwardFails(r) \/ Forward(r)
    PROVE  IInv'
<1>1. PICK p \in {"idle", "upstream"} : Goto(r, p)
    BY DEF ForwardFails, Forward
<1>2. reply' = [reply EXCEPT ![r] = reply[r]] /\ reply[r] \in Replies \cup {None}
    BY DEF ForwardFails, Forward, IInv, Types
<1> QED
    BY <1>1, <1>2, StaysChecked, Zenon DEF ForwardFails, Forward, Rest, Upstreamed, Awaiting

LEMMA TunnelInv ==
    ASSUME IInv, NEW r \in Requests, NEW ok \in BOOLEAN,
           TunnelClient(r, ok) \/ TunnelUpstream(r, ok) \/ TunnelCloses(r)
    PROVE  IInv'
<1>1. PICK p \in {"tunnel_upstream", "tunnel_open", "done"} : Goto(r, p)
    BY Zenon DEF TunnelClient, TunnelUpstream, TunnelCloses
<1>2. reply' = [reply EXCEPT ![r] = reply[r]] /\ reply[r] \in Replies \cup {None}
    BY DEF TunnelClient, TunnelUpstream, TunnelCloses, IInv, Types
<1>3. UNCHANGED <<quiet, resp, passed>> /\ pc[r] \in {"forward"} \cup Upstreamed
    BY DEF TunnelClient, TunnelUpstream, TunnelCloses, Upstreamed, Awaiting
<1>4. p \in (Upstreamed \ {"collect"}) \cup Rest
    BY DEF Rest, Upstreamed, Awaiting
<1> QED
    BY <1>1, <1>2, <1>3, <1>4, StaysChecked, Zenon

LEMMA CancelInv ==
    ASSUME IInv, NEW r \in Requests, Cancel(r)
    PROVE  IInv'
<1>1. ReqInv(r)'
    BY AtRest DEF Cancel, Rest
<1>2. passed' = [passed EXCEPT ![r] = passed[r]] /\ passed[r] \in SUBSET {"blacklist", "rate", "size", "auth"}
    BY DEF Cancel, IInv, Types
<1> QED
    BY <1>1, <1>2, MovesOn, Zenon DEF Cancel, Places, Rest

\* The answer that is collected is one the snapshot of the request lets in.
LEMMA CollectInv ==
    ASSUME IInv, NEW r \in Requests, NEW a \in Replies, Collect(r, a)
    PROVE  IInv'
<1>1. /\ pc'[r] = "collect" /\ passed'[r] = passed[r] /\ reply'[r] = a /\ req[r] \in Inputs
      /\ pc[r] \in Screened /\ pc[r] \in Awaiting /\ pc[r] \in Upstreamed
    BY DEF Collect, Goto, IInv, Types, ReqInv, Rest, Screened, Upstreamed, Awaiting
<1>2. Cacheable(r, reply[r])'
    BY <1>1, SameRoute DEF Collect, Cacheable
<1>3. ReqInv(r)'
    BY <1>1, <1>2, SameRoute DEF Collect, IInv, ReqInv, Rest, Screened, Upstreamed, Awaiting
<1>4. passed' = [passed EXCEPT ![r] = passed[r]] /\ passed[r] \in SUBSET {"blacklist", "rate", "size", "auth"}
    BY DEF Collect, IInv, Types
<1> QED
    BY <1>3, <1>4, MovesOn, Zenon DEF Collect, Places, Awaiting

-----------------------------------------------------------------------------
(* The handler's responses without an asset.                               *)

LEMMA Returns ==
    ASSUME IInv, NEW r \in Requests,
           NEW x \in Responses, x.mark \notin {"HIT", "MISS"}, x.asset = None, resp' = [resp EXCEPT ![r] = x],
           reply' = reply \/ reply' = [reply EXCEPT ![r] = None], UNCHANGED <<quiet, passed>>
    PROVE  Answers(r)
<1>1. resp'[r] = x
    BY DEF IInv, Types
<1>2. reply' = [reply EXCEPT ![r] = reply'[r]] /\ reply'[r] \in Replies \cup {None}
    BY DEF IInv, Types
<1>3. resp' = [resp EXCEPT ![r] = resp'[r]]
    BY <1>1, Zenon
<1>4. resp'[r] \in Responses /\ resp'[r].mark \notin {"HIT", "MISS"} /\ resp'[r].asset = None
    BY <1>1
<1> QED
    BY <1>2, <1>3, <1>4, Zenon DEF Answers

LEMMA RespondsAndEnds ==
    ASSUME IInv, NEW r \in Requests, Goto(r, "done"), Answers(r)
    PROVE  IInv'
<1>1. ReqInv(r)' /\ "done" \in Places
    BY AtRest DEF Answers, Rest, Places
<1> QED
    BY <1>1, Responds

\* `return Ok(...)' in the middle of the handler.
LEMMA EarlyInv ==
    ASSUME IInv, NEW r \in Requests,
           \/ Blacklisted(r) \/ RateLimited(r) \/ PayloadTooLarge(r) \/ AuthMisconfigured(r)
           \/ \E status \in AuthStatuses : AuthDenied(r, status)
           \/ AuthError(r)
    PROVE  IInv'
<1>1. Goto(r, "done")
    BY DEF Blacklisted, RateLimited, PayloadTooLarge, AuthMisconfigured, AuthDenied, AuthError,
           ReturnEarly, Return
<1>2. CASE Blacklisted(r)
  <2> DEFINE x == [status |-> 444, mark |-> "none", secured |-> FALSE, logged |-> FALSE, asset |-> None]
  <2>1. x \in Responses /\ x.mark \notin {"HIT", "MISS"} /\ x.asset = None
    BY DEF Responses, Stored, Marks
  <2>2. resp' = [resp EXCEPT ![r] = x] /\ UNCHANGED <<quiet, reply, passed>>
    BY <1>2 DEF Blacklisted, ReturnEarly, Return
  <2> HIDE DEF x
  <2> QED
    BY <1>1, <2>1, <2>2, Returns, RespondsAndEnds, Zenon
<1>3. CASE RateLimited(r)
  <2> DEFINE x == [status |-> 429, mark |-> "none", secured |-> FALSE, logged |-> TRUE, asset |-> None]
  <2>1. x \in Responses /\ x.mark \notin {"HIT", "MISS"} /\ x.asset = None
    BY DEF Responses, Stored, Marks
  <2>2. resp' = [resp EXCEPT ![r] = x] /\ UNCHANGED <<quiet, reply, passed>>
    BY <1>3 DEF RateLimited, ReturnEarly, Return
  <2> HIDE DEF x
  <2> QED
    BY <1>1, <2>1, <2>2, Returns, RespondsAndEnds, Zenon
<1>4. CASE PayloadTooLarge(r)
  <2> DEFINE x == [status |-> 413, mark |-> "none", secured |-> FALSE, logged |-> FALSE, asset |-> None]
  <2>1. x \in Responses /\ x.mark \notin {"HIT", "MISS"} /\ x.asset = None
    BY DEF Responses, Stored, Marks
  <2>2. resp' = [resp EXCEPT ![r] = x] /\ UNCHANGED <<quiet, reply, passed>>
    BY <1>4 DEF PayloadTooLarge, ReturnEarly, Return
  <2> HIDE DEF x
  <2> QED
    BY <1>1, <2>1, <2>2, Returns, RespondsAndEnds, Zenon
<1>5. CASE AuthMisconfigured(r)
  <2> DEFINE x == [status |-> 500, mark |-> "none", secured |-> FALSE, logged |-> FALSE, asset |-> None]
  <2>1. x \in Responses /\ x.mark \notin {"HIT", "MISS"} /\ x.asset = None
    BY DEF Responses, Stored, Marks
  <2>2. resp' = [resp EXCEPT ![r] = x] /\ UNCHANGED <<quiet, reply, passed>>
    BY <1>5 DEF AuthMisconfigured, ReturnEarly, Return
  <2> HIDE DEF x
  <2> QED
    BY <1>1, <2>1, <2>2, Returns, RespondsAndEnds, Zenon
<1>6. ASSUME NEW status \in AuthStatuses, AuthDenied(r, status) PROVE IInv'
  <2> DEFINE x == [status |-> status, mark |-> "none", secured |-> FALSE, logged |-> FALSE, asset |-> None]
  <2>1. x \in Responses /\ x.mark \notin {"HIT", "MISS"} /\ x.asset = None
    BY AuthAssumption DEF Responses, Stored, Marks
  <2>2. resp' = [resp EXCEPT ![r] = x] /\ UNCHANGED <<quiet, reply, passed>>
    BY <1>6 DEF AuthDenied, ReturnEarly, Return
  <2> HIDE DEF x
  <2> QED
    BY <1>1, <2>1, <2>2, Returns, RespondsAndEnds, Zenon
<1>7. CASE AuthError(r)
  <2> DEFINE x == [status |-> 500, mark |-> "none", secured |-> FALSE, logged |-> FALSE, asset |-> None]
  <2>1. x \in Responses /\ x.mark \notin {"HIT", "MISS"} /\ x.asset = None
    BY DEF Responses, Stored, Marks
  <2>2. resp' = [resp EXCEPT ![r] = x] /\ UNCHANGED <<quiet, reply, passed>>
    BY <1>7 DEF AuthError, ReturnEarly, Return
  <2> HIDE DEF x
  <2> QED
    BY <1>1, <2>1, <2>2, Returns, RespondsAndEnds, Zenon
<1> QED
    BY <1>2, <1>3, <1>4, <1>5, <1>6, <1>7

\* The end of the handler.
LEMMA FinishInv ==
    ASSUME IInv, NEW r \in Requests,
           \/ NoMatchingRoute(r) \/ UpstreamFails(r)
           \/ \E a \in Replies : InterceptError(r, a) \/ Bypass(r, a)
           \/ CollectFails(r)
    PROVE  IInv'
<1>1. Goto(r, "done")
    BY DEF NoMatchingRoute, UpstreamFails, InterceptError, Bypass, CollectFails, Finish, Return
<1>2. CASE NoMatchingRoute(r)
  <2> DEFINE x == [status |-> 444, mark |-> "none", secured |-> TRUE, logged |-> TRUE, asset |-> None]
  <2>1. x \in Responses /\ x.mark \notin {"HIT", "MISS"} /\ x.asset = None
    BY DEF Responses, Stored, Marks
  <2>2. resp' = [resp EXCEPT ![r] = x] /\ UNCHANGED <<quiet, reply, passed>>
    BY <1>2 DEF NoMatchingRoute, Finish, Return
  <2> HIDE DEF x
  <2> QED
    BY <1>1, <2>1, <2>2, Returns, RespondsAndEnds, Zenon
<1>3. CASE UpstreamFails(r)
  <2> DEFINE x == [status |-> 502, mark |-> "none", secured |-> TRUE, logged |-> TRUE, asset |-> None]
  <2>1. x \in Responses /\ x.mark \notin {"HIT", "MISS"} /\ x.asset = None
    BY DEF Responses, Stored, Marks
  <2>2. resp' = [resp EXCEPT ![r] = x] /\ UNCHANGED <<quiet, reply, passed>>
    BY <1>3 DEF UpstreamFails, Finish, Return
  <2> HIDE DEF x
  <2> QED
    BY <1>1, <2>1, <2>2, Returns, RespondsAndEnds, Zenon
<1>4. ASSUME NEW a \in Replies, InterceptError(r, a) PROVE IInv'
  <2>1. a.status \in Nat
    BY RepliesAssumption
  <2> DEFINE x == [status |-> a.status, mark |-> "none", secured |-> TRUE, logged |-> FALSE, asset |-> None]
  <2>2. x \in Responses /\ x.mark \notin {"HIT", "MISS"} /\ x.asset = None
    BY <2>1 DEF Responses, Stored, Marks
  <2>3. resp' = [resp EXCEPT ![r] = x] /\ UNCHANGED <<quiet, reply, passed>>
    BY <1>4 DEF InterceptError, Return
  <2> HIDE DEF x
  <2> QED
    BY <1>1, <2>2, <2>3, Returns, RespondsAndEnds, Zenon
<1>5. ASSUME NEW a \in Replies, Bypass(r, a) PROVE IInv'
  <2>1. a.status \in Nat
    BY RepliesAssumption
  <2> DEFINE x == [status |-> a.status, mark |-> "BYPASS", secured |-> TRUE, logged |-> TRUE, asset |-> None]
  <2>2. x \in Responses /\ x.mark \notin {"HIT", "MISS"} /\ x.asset = None
    BY <2>1 DEF Responses, Stored, Marks
  <2>3. resp' = [resp EXCEPT ![r] = x] /\ UNCHANGED <<quiet, reply, passed>>
    BY <1>5 DEF Bypass, Finish, Return
  <2> HIDE DEF x
  <2> QED
    BY <1>1, <2>2, <2>3, Returns, RespondsAndEnds, Zenon
<1>6. CASE CollectFails(r)
  <2>1. reply[r].status \in Nat
    BY <1>6, RepliesAssumption DEF CollectFails, IInv, ReqInv
  <2>2. UNCHANGED <<quiet, passed>>
    BY <1>6 DEF CollectFails, quiet
  <2> DEFINE x == [status |-> reply[r].status, mark |-> "none", secured |-> TRUE, logged |-> TRUE, asset |-> None]
  <2>3. x \in Responses /\ x.mark \notin {"HIT", "MISS"} /\ x.asset = None
    BY <2>1 DEF Responses, Stored, Marks
  <2>4. resp' = [resp EXCEPT ![r] = x] /\ reply' = [reply EXCEPT ![r] = None] /\ UNCHANGED <<quiet, passed>>
    BY <1>6, <2>2 DEF CollectFails, Finish, Return
  <2> HIDE DEF x
  <2> QED
    BY <1>1, <2>3, <2>4, Returns, RespondsAndEnds, Zenon
<1> QED
    BY <1>2, <1>3, <1>4, <1>5, <1>6

LEMMA SwitchProtocolsInv ==
    ASSUME IInv, NEW r \in Requests, NEW a \in Replies, SwitchProtocols(r, a)
    PROVE  IInv'
<1>1. /\ pc'[r] = "tunnel_client" /\ passed'[r] = passed[r] /\ req[r] \in Inputs
      /\ pc[r] \in Screened /\ pc[r] \in Awaiting /\ pc[r] \in Upstreamed
    BY DEF SwitchProtocols, Finish, Return, Goto, IInv, Types, ReqInv, Rest, Screened,
           Upstreamed, Awaiting
<1>2. ReqInv(r)'
    BY <1>1, SameRoute DEF SwitchProtocols, IInv, ReqInv, Rest, Screened, Upstreamed, Awaiting
<1> DEFINE x == [status |-> 101, mark |-> "none", secured |-> TRUE, logged |-> TRUE, asset |-> None]
<1>3. x \in Responses /\ x.mark \notin {"HIT", "MISS"} /\ x.asset = None
    BY DEF Responses, Stored, Marks
<1>4. resp' = [resp EXCEPT ![r] = x] /\ UNCHANGED <<quiet, reply, passed>>
    BY DEF SwitchProtocols, Finish, Return
<1> HIDE DEF x
<1>5. Answers(r)
    BY <1>3, <1>4, Returns, Zenon
<1>6. Goto(r, "tunnel_client") /\ "tunnel_client" \in Places
    BY DEF SwitchProtocols, Finish, Return, Places, Awaiting
<1> QED
    BY <1>2, <1>5, <1>6, Responds

-----------------------------------------------------------------------------
(* The cache.                                                              *)

\* A hit is an asset of the engine in the request's own snapshot.
LEMMA CacheHitInv ==
    ASSUME IInv, NEW r \in Requests, CacheHit(r)
    PROVE  IInv'
<1>1. PICK a : a = store[snap[r]][req[r].key]
    OBVIOUS
<1>2. req[r].key \in Keys /\ snap[r] \in Generations /\ a # None
    BY <1>1, InputsAssumption DEF CacheHit, IInv, Types, ReqInv, Rest
<1>3. Good(a) /\ a.key = req[r].key /\ a.generation = snap[r]
    BY <1>1, <1>2 DEF IInv, Engines
<1> DEFINE x == [status |-> a.reply.status, mark |-> "HIT", secured |-> FALSE, logged |-> TRUE,
                 asset |-> a]
<1>4. pc' = [pc EXCEPT ![r] = "done"] /\ resp' = [resp EXCEPT ![r] = x]
    BY <1>1 DEF CacheHit, Return, Goto
<1>5. x \in Responses /\ x.asset = a /\ x.mark = "HIT"
    BY <1>3 DEF Responses, Stored, Good, Marks
<1> HIDE DEF x
<1>6. Types'
    BY <1>4, <1>5 DEF CacheHit, IInv, Types, quiet, live, Places, Rest
<1>7. ReqInv(r)'
    BY <1>4, AtRest, Zenon DEF CacheHit, Goto, Rest
<1>8. RespInv(r)'
  <2>1. resp'[r] = x /\ req'[r] = req[r] /\ snap'[r] = snap[r]
    BY <1>4, SameRoute DEF CacheHit, IInv, Types
  <2>2. Good(a)'
    BY <1>3, SnapshotsStable, GoodStays, Zenon DEF CacheHit, quiet, IInv
  <2>3. Good(resp[r].asset)'
    BY <1>5, <2>1, <2>2, Zenon DEF Good, RouteOf
  <2>4. resp'[r].asset # None /\ resp'[r].asset.key = req'[r].key /\ resp'[r].asset.generation = snap'[r]
    BY <1>2, <1>3, <1>5, <2>1
  <2> QED
    BY <1>5, <2>1, <2>3, <2>4, Zenon DEF RespInv
<1>9. \A q \in Requests \ {r} : pc'[q] = pc[q] /\ resp'[q] = resp[q]
    BY <1>4 DEF IInv, Types
<1> QED
    BY <1>6, <1>7, <1>8, <1>9, OneRequest DEF CacheHit, quiet


LEMMA CacheMissInv ==
    ASSUME IInv, NEW r \in Requests, CacheMiss(r)
    PROVE  IInv'
<1>1. Stable /\ Spawned'
    BY SnapshotsStable, SpawnedStays DEF CacheMiss, IInv
<1>2. req[r] \in Inputs /\ req[r].key \in Keys /\ snap[r] \in Generations /\ pc[r] \in Screened
    BY InputsAssumption, Zenon DEF CacheMiss, IInv, Types, ReqInv, Rest, Screened
<1>3. /\ store' \in [Generations -> [Keys -> Stored]]
      /\ \A g \in Generations, k \in Keys : store'[g][k] = store[g][k] \/ store'[g][k] = None
    BY <1>2 DEF CacheMiss, IInv, Types, Stored
<1>4. Engines'
    BY <1>1, <1>3, EnginesForget DEF IInv
<1>5. Types'
    BY <1>3 DEF CacheMiss, Goto, IInv, Types, live, Places
<1>6. pc'[r] = "dispatch" /\ \A q \in Requests \ {r} : pc'[q] = pc[q]
    BY DEF CacheMiss, Goto, IInv, Types
<1>7. ReqInv(r)'
    BY <1>2, <1>6 DEF CacheMiss, live, IInv, ReqInv, Rest, Screened, Upstreamed, Awaiting
<1>8. RespInv(r)'
    BY <1>1, ResponseStays DEF CacheMiss, IInv
<1> QED
    BY <1>1, <1>4, <1>5, <1>6, <1>7, <1>8, OthersStay DEF CacheMiss

\* What a request collects is an asset its own snapshot allows.
LEMMA AssetIsGood ==
    ASSUME IInv, NEW r \in Requests, pc[r] = "collect", BodyWhole(Asset(r))
    PROVE  Good(Asset(r))
<1>1. /\ req[r] \in Inputs /\ snap[r] \in Generations /\ snap[r] <= generation
      /\ reply[r] \in Replies /\ Cacheable(r, reply[r]) /\ Route(r) # NoRoute
    BY DEF IInv, Types, ReqInv, Rest, Awaiting
<1>2. req[r].key \in Keys /\ req[r].method \in Methods
    BY <1>1, InputsAssumption
<1>3. Route(r).upstream \in Upstreams
  <2>1. Conf(r) \in Configs
    BY <1>1 DEF Conf, IInv, Types
  <2> QED
    BY <1>1, <1>2, <2>1 DEF Route, Upstreams
<1>4. PICK a : a = Asset(r)
    OBVIOUS
<1>5. /\ a \in Assets /\ a.key = req[r].key /\ a.generation = snap[r] /\ a.reply = reply[r]
      /\ a.upstream = Route(r).upstream /\ a.method = req[r].method /\ BodyWhole(a)
    BY <1>1, <1>2, <1>3, <1>4 DEF Asset, Assets
<1>6. RouteOf(a) = Route(r) /\ config[a.generation] = Conf(r)
    BY <1>5 DEF RouteOf, Route, Conf
<1>7. /\ UsesCache(r) /\ reply[r].status = 200 /\ ~reply[r].no_store
      /\ IsStaticAsset(req[r].key, reply[r].static_type)
    BY <1>1 DEF Cacheable
<1>8. Conf(r).cache /\ Route(r).cache # "off" /\ req[r].method \in {"GET", "HEAD"}
    BY <1>1, <1>7, Zenon DEF UsesCache
<1>9. Good(a)
    BY <1>1, <1>5, <1>6, <1>7, <1>8 DEF Good
<1> QED
    BY <1>4, <1>9

LEMMA CollectSucceedsInv ==
    ASSUME IInv, NEW r \in Requests, CollectSucceeds(r)
    PROVE  IInv'
<1>1. PICK a : a = Asset(r)
    OBVIOUS
<1>2. Good(a) /\ a \in Assets /\ Stable
  <2>1. Good(a)
    BY <1>1, AssetIsGood DEF CollectSucceeds
  <2>2. Stable
    BY SnapshotsStable DEF CollectSucceeds, IInv
  <2> QED
    BY <2>1, <2>2 DEF Good
<1>3. Good(a)'
    BY <1>2, GoodStays
<1> DEFINE x == [status |-> reply[r].status, mark |-> "MISS", secured |-> TRUE, logged |-> TRUE,
                 asset |-> a]
<1>4. reply[r].status \in Nat
    BY RepliesAssumption DEF CollectSucceeds, IInv, ReqInv
<1>5. pc' = [pc EXCEPT ![r] = "done"] /\ resp' = [resp EXCEPT ![r] = x]
    BY <1>1 DEF CollectSucceeds, Finish, Return, Goto
<1>6. x \in Responses /\ x.asset = a /\ x.mark = "MISS"
    BY <1>2, <1>4 DEF Responses, Stored, Marks
<1> HIDE DEF x
<1>7. inserts' = inserts \cup {a}
    BY <1>1 DEF CollectSucceeds
<1>8. Types'
    BY <1>2, <1>5, <1>6, <1>7 DEF CollectSucceeds, IInv, Types, live, Places, Rest
<1>9. Engines'
    BY <1>2, EnginesStay DEF CollectSucceeds, IInv
<1>10. Spawned'
  <2>1. ASSUME NEW b \in inserts' PROVE Good(b)'
    <3>1. CASE b = a
      BY <1>3, <3>1
    <3>2. CASE b # a
      BY <1>2, <1>7, <3>2, GoodStays DEF IInv, Spawned
    <3> QED
      BY <3>1, <3>2
  <2> QED
    BY <2>1 DEF Spawned
<1>11. ReqInv(r)'
  <2>1. pc'[r] = "done" /\ snap'[r] <= generation'
    BY <1>5 DEF CollectSucceeds, IInv, Types, ReqInv, live
  <2> QED
    BY <2>1 DEF ReqInv, Rest, Screened, Upstreamed, Awaiting
<1>12. RespInv(r)'
  <2>1. resp'[r] = x
    BY <1>5 DEF IInv, Types
  <2>2. Good(resp[r].asset)'
    BY <1>3, <1>6, <2>1, Zenon DEF Good, RouteOf
  <2> QED
    BY <1>6, <2>1, <2>2, Zenon DEF RespInv
<1>13. \A q \in Requests \ {r} : pc'[q] = pc[q] /\ resp'[q] = resp[q] /\ reply'[q] = reply[q]
    BY <1>5 DEF CollectSucceeds, IInv, Types
<1> QED
    BY <1>2, <1>8, <1>9, <1>10, <1>11, <1>12, <1>13, OthersStay, Zenon DEF CollectSucceeds

\* The engine the request held takes the asset, or leaves it out, or forgets.
LEMMA InsertInv ==
    ASSUME IInv, NEW a \in inserts, NEW evicted, NEW room,
           Insert(a, evicted, room)
    PROVE  IInv'
<1>1. Stable /\ Spawned'
    BY SnapshotsStable, SpawnedStays DEF Insert, IInv
<1>2. Good(a) /\ Good(a)' /\ a \in Assets /\ a.generation \in Generations /\ a.key \in Keys
    BY <1>1, GoodStays DEF IInv, Spawned, Types, Assets
<1>3. /\ store' \in [Generations -> [Keys -> Stored]]
      /\ \A g \in Generations, k \in Keys :
            \/ store'[g][k] = store[g][k]
            \/ store'[g][k] = None
            \/ store'[g][k] = a /\ g = a.generation /\ k = a.key /\ ~BodyTooBig(a)
    BY <1>2 DEF Insert, IInv, Types, Stored
<1>4. Types'
    BY <1>3 DEF Insert, IInv, Types, live
<1>5. Engines'
  <2>1. ASSUME NEW g \in Generations, NEW k \in Keys, store'[g][k] # None
        PROVE  /\ Good(store[g][k])'
               /\ store'[g][k].key = k /\ store'[g][k].generation = g
               /\ ~BodyTooBig(store[g][k])'
    <3>1. PICK b : b = store'[g][k]
      OBVIOUS
    <3>2. Good(b)' /\ b.key = k /\ b.generation = g /\ ~BodyTooBig(b)
      <4>1. CASE b = store[g][k]
        <5>1. Good(b) /\ b.key = k /\ b.generation = g /\ ~BodyTooBig(b)
          BY <2>1, <3>1, <4>1, Entry DEF IInv
        <5> QED
          BY <1>1, <5>1, GoodStays
      <4>2. CASE b = a /\ g = a.generation /\ k = a.key /\ ~BodyTooBig(a)
        BY <1>2, <4>2
      <4> QED
        BY <1>3, <2>1, <3>1, <4>1, <4>2
    <3> QED
      BY <3>1, <3>2, NewEntry
  <2> QED
    BY <2>1 DEF Engines
<1>6. \A r \in Requests : ReqInv(r)' /\ RespInv(r)'
    BY <1>1, PlaceStays, ResponseStays DEF Insert, IInv
<1> QED
    BY <1>1, <1>4, <1>5, <1>6 DEF IInv

-----------------------------------------------------------------------------
(* Arrivals, reloads, and the invariant.                                   *)

LEMMA ArriveInv ==
    ASSUME IInv, NEW r \in Requests, NEW i \in Inputs, Arrive(r, i)
    PROVE  IInv'
<1>1. arrivals' \in 0..MaxArrivals
    BY BoundsAssumption DEF Arrive, IInv, Types
<1>2. Types'
    BY <1>1 DEF Arrive, Goto, IInv, Types, live, Places
<1>3. /\ pc'[r] = "screen" /\ req'[r] = i /\ snap'[r] = generation' /\ resp'[r] = None
      /\ generation' \in Int
    BY DEF Arrive, Goto, IInv, Types, live, Generations
<1>4. ReqInv(r)' /\ RespInv(r)'
  <2>1. ReqInv(r)'
    BY <1>3 DEF ReqInv, Rest, Screened, Upstreamed, Awaiting
  <2>2. RespInv(r)'
    BY <1>3, Zenon DEF RespInv
  <2> QED
    BY <2>1, <2>2
<1>5. \A q \in Requests \ {r} : /\ pc'[q] = pc[q] /\ req'[q] = req[q] /\ snap'[q] = snap[q]
                                /\ resp'[q] = resp[q] /\ passed'[q] = passed[q]
    BY DEF Arrive, Goto, IInv, Types
<1> QED
    BY <1>2, <1>4, <1>5, OneRequest DEF Arrive

\* A reload fills the next slot and leaves the earlier snapshots alone.
LEMMA ReloadInv ==
    ASSUME IInv, NEW c \in Configs, Reload(c)
    PROVE  IInv'
<1>1. generation + 1 \in Generations /\ generation \in Int
    BY BoundsAssumption DEF Reload, IInv, Types, Generations
<1>2. Stable
    BY <1>1 DEF Reload, Stable, IInv, Types, Generations
<1>3. Types'
    BY <1>1 DEF Reload, IInv, Types
<1>4. Engines' /\ Spawned'
    BY <1>2, EnginesStay, SpawnedStays DEF Reload, IInv
<1>5. \A r \in Requests : ReqInv(r)' /\ RespInv(r)'
    BY <1>2, PlaceStays, ResponseStays, Zenon DEF Reload, IInv
<1> QED
    BY <1>3, <1>4, <1>5 DEF IInv

LEMMA NextInv ==
    ASSUME IInv, Next
    PROVE  IInv'
<1>1. ASSUME NEW r \in Requests, Handle(r) PROVE IInv'
    BY <1>1, EarlyInv, NotBlacklistedInv, AdmitInv, CacheHitInv, CacheMissInv, FinishInv,
       DispatchInv, ForwardInv DEF Handle
<1>2. ASSUME NEW r \in Requests, Answered(r) PROVE IInv'
    BY <1>2, AuthSuccessInv, EarlyInv, FinishInv, SwitchProtocolsInv, CollectInv,
       CollectSucceedsInv, CancelInv, TunnelInv, Zenon DEF Answered
<1>3. ASSUME RunInsert PROVE IInv'
    BY <1>3, InsertInv DEF RunInsert
<1> QED
    BY <1>1, <1>2, <1>3, ArriveInv, ReloadInv DEF Next

LEMMA StutterInv ==
    ASSUME IInv, UNCHANGED vars
    PROVE  IInv'
<1>1. Stable /\ Types'
    BY SnapshotsStable DEF vars, live, IInv, Types
<1>2. Engines' /\ Spawned'
    BY <1>1, EnginesStay, SpawnedStays DEF vars, IInv
<1>3. \A r \in Requests : ReqInv(r)' /\ RespInv(r)'
    BY <1>1, PlaceStays, ResponseStays DEF vars, IInv
<1> QED
    BY <1>1, <1>2, <1>3 DEF IInv

\* The invariant holds in every reachable state, however many requests and
\* reloads there are and however they interleave.
THEOREM Invariance == Spec => []IInv
<1>1. IInv /\ [Next]_vars => IInv'
    BY NextInv, StutterInv
<1> QED
    BY InitInv, <1>1, PTL DEF Spec

-----------------------------------------------------------------------------
(* The properties.                                                         *)

\* Every reachable state of the handlers, engines and spawned tasks is
\* well typed, and a response is marked for what it carries.
THEOREM TypeCorrectness == Spec => []TypeOK
<1>1. IInv => TypeOK
  <2> SUFFICES ASSUME IInv PROVE TypeOK
    OBVIOUS
  <2>1. ASSUME NEW r \in Requests, resp[r] # None
        PROVE  IF resp[r].mark \in {"HIT", "MISS"} THEN resp[r].asset \in Assets ELSE resp[r].asset = None
    BY <2>1 DEF IInv, RespInv, Good
  <2> QED
    BY <2>1, Zenon DEF IInv, Types, Stored, TypeOK
<1> QED
    BY Invariance, <1>1, PTL

\* No request reaches an upstream before handle_request's checks, with the
\* authentication its own snapshot asks for, across any number of reloads.
THEOREM ChecksComeFirst == Spec => []OnlyCheckedReachUpstream
<1>1. IInv => OnlyCheckedReachUpstream
    BY DEF IInv, ReqInv, OnlyCheckedReachUpstream, Contacting, Screened, Upstreamed
<1> QED
    BY Invariance, <1>1, PTL

\* What is in an engine, on its way to one or in a response was complete and
\* eligible under the snapshot and the route that fetched it.
THEOREM AssetsEligible == Spec => []OnlyEligibleAssets
<1>1. IInv => OnlyEligibleAssets
  <2> SUFFICES ASSUME IInv, NEW a \in Held PROVE Good(a)
    BY DEF Good, OnlyEligibleAssets
  <2>1. ASSUME NEW g \in Generations, NEW k \in Keys, a = store[g][k], a # None PROVE Good(a)
    BY <2>1 DEF IInv, Engines
  <2>2. ASSUME NEW r \in Requests, resp[r] # None, a = resp[r].asset, a # None PROVE Good(a)
    BY <2>2 DEF IInv, RespInv
  <2>3. a # None
    BY DEF Held
  <2>4. \/ a \in {store[g][k] : g \in Generations, k \in Keys}
        \/ a \in inserts
        \/ a \in {resp[r].asset : r \in {q \in Requests : resp[q] # None}}
    BY DEF Held
  <2> QED
    BY <2>1, <2>2, <2>3, <2>4 DEF IInv, Spawned
<1> QED
    BY Invariance, <1>1, PTL

\* No engine ever holds a body over its limit, with or without Content-Length.
THEOREM EnginesBounded == Spec => []NothingTooBig
<1>1. IInv => NothingTooBig
    BY DEF IInv, Engines, NothingTooBig
<1> QED
    BY Invariance, <1>1, PTL

\* A hit is what the request's own snapshot would have had fetched, however
\* late an insertion ran and whatever was reloaded in between.
THEOREM HitsAreOwn == Spec => []HitsBelong
<1>1. IInv => HitsBelong
  <2> SUFFICES ASSUME IInv, NEW r \in Requests, resp[r] # None, resp[r].mark = "HIT",
                      NEW a, a = resp[r].asset
               PROVE  /\ a.key = req[r].key
                      /\ Route(r) # NoRoute /\ Route(r).cache # "off"
                      /\ a.upstream = Route(r).upstream
    BY DEF HitsBelong
  <2>1. Good(a) /\ a.key = req[r].key /\ a.generation = snap[r]
    BY DEF IInv, RespInv
  <2>2. RouteOf(a) = Route(r)
    BY <2>1 DEF RouteOf, Route, Conf
  <2> QED
    BY <2>1, <2>2 DEF Good
<1> QED
    BY Invariance, <1>1, PTL
=============================================================================
