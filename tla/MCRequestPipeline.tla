------------------------- MODULE MCRequestPipeline -------------------------
(* Instances of RequestPipeline for TLC: an asset `js', a service worker   *)
(* `sw' that ends like one, and a page `api'.  One configuration serves    *)
(* them with the cache off for the page, one moves them to another         *)
(* upstream behind authentication, and one no longer routes the asset, has *)
(* no cache engine, and no provider for the authentication it asks for.    *)
EXTENDS RequestPipeline, TLC

CONSTANTS js, sw, api

R(up, auth, cache, intercept) ==
    [upstream |-> up, auth_required |-> auth, cache |-> cache, intercept_errors |-> intercept]
C(routes, forward_auth, cache, intercept) ==
    [routes |-> routes, forward_auth |-> forward_auth, cache |-> cache, intercept_errors |-> intercept]

Routes(j, s, a) == js :> j @@ sw :> s @@ api :> a

Open  == C(Routes(R("u1", FALSE, "unset", "unset"), R("u1", FALSE, "on", "unset"), R("u1", FALSE, "off", "unset")),
           FALSE, TRUE, FALSE)
Moved == C(Routes(R("u2", TRUE, "on", "unset"), NoRoute, R("u2", FALSE, "on", "off")), TRUE, TRUE, TRUE)
Plain == C(Routes(NoRoute, R("u1", TRUE, "unset", "unset"), R("u1", FALSE, "on", "on")), FALSE, FALSE, FALSE)

MCConfigs == {Open, Moved, Plain}
MCPlain   == {Open, Plain}

I(method, key, oversized, upgrade, forwardable) ==
    [method |-> method, key |-> key, oversized |-> oversized, upgrade |-> upgrade,
     forwardable |-> forwardable]

MCInputs == {I("GET", js, FALSE, FALSE, TRUE), I("HEAD", js, FALSE, FALSE, TRUE),
             I("GET", sw, FALSE, FALSE, TRUE),
             I("GET", api, FALSE, TRUE, TRUE), I("POST", api, TRUE, FALSE, TRUE)}
MCFewInputs == {I("GET", js, FALSE, FALSE, TRUE), I("GET", api, FALSE, TRUE, TRUE),
                I("POST", api, FALSE, FALSE, FALSE)}

A(status, static_type, no_store, declared, big, whole) ==
    [status |-> status, static_type |-> static_type, no_store |-> no_store,
     declared |-> declared, big |-> big, whole |-> whole]

MCReplies == {A(200, TRUE, FALSE, TRUE, FALSE, TRUE), A(200, TRUE, FALSE, TRUE, FALSE, FALSE),
              A(200, TRUE, FALSE, TRUE, TRUE, TRUE), A(200, FALSE, FALSE, FALSE, TRUE, TRUE),
              A(200, FALSE, TRUE, TRUE, FALSE, TRUE), A(404, FALSE, FALSE, TRUE, FALSE, TRUE),
              A(101, FALSE, FALSE, FALSE, FALSE, TRUE)}

MCFewReplies == {A(200, TRUE, FALSE, TRUE, FALSE, TRUE), A(101, FALSE, FALSE, FALSE, FALSE, TRUE)}

Symmetry == Permutations(Requests)
=============================================================================
