---------------------------- MODULE MCConfigFile ----------------------------
(***************************************************************************)
(* ConfigFile for model checking: all short sequences of statements, at    *)
(* the top level and inside each kind of block; pairs of routes; comments  *)
(* at every place of a few files, and all beginnings of them.              *)
(***************************************************************************)
EXTENDS ConfigFile

CONSTANTS MaxItems, MaxBody     \* bounds on the length of a document and of a block

MCNumerals == "0" :> 0 @@ "1" :> 1 @@ "2" :> 2 @@ "64" :> 64 @@ "80" :> 80 @@ "512" :> 512
MCUpperCase == {"LISTEN", "On"}
MCAddresses == {<<"10.0.0.1">>}
MCUnloadable == {<<"/", "bad">>}

\* A statement, and one with its meaning.
S(name, word) == Statement(<<<<name>>, word>>, TRUE)
Flag(name, value) == S(name, <<value>>)
M(name, word, field, value) == <<<<name>>, word>> :> <<field, value>>
Well(vocabulary) == {Statement(words, TRUE) : words \in DOMAIN vocabulary}

Up   == Http \o <<"up", "/">>
Api  == Http \o <<"up", ":", "3000", "/", "v1", "/">>
Bare == <<"up", ":", "3000">>
App  == Http \o <<"app", "/">>
AppS == Https \o <<"app", "/">>
Star == Http \o <<"app", "/", "*", "/">>
Cert(n) == <<S("cert", <<"/", n>>), S("key", <<"/", n, "k">>)>>
Route(url, body) == Block(<<<<"route">>, url>>, body)
Plain(url) == Route(url, <<S("upstream", Up)>>)
Secure(url, n) == Route(url, <<S("upstream", Api)>> \o Cert(n))
Security(body) == Block(<<<<"security">>>>, body)
Cache(body) == Block(<<<<"cache">>>>, body)
Listen == Flag("listen", "80")
Logfile == S("logfile", <<"/", "var", "/", "/", "log">>)

\* Top level: the statements that mean something, and what does not.
TopVocabulary ==
    M("listen", <<"80">>, "listen_port", 80) @@ M("workers", <<"2">>, "workers", 2)
    @@ M("logfile", <<"/", "var", "/", "/", "log">>, "logfile", <<"/", "var", "/", "/", "log">>)
    @@ M("intercept_errors", <<"no">>, "intercept_errors", FALSE)
TopItems == Well(TopVocabulary) \cup {
    Flag("listen", "512"), Statement(<<<<"listen">>, <<"80">>>>, FALSE), Flag("LISTEN", "80"),
    Statement(<<<<"listen">>, <<"80">>, <<"80">>>>, TRUE), Flag("workers", "0"),
    Statement(<<<<"}">>>>, FALSE), S("route", App), Plain(<<"app">>),
    Plain(App), Route(AppS, <<S("upstream", Up), Flag("auth", "on")>> \o Cert("c1")),
    Security(<<S("forward_auth", Up)>>), Cache(<<>>)}

\* Inside a route block, an https one or not.
File(name, field, n) == M(name, <<"/", n>>, field, <<"/", n>>)
KeyFile(n) == M("key", <<"/", n, "k">>, "key_path", <<"/", n, "k">>)
RouteVocabulary ==
    M("upstream", Up, "forward_endpoint", Up) @@ M("forward", Api, "forward_endpoint", Api)
    @@ M("auth", <<"yes">>, "auth_required", TRUE) @@ M("auth", <<"off">>, "auth_required", FALSE)
    @@ File("cert", "cert_path", "c1") @@ File("cert", "cert_path", "c2") @@ KeyFile("c1")
    @@ M("cache", <<"false">>, "cache", FALSE) @@ M("intercept_errors", <<"on">>, "intercept_errors", TRUE)
RouteItems == Well(RouteVocabulary) \cup {
    Flag("upstream", "up"), Flag("intercept_errors", "maybe"), Statement(<<<<"route">>, App, <<"{">>>>, FALSE)}

\* What the other documents say in their routes.
MoreOfRoutes ==
    M("upstream", Api, "forward_endpoint", Api) @@ M("upstream", Bare, "forward_endpoint", Bare)
    @@ M("auth", <<"on">>, "auth_required", TRUE) @@ M("auth", <<"true">>, "auth_required", TRUE)
    @@ File("cert", "cert_path", "bad") @@ KeyFile("c2") @@ KeyFile("bad")

SecurityVocabulary ==
    M("proxy_protocol", <<"on">>, "proxy_protocol", TRUE) @@ M("proxy_protocol", <<"off">>, "proxy_protocol", FALSE)
    @@ M("trusted_upstream", <<"10.0.0.1">>, "trusted_upstream", <<"10.0.0.1">>)
    @@ M("timeout", <<"64">>, "timeout_ms", 64) @@ M("max_tls_failures", <<"0">>, "max_tls_failures", 0)
    @@ M("ban_duration", <<"1">>, "ban_duration_sec", 1)
    @@ M("rate_limit", <<"2">>, "rate_limit_rpm", 2) @@ M("rate_limit_rpm", <<"80">>, "rate_limit_rpm", 80)
    @@ M("forward_auth", Up, "forward_auth", Up) @@ M("max_body_size", <<"1", "k">>, "max_body_size", Kilo)
    @@ M("max_header_size", <<"2", "K">>, "max_header_size", 2 * Kilo)
SecurityItems == Well(SecurityVocabulary) \cup {
    Flag("proxy_protocol", "yes"), Flag("trusted_upstream", "up"),
    S("max_header_size", <<"64", "G">>), Statement(<<<<"timeout">>, <<"1">>>>, FALSE)}

CacheVocabulary ==
    M("enabled", <<"off">>, "enabled", FALSE) @@ M("cache", <<"yes">>, "enabled", TRUE)
    @@ M("max_capacity", <<"64", "M">>, "max_capacity_bytes", 64 * Kilo * Kilo)
    @@ M("max_capacity_mb", <<"2">>, "max_capacity_bytes", 2 * Kilo * Kilo)
    @@ M("max_capacity_mb", <<"2", "K">>, "max_capacity_bytes", 2 * Kilo)
    @@ M("max_file_size", <<"64">>, "max_file_size_bytes", 64)
    @@ M("max_file_size_mb", <<"1">>, "max_file_size_bytes", Kilo * Kilo)
    @@ M("default_ttl_sec", <<"2">>, "default_ttl_sec", 2) @@ M("ttl", <<"1">>, "default_ttl_sec", 1) @@ M("default_ttl", <<"80">>, "default_ttl_sec", 80)
CacheItems == Well(CacheVocabulary) \cup {
    Flag("enabled", "2"), S("max_file_size", <<"64", "g">>), Flag("max_file_size_mb", "512"),
    Flag("default_ttl_sec", "512"), Flag("size", "1")}

MCVocabulary == [
    top      |-> TopVocabulary,
    route    |-> RouteVocabulary @@ MoreOfRoutes,
    security |-> SecurityVocabulary,
    cache    |-> CacheVocabulary @@ M("max_capacity", <<"2", "K">>, "max_capacity_bytes", 2 * Kilo)]

\* Endpoints, and pairs of routes for the router and the certificates.
MCUrls ==
    App :> FALSE @@ AppS :> TRUE @@ Http \o <<"app">> :> FALSE @@ Http \o <<"app", "/", "api">> :> FALSE
    @@ Https \o <<"app", ":", "443", "/", "api", "/">> :> TRUE @@ Https \o <<"app", "2", "/">> :> TRUE
    @@ Https \o <<"/">> :> TRUE @@ <<"/", "api">> :> FALSE @@ Star :> FALSE
RoutesFor(n) ==
    {Route(e, <<S("upstream", f)>> \o (IF MCUrls[e] THEN Cert(n) ELSE <<>>)) :
        e \in DOMAIN MCUrls \ {Star}, f \in {Up, Api, Bare}}

MCDocuments ==
    BoundedSeq(TopItems, MaxItems)
    \cup {<<Listen, Route(url, body)>> : url \in {App, AppS}, body \in BoundedSeq(RouteItems, MaxBody)}
    \cup {<<Security(body), Listen, Plain(App)>> : body \in BoundedSeq(SecurityItems, MaxBody - 1)}
    \cup {<<Listen, Cache(body), Plain(App)>> : body \in BoundedSeq(CacheItems, MaxBody - 1)}
    \cup {<<Listen, r1, r2>> : r1 \in RoutesFor("c1"), r2 \in RoutesFor("c2") \cup RoutesFor("bad")}

Full == <<Logfile, Listen, Secure(AppS, "c1"), Flag("workers", "2"),
          Security(<<S("forward_auth", Up), Flag("proxy_protocol", "off")>>),
          Route(Star, <<S("upstream", Api), Flag("auth", "true")>>),
          Cache(<<S("max_capacity", <<"2", "K">>)>>)>>
MCAnnotated == {Full, Reverse(Full), <<Listen, Listen, Plain(App)>>, <<Listen>>}
MCTorn == {Full, Reverse(Full)}
MCLineComments == {<<"/", "/", "c">>, <<"/", "/", "listen", " ", "80", ";">>, <<"/", "/", "/", "*">>}
MCBlockComments == {<<"/", "*", "c", "*", "/">>, <<"/", "*", "/", "/", "}", "*", "/">>,
                    <<"/", "*", NL, "listen", " ", "80", ";", NL, "*", "/">>}

MCRequestHosts == {<<>>, <<"app">>, <<"app", "2">>, <<"app", ":", "443">>}
MCRequestPaths == {<<"/">>, <<"/", "api">>, <<"/", "api", "/">>, <<"/", "api", "/", "x">>, <<"/", "*", "/">>}
=============================================================================
