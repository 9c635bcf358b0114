------------------------------- MODULE Router -------------------------------
(***************************************************************************)
(* src/router.rs: which route a request takes, and what its path becomes.  *)
(* Hosts, paths and endpoints are texts (module Text).                     *)
(***************************************************************************)
EXTENDS Text

\* Mutant: only http:// is taken off.
WithoutSchemeHttp(endpoint) ==
    IF IsPrefix(Http, endpoint) THEN SubSeq(endpoint, Len(Http) + 1, Len(endpoint)) ELSE endpoint

WithoutScheme(endpoint) ==
    CASE IsPrefix(Http, endpoint)  -> SubSeq(endpoint, Len(Http) + 1, Len(endpoint))
      [] IsPrefix(Https, endpoint) -> SubSeq(endpoint, Len(Https) + 1, Len(endpoint))
      [] OTHER                     -> endpoint

\* extract_host_port
HostPort(endpoint) ==
    LET host_port == Split(WithoutScheme(endpoint), "/")[1] IN
    IF Has(host_port, <<":">>) THEN host_port
    ELSE host_port \o <<":", IF IsPrefix(Https, endpoint) THEN "443" ELSE "80">>

\* extract_path
ExtractPath(endpoint) ==
    LET rest  == WithoutScheme(endpoint)
        slash == SelectInSeq(rest, LAMBDA c : c = "/")
    IN  IF slash = 0 THEN <<"/">> ELSE SubSeq(rest, slash, Len(rest))

\* The endpoint is a prefix of the request's URL under one of the schemes,
\* whichever the connection used.
Matches(route, host, path) ==
    \/ IsPrefix(route.request_endpoint, Http \o host \o path)
    \/ IsPrefix(route.request_endpoint, Https \o host \o path)

\* Mutant: the last match wins.
ChosenLast(routes, host, path) ==
    LET matching == {i \in DOMAIN routes : Matches(routes[i], host, path)} IN
    IF matching = {} THEN 0 ELSE Max(matching)

\* The first match wins; 0 for none.
Chosen(routes, host, path) ==
    LET matching == {i \in DOMAIN routes : Matches(routes[i], host, path)} IN
    IF matching = {} THEN 0 ELSE Min(matching)

\* The path that is sent upstream by a route that matched.
Rewritten(route, path) ==
    LET from == ExtractPath(route.request_endpoint)
        to   == ExtractPath(route.forward_endpoint)
    IN  IF IsPrefix(from, path) THEN to \o SubSeq(path, Len(from) + 1, Len(path)) ELSE path

\* match_route, for a request some route matches.
MatchRoute(routes, host, path) ==
    LET route == routes[Chosen(routes, host, path)] IN
    [upstream_addr    |-> HostPort(route.forward_endpoint),
     rewritten_path   |-> Rewritten(route, path),
     auth_required    |-> route.auth_required,
     cache            |-> route.cache,
     intercept_errors |-> route.intercept_errors]
=============================================================================
