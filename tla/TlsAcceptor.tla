---------------------------- MODULE TlsAcceptor -----------------------------
(***************************************************************************)
(* src/tls.rs: the certificate table of a configuration's https routes.    *)
(***************************************************************************)
EXTENDS Text

CONSTANT Unloadable      \* files that cannot be opened or parsed

\* Mutant: the port stays in the name.
HostnameWithPort(endpoint) ==
    LET host == Split(SubSeq(endpoint, Len(Https) + 1, Len(endpoint)), "/")[1] IN
    IF ~IsPrefix(Https, endpoint) \/ host = <<>> THEN None ELSE host

\* extract_hostname_from_endpoint
Hostname(endpoint) ==
    LET host == Split(Split(SubSeq(endpoint, Len(Https) + 1, Len(endpoint)), "/")[1], ":")[1] IN
    IF ~IsPrefix(Https, endpoint) \/ host = <<>> THEN None ELSE host

IsHttpsRoute(route) == IsPrefix(Https, route.request_endpoint)

HttpsRoutes(routes) == SelectSeq(routes, IsHttpsRoute)

\* The loop body ends without an error: the endpoint names a host, both files
\* are configured, and load_certified_key accepts them.
Certifiable(route) ==
    /\ Hostname(route.request_endpoint) # None
    /\ route.cert_path # None /\ route.key_path # None
    /\ route.cert_path \notin Unloadable /\ route.key_path \notin Unloadable

Hosts(routes) == {Hostname(r.request_endpoint) : r \in ToSet(HttpsRoutes(routes))}

\* ExactCertResolver: a later route of a host replaces the certificate of an
\* earlier one.
Resolver(routes) ==
    LET https == HttpsRoutes(routes)
        last(h) == Max({i \in DOMAIN https : Hostname(https[i].request_endpoint) = h})
    IN  [h \in Hosts(routes) |-> [cert |-> https[last(h)].cert_path, key |-> https[last(h)].key_path]]

\* build_tls_acceptor: "plain" without https routes, an error, or a resolver.
BuildTlsAcceptor(routes) ==
    CASE HttpsRoutes(routes) = <<>> -> [outcome |-> "plain"]
      [] \E r \in ToSet(HttpsRoutes(routes)) : ~Certifiable(r) -> [outcome |-> "error"]
      [] OTHER -> [outcome |-> "tls", exact_match |-> Resolver(routes)]

\* resolve: None without a server name, or for a host the table lacks.
Resolve(exact_match, sni) ==
    IF sni = None \/ sni \notin DOMAIN exact_match THEN None ELSE exact_match[sni]
=============================================================================
