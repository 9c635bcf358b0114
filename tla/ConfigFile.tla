----------------------------- MODULE ConfigFile -----------------------------
(***************************************************************************)
(* What a proxy.conf means: the parser, and the router and the certificate *)
(* table that are built from its result.  Somebody writes a document, a    *)
(* sequence of statements and blocks; the program sees its text, perhaps   *)
(* with comments in it, perhaps only the beginning because the file is     *)
(* still being written.  The properties compare what the program makes of  *)
(* the text with what the document says.  That is stated without the       *)
(* parser's operators: a vocabulary gives the meaning of each well-formed  *)
(* statement, and duplicates, blocks, defaults and comments have           *)
(* definitions of their own.                                               *)
(***************************************************************************)
EXTENDS ConfigParser, Router, TlsAcceptor

CONSTANTS
    Documents,              \* written as they are
    Annotated,              \* written with a comment somewhere
    Torn,                   \* seen before they are written completely
    LineComments, BlockComments,
    Vocabulary,             \* [block or "top" -> [words of a statement -> <<field, value>>]]
    Urls,                   \* [endpoint of a route that is a URL -> is it https?]
    RequestHosts, RequestPaths

VARIABLES
    doc,                    \* what was written
    torn                    \* is the text only the beginning of it?

allVars == <<vars, doc, torn>>

\* A statement is a sequence of words with or without a semicolon; a block has
\* a header and statements.
Statement(words, semi) == [words |-> words, semi |-> semi, body |-> <<>>, block |-> FALSE]
Block(words, body) == [words |-> words, semi |-> FALSE, body |-> body, block |-> TRUE]

Spaced(words) == FlattenSeq([i \in DOMAIN words |-> IF i = 1 THEN words[i] ELSE <<" ">> \o words[i]])
StatementText(s) == Spaced(s.words) \o (IF s.semi THEN <<";">> ELSE <<>>) \o <<NL>>
ItemText(item) ==
    IF ~item.block THEN StatementText(item)
    ELSE Spaced(item.words) \o <<" ", "{", NL>>
         \o FlattenSeq([i \in DOMAIN item.body |-> StatementText(item.body[i])]) \o <<"}", NL>>
TextOf(d) == FlattenSeq([i \in DOMAIN d |-> ItemText(d[i])])

\* Where a comment may stand: a line comment at the end of a line, a block
\* comment also in front of any word or brace.  One with a line end in it only
\* where a line ends.
Comments(t, i) ==
    IF t[i] = NL THEN {<<" ">> \o c : c \in LineComments \cup BlockComments}
    ELSE IF i = 1 \/ t[i - 1] \in {" ", ";", NL} THEN {Append(c, " ") : c \in {b \in BlockComments : ~Contains(b, NL)}}
    ELSE {}
AnnotatedTexts(d) ==
    LET t == TextOf(d) IN
    UNION {{SubSeq(t, 1, i - 1) \o c \o SubSeq(t, i, Len(t)) : c \in Comments(t, i)} : i \in DOMAIN t}

Init ==
    \/ \E d \in Documents : InitParser(TextOf(d)) /\ doc = d /\ torn = FALSE
    \/ \E d \in Annotated : \E t \in AnnotatedTexts(d) : InitParser(t) /\ doc = d /\ torn = FALSE
    \/ \E d \in Torn : \E n \in 0..Len(TextOf(d)) :
        InitParser(SubSeq(TextOf(d), 1, n)) /\ doc = d /\ torn = TRUE

Parsed == result \in {"ok", "error"}

\* The parser ends; a deadlock is a text it gets stuck in.
Next ==
    \/ NextParser /\ UNCHANGED <<doc, torn>>
    \/ Parsed /\ UNCHANGED allVars

Spec == Init /\ [][Next]_allVars

-----------------------------------------------------------------------------
(* What a document says.                                                   *)

\* The fields a later statement of a block may set again.
Repeatable(kind) ==
    CASE kind = "route" -> {"forward_endpoint", "auth_required", "cache", "intercept_errors"}
      [] kind = "cache" -> {"enabled", "max_capacity_bytes", "max_file_size_bytes", "default_ttl_sec"}
      [] OTHER          -> {}

StatementSound(kind, s) == ~s.block /\ s.semi /\ s.words \in DOMAIN Vocabulary[kind]

FieldOf(kind, s) == Vocabulary[kind][s.words][1]
ValueOf(kind, s) == Vocabulary[kind][s.words][2]

BodySound(kind, body) ==
    /\ \A i \in DOMAIN body : StatementSound(kind, body[i])
    /\ \A i, j \in DOMAIN body :
        i < j /\ FieldOf(kind, body[i]) = FieldOf(kind, body[j])
            => FieldOf(kind, body[i]) \in Repeatable(kind)

\* Each field has the value of the last statement that sets it.
Said(kind, body) ==
    [f \in {FieldOf(kind, s) : s \in ToSet(body)} |->
        LET i == Max({j \in DOMAIN body : FieldOf(kind, body[j]) = f})
        IN  ValueOf(kind, body[i])]

Statements(d) == SelectSeq(d, LAMBDA s : ~s.block)
Blocks(d, kind) == SelectSeq(d, LAMBDA s : s.block /\ s.words[1] = <<kind>>)

RouteSound(b) ==
    /\ Len(b.words) = 2 /\ b.words[2] \in DOMAIN Urls
    /\ BodySound("route", b.body)
    /\ LET set == DOMAIN Said("route", b.body)
           files == {"cert_path", "key_path"} \cap set
       IN  /\ "forward_endpoint" \in set
           /\ Cardinality(files) = IF Urls[b.words[2]] THEN 2 ELSE 0

\* What holds where nothing is said: the defaults of docs/security.md and
\* docs/cache.md, and the code's where these give none (the two size limits,
\* the address that stands for no trusted upstream).  For `enabled' the two
\* disagree: docs/cache.md says off (lines 41 and 52), but a cache block that
\* does not say is on in the code, and this follows the code.
Unsaid(kind) ==
    CASE kind = "top"      -> [workers |-> AvailableParallelism, logfile |-> None,
                               security |-> None, cache |-> None, intercept_errors |-> None]
      [] kind = "route"    -> [auth_required |-> FALSE, cert_path |-> None, key_path |-> None,
                               cache |-> None, intercept_errors |-> None]
      [] kind = "security" -> [proxy_protocol |-> FALSE, trusted_upstream |-> <<"0.0.0.0">>,
                               timeout_ms |-> 200, max_tls_failures |-> 5, ban_duration_sec |-> 3600,
                               rate_limit_rpm |-> 300, forward_auth |-> None,
                               max_body_size |-> 10 * Kilo * Kilo, max_header_size |-> 64 * Kilo]
      [] kind = "cache"    -> [enabled |-> TRUE, max_capacity_bytes |-> 64 * Kilo * Kilo,
                               max_file_size_bytes |-> 2 * Kilo * Kilo, default_ttl_sec |-> 300]

RouteSaid(b) == (Said("route", b.body) @@ Unsaid("route")) @@ [request_endpoint |-> b.words[2]]

SecuritySound(b) ==
    /\ BodySound("security", b.body)
    /\ LET said == Said("security", b.body) @@ [proxy_protocol |-> FALSE, trusted_upstream |-> None]
       IN  said.proxy_protocol => said.trusted_upstream # None

\* The Config a document describes.
ConfigSaid(d) ==
    LET sections == [s \in {k \in {"security", "cache"} : Blocks(d, k) # <<>>} |->
                      Said(s, Blocks(d, s)[1].body) @@ Unsaid(s)]
        rs == Blocks(d, "route")
    IN  ((Said("top", Statements(d)) @@ sections) @@ Unsaid("top"))
        @@ [routes |-> [i \in DOMAIN rs |-> RouteSaid(rs[i])]]

\* Is there one?  Exactly one listen statement, nothing unknown or malformed,
\* at most one block of settings of each kind, a route, no endpoint twice, and
\* a provider where a route asks for authentication.
Sound(d) ==
    LET rs == Blocks(d, "route") IN
    /\ BodySound("top", Statements(d))
    /\ "listen_port" \in DOMAIN Said("top", Statements(d))
    /\ \A b \in ToSet(d) : b.block => b.words[1] \in {<<"route">>, <<"security">>, <<"cache">>}
    /\ \A b \in ToSet(rs) : RouteSound(b)
    /\ rs # <<>>
    /\ \A i, j \in DOMAIN rs : i # j => rs[i].words[2] # rs[j].words[2]
    /\ Len(Blocks(d, "security")) <= 1 /\ \A b \in ToSet(Blocks(d, "security")) : SecuritySound(b)
    /\ Len(Blocks(d, "cache")) <= 1 /\ \A b \in ToSet(Blocks(d, "cache")) : BodySound("cache", b.body)
    /\ (\E b \in ToSet(rs) : RouteSaid(b).auth_required) =>
        Blocks(d, "security") # <<>> /\ ConfigSaid(d).security.forward_auth # None

-----------------------------------------------------------------------------
(* Properties.                                                             *)

Accepted == result = "ok" /\ ~torn

\* parse_proxy_config accepts exactly the documents that make sense and returns
\* the configuration they describe, wherever comments stand: duplicates are
\* refused or the last one wins, line by line as over the whole file, no part
\* of a URL or a file name is taken for a comment, and what is not said has its
\* documented default, but for `enabled' of a cache block (see Unsaid).
MeansWhatIsWritten ==
    Parsed /\ ~torn =>
        /\ (result = "ok") = Sound(doc)
        /\ result = "ok" => config = ConfigSaid(doc)

\* A file that is read before it is written completely is refused, or means the
\* routes and settings of its first lines: no route, block or value is ever
\* taken half.  (A value with a semicolon in it could be; none of these has.)
TornFileIsPrefix ==
    torn /\ result = "ok" =>
        LET full == ConfigSaid(doc) IN
        /\ IsPrefix(config.routes, full.routes)
        /\ config.listen_port = full.listen_port
        /\ \A f \in DOMAIN Unsaid("top") : config[f] \in {full[f], Unsaid("top")[f]}

\* The sizes a document gives, in bytes without any width.
SizeSaid(w, mb) ==
    Numerals[w[1]] * (IF Len(w) = 2 THEN Multiplier[w[2]] ELSE IF mb THEN Kilo * Kilo ELSE 1)

\* A size is stored exactly or the file is refused: parse_size_string never
\* wraps around, at any unit and through any of the directives' spellings.
SizesNeverWrap ==
    Accepted =>
        \A b \in ToSet(Blocks(doc, "cache")) \cup ToSet(Blocks(doc, "security")) :
            LET section == b.words[1][1] IN
            \A i \in DOMAIN b.body :
                LET d == Directives(section)[b.body[i].words[1][1]] IN
                /\ d.kind \in {"size", "size_mb"}
                /\ \A j \in i + 1..Len(b.body) : FieldOf(section, b.body[j]) # d.field
                => config[section][d.field] = SizeSaid(b.body[i].words[2], d.kind = "size_mb")

HasScheme(route) == IsPrefix(Http, route.request_endpoint) \/ IsPrefix(Https, route.request_endpoint)
Address(route) == WithoutScheme(route.request_endpoint)

\* A route of an accepted file takes some request, unless its endpoint has no
\* scheme or an earlier route's endpoint is a prefix of its own, whatever the
\* two schemes: the parser, which only compares whole endpoints, lets these
\* through, and the router never comes to them.
RoutesReachable ==
    Accepted =>
        \A i \in DOMAIN routes :
            (\E host \in RequestHosts, path \in RequestPaths : Chosen(routes, host, path) = i)
            <=> /\ HasScheme(routes[i])
                /\ ~\E j \in 1..i - 1 :
                        HasScheme(routes[j]) /\ IsPrefix(Address(routes[j]), Address(routes[i]))

\* The part of an endpoint up to its first slash behind the scheme, and the rest.
Authority(route) == LET a == Address(route) IN
    IF Contains(a, "/") THEN SubSeq(a, 1, Min({i \in DOMAIN a : a[i] = "/"}) - 1) ELSE a
PathOf(route) == SubSeq(Address(route), Len(Authority(route)) + 1, Len(Address(route)))

\* match_route replaces exactly the path of the endpoint by the path of the
\* forward endpoint and keeps the rest of the request's path; a route whose
\* endpoint has a path serves no other host.
RewriteKeepsRest ==
    Accepted =>
        \A host \in RequestHosts, path \in RequestPaths :
            LET i == Chosen(routes, host, path)
                sent == MatchRoute(routes, host, path).rewritten_path
            IN  i # 0 =>
                  /\ sent[1] = "/"
                  /\ \E rest \in Suffixes(path) :
                        /\ path = (IF PathOf(routes[i]) = <<>> THEN <<"/">> ELSE PathOf(routes[i])) \o rest
                        /\ sent = ExtractPath(routes[i].forward_endpoint) \o rest
                  /\ PathOf(routes[i]) # <<>> => host = Authority(routes[i])

\* The name a client asks for when it connects to a route's host.
ServerName(route) == LET a == Authority(route) IN
    IF Contains(a, ":") THEN SubSeq(a, 1, Min({i \in DOMAIN a : a[i] = ":"}) - 1) ELSE a

\* What the parser accepts can be served: build_tls_acceptor fails only for a
\* file that does not load or an endpoint without a host, never for a missing
\* directive; and a client of an https route gets a certificate and the key of
\* the same route, one of that host.
CertificatesCoverHosts ==
    Accepted =>
        LET https == {r \in ToSet(routes) : IsHttps(r.request_endpoint)}
            tls == BuildTlsAcceptor(routes)
        IN  /\ tls.outcome = "plain" <=> https = {}
            /\ tls.outcome = "error" =>
                \E r \in https : ServerName(r) = <<>> \/ {r.cert_path, r.key_path} \cap Unloadable # {}
            /\ tls.outcome = "tls" =>
                \A r \in https : \E s \in https :
                    /\ ServerName(s) = ServerName(r)
                    /\ Resolve(tls.exact_match, ServerName(r)) = [cert |-> s.cert_path, key |-> s.key_path]
=============================================================================
