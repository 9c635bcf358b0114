---------------------------- MODULE ConfigParser ----------------------------
(***************************************************************************)
(* src/parser.rs: parse_proxy_config, from the text of proxy.conf to a     *)
(* Config or an error.  Comments are stripped from the whole text, then    *)
(* the lines are taken one by one, at the top level or inside a block.     *)
(* The errors are not told apart: each of them refuses the file.           *)
(***************************************************************************)
EXTENDS Text, TLC

CONSTANTS
    Numerals,               \* numeral -> the number it denotes
    UpperCase,              \* the atoms with an upper case letter
    Addresses,              \* the words that parse as an IpAddr
    U16_MAX, USIZE_MAX,     \* the widths, scaled down
    Kilo,                   \* 1024, scaled down
    AvailableParallelism    \* what the operating system reports

ASSUME WidthsAssumption ==
    /\ U16_MAX \in Nat /\ USIZE_MAX \in Nat /\ Kilo \in Nat \ {0}
    /\ AvailableParallelism \in Nat \ {0}
    /\ \A n \in DOMAIN Numerals : Numerals[n] \in Nat

VARIABLES
    text,                   \* the input
    lines, index,           \* what is parsed, and how far
    fields, routes,         \* the top-level directives and routes so far
    block,                  \* the block being parsed, or None
    result                  \* "reading", "parsing", "error" or "ok"

vars == <<text, lines, index, fields, routes, block, result>>

-----------------------------------------------------------------------------
(* strip_comments                                                          *)

\* Mutant: `//' and `/*' open a comment anywhere.
BoundaryAnywhere(t, i) == TRUE

\* The lexical boundary a comment must stand at.  (The code also looks for a
\* line that is blank up to here; the character before it is then a boundary.)
Boundary(t, i) == i = 1 \/ t[i - 1] \in {" ", ";", NL}

Opener(t, i) == i < Len(t) /\ t[i] = "/" /\ t[i + 1] \in {"/", "*"} /\ Boundary(t, i)

\* The last position of the comment that opens at i: before the end of its
\* line, or at the first closing mark; the end of the text without either.
CommentEnd(t, i) ==
    LET marks == IF t[i + 1] = "/"
                 THEN {j \in i + 1..Len(t) - 1 : t[j + 1] = NL}
                 ELSE {j \in i + 3..Len(t) : t[j - 1] = "*" /\ t[j] = "/"}
    IN  Min(marks \cup {Len(t)})

Blanked(s) == [i \in DOMAIN s |-> IF s[i] = NL THEN NL ELSE " "]

StripComments(t) ==
    LET from[i \in 1..Len(t) + 1] ==
          LET openers == {o \in i..Len(t) : Opener(t, o)} IN
          IF openers = {} THEN SubSeq(t, i, Len(t))
          ELSE LET first == Min(openers)
                   last  == CommentEnd(t, first)
               IN  SubSeq(t, i, first - 1) \o Blanked(SubSeq(t, first, last)) \o from[last + 1]
    IN  from[1]

Meaningful(line) == line # <<>> /\ line[1] # "#"

Lines(t) ==
    LET raw == Split(StripComments(t), NL)
    IN  SelectSeq([i \in DOMAIN raw |-> Trim(raw[i])], Meaningful)

-----------------------------------------------------------------------------
(* Values.  A conversion gives the set of the one value, or the empty set. *)

IsValidUrl(w) == Has(w, <<":", "/", "/">>) \/ w[1] = "/" \/ Has(w, <<":">>)

ParseNumber(w, max) ==
    IF Len(w) = 1 /\ w[1] \in DOMAIN Numerals /\ Numerals[w[1]] <= max
    THEN {Numerals[w[1]]} ELSE {}

Multiplier == [k |-> Kilo, K |-> Kilo, m |-> Kilo * Kilo, M |-> Kilo * Kilo,
               g |-> Kilo * Kilo * Kilo, G |-> Kilo * Kilo * Kilo]

\* Mutant: wrapping_mul.
ParseSizeWraps(w) ==
    LET scaled == Len(w) > 1 /\ Last(w) \in DOMAIN Multiplier
        factor == IF scaled THEN Multiplier[Last(w)] ELSE 1
    IN  {(n * factor) % (USIZE_MAX + 1) : n \in ParseNumber(IF scaled THEN Front(w) ELSE w, USIZE_MAX)}

\* parse_size_string: the product is checked.
ParseSize(w) ==
    LET scaled == Len(w) > 1 /\ Last(w) \in DOMAIN Multiplier
        factor == IF scaled THEN Multiplier[Last(w)] ELSE 1
    IN  {n * factor : n \in {m \in ParseNumber(IF scaled THEN Front(w) ELSE w, USIZE_MAX) :
                               m * factor <= USIZE_MAX}}

\* A directive with the suffix _mb counts a bare numeral in megabytes.
ParseSizeMb(w) ==
    ParseSize(IF \A i \in DOMAIN w : w[i] \in DOMAIN Numerals THEN Append(w, "M") ELSE w)

Switch(w, on, off) == IF w \in {<<a>> : a \in on} THEN {TRUE}
                      ELSE IF w \in {<<a>> : a \in off} THEN {FALSE} ELSE {}

Value(kind, w) ==
    CASE kind = "word"     -> {w}
      [] kind = "url"      -> {u \in {w} : IsValidUrl(u)}
      [] kind = "address"  -> {w} \cap Addresses
      [] kind = "bool"     -> Switch(w, {"on", "yes", "true"}, {"off", "no", "false"})
      [] kind = "switch"   -> Switch(w, {"on", "true"}, {"off", "false"})
      [] kind = "port"     -> ParseNumber(w, U16_MAX)
      [] kind = "number"   -> ParseNumber(w, USIZE_MAX)
      [] kind = "positive" -> ParseNumber(w, USIZE_MAX) \ {0}
      [] kind = "size"     -> ParseSize(w)
      [] kind = "size_mb"  -> ParseSizeMb(w)

-----------------------------------------------------------------------------
(* Directives: the field each one sets, the kind of its value, and whether *)
(* a second one is an error or replaces the first.                         *)

Once(field, kind)  == [field |-> field, kind |-> kind, once |-> TRUE]
Again(field, kind) == [field |-> field, kind |-> kind, once |-> FALSE]

TopDirectives == [
    listen           |-> Once("listen_port", "port"),
    logfile          |-> Once("logfile", "word"),
    intercept_errors |-> Once("intercept_errors", "bool"),
    workers          |-> Once("workers", "positive")]

RouteDirectives == [
    upstream         |-> Again("forward_endpoint", "url"),
    forward          |-> Again("forward_endpoint", "url"),
    auth             |-> Again("auth_required", "bool"),
    cert             |-> Once("cert_path", "word"),
    key              |-> Once("key_path", "word"),
    cache            |-> Again("cache", "bool"),
    intercept_errors |-> Again("intercept_errors", "bool")]

SecurityDirectives == [
    proxy_protocol   |-> Once("proxy_protocol", "switch"),
    trusted_upstream |-> Once("trusted_upstream", "address"),
    timeout          |-> Once("timeout_ms", "number"),
    max_tls_failures |-> Once("max_tls_failures", "number"),
    ban_duration     |-> Once("ban_duration_sec", "number"),
    rate_limit_rpm   |-> Once("rate_limit_rpm", "number"),
    rate_limit       |-> Once("rate_limit_rpm", "number"),
    forward_auth     |-> Once("forward_auth", "word"),
    max_body_size    |-> Once("max_body_size", "size"),
    max_header_size  |-> Once("max_header_size", "size")]

CacheDirectives == [
    enabled          |-> Again("enabled", "bool"),
    cache            |-> Again("enabled", "bool"),
    max_capacity     |-> Again("max_capacity_bytes", "size"),
    max_capacity_mb  |-> Again("max_capacity_bytes", "size_mb"),
    max_file_size    |-> Again("max_file_size_bytes", "size"),
    max_file_size_mb |-> Again("max_file_size_bytes", "size_mb"),
    default_ttl      |-> Again("default_ttl_sec", "number"),
    default_ttl_sec  |-> Again("default_ttl_sec", "number"),
    ttl              |-> Again("default_ttl_sec", "number")]

Directives(kind) ==
    CASE kind = "top"      -> TopDirectives
      [] kind = "route"    -> RouteDirectives
      [] kind = "security" -> SecurityDirectives
      [] kind = "cache"    -> CacheDirectives

\* What the struct gets where no directive sets a field.
RouteDefaults == [auth_required |-> FALSE, cert_path |-> None, key_path |-> None,
                  cache |-> None, intercept_errors |-> None]

SecurityDefaults == [
    proxy_protocol |-> FALSE, trusted_upstream |-> <<"0.0.0.0">>, timeout_ms |-> 200,
    max_tls_failures |-> 5, ban_duration_sec |-> 3600, rate_limit_rpm |-> 300,
    forward_auth |-> None, max_body_size |-> 10 * Kilo * Kilo, max_header_size |-> 64 * Kilo]

CacheDefaults == [enabled |-> TRUE, max_capacity_bytes |-> 64 * Kilo * Kilo,
                  max_file_size_bytes |-> 2 * Kilo * Kilo, default_ttl_sec |-> 300]

ConfigDefaults == [workers |-> AvailableParallelism, logfile |-> None, security |-> None,
                   cache |-> None, intercept_errors |-> None]

NoFields == [f \in {} |-> None]

-----------------------------------------------------------------------------
(* One line                                                                *)

Directive(line) == Words(line)[1]

Known(names, line) == Directive(line) \in {<<n>> : n \in names}

\* parse_single_value_directive and parse_listen_line: the words of a
\* directive without its semicolons.
Parts(line) == Words(TrimSemicolons(line))

\* Mutant: the semicolon is not asked for.
IsStatementBare(kind, set, line) ==
    LET d == Directives(kind)[Directive(line)[1]] IN
    /\ Known(DOMAIN Directives(kind), line)
    /\ Len(Parts(line)) = 2
    /\ d.once => d.field \notin DOMAIN set
    /\ Value(d.kind, Parts(line)[2]) # {}

\* validate_semicolon, get_directive, validate_directive_case, and the match
\* arm of the directive with its value.  (check_trailing_garbage finds nothing
\* behind the last semicolon of a line that ends with one.)
IsStatement(kind, set, line) ==
    LET d == Directives(kind)[Directive(line)[1]] IN
    /\ Last(line) = ";"
    /\ \A i \in DOMAIN Directive(line) : Directive(line)[i] \notin UpperCase
    /\ Known(DOMAIN Directives(kind), line)
    /\ Len(Parts(line)) = 2
    /\ d.once => d.field \notin DOMAIN set
    /\ Value(d.kind, Parts(line)[2]) # {}

\* The fields after a statement: this one replaces an earlier one.
With(kind, set, line) ==
    LET d == Directives(kind)[Directive(line)[1]]
        v == CHOOSE v \in Value(d.kind, Parts(line)[2]) : TRUE
    IN  (d.field :> v) @@ set

Terminates(line) == line \in {<<"}">>, <<"}", ";">>}

\* The header of a route block with an endpoint that is not taken.
OpensRoute(line) ==
    LET ws == Words(line) IN
    /\ Known({"route"}, line) /\ Last(line) = "{"
    /\ Len(ws) = 3 /\ ws[3] = <<"{">> /\ IsValidUrl(ws[2])
    /\ \A i \in DOMAIN routes : routes[i].request_endpoint # ws[2]

\* The header of the one security or cache block; only its first word and its
\* last character are looked at.
OpensSection(section, line) ==
    /\ Known({section}, line) /\ Last(line) = "{"
    /\ section \notin DOMAIN fields

IsHttps(endpoint) == IsPrefix(Https, endpoint)

\* What the end of a route block asks for.
RouteComplete(b) ==
    /\ "forward_endpoint" \in DOMAIN b.fields
    /\ IF IsHttps(b.endpoint)
       THEN {"cert_path", "key_path"} \subseteq DOMAIN b.fields
       ELSE {"cert_path", "key_path"} \cap DOMAIN b.fields = {}

\* What the end of a security block asks for; a cache block asks for nothing.
SectionComplete(b) ==
    "proxy_protocol" \in DOMAIN b.fields =>
        (b.fields.proxy_protocol => "trusted_upstream" \in DOMAIN b.fields)

Built(b) ==
    CASE b.kind = "route"    -> (b.fields @@ RouteDefaults) @@ [request_endpoint |-> b.endpoint]
      [] b.kind = "security" -> b.fields @@ SecurityDefaults
      [] b.kind = "cache"    -> b.fields @@ CacheDefaults

\* What parse_proxy_config asks for after the last line.
Complete ==
    /\ block = None
    /\ "listen_port" \in DOMAIN fields
    /\ routes # <<>>
    /\ (\E i \in DOMAIN routes : routes[i].auth_required) =>
        "security" \in DOMAIN fields /\ fields.security.forward_auth # None

\* The Config that is returned.
config == (fields @@ ConfigDefaults) @@ [routes |-> routes]

-----------------------------------------------------------------------------
(* Steps                                                                   *)

InitParser(t) ==
    /\ text = t
    /\ lines = <<>> /\ index = 1
    /\ fields = NoFields /\ routes = <<>> /\ block = None
    /\ result = "reading"

ReadLines ==
    /\ result = "reading"
    /\ lines' = Lines(text)
    /\ result' = "parsing"
    /\ UNCHANGED <<text, index, fields, routes, block>>

\* The next line is of the given shape, and is consumed.
Consume(shape) ==
    /\ result = "parsing" /\ index <= Len(lines) /\ shape
    /\ index' = index + 1
    /\ UNCHANGED <<text, lines, result>>

Line == lines[index]
AtTop == block = None

TopStatement ==
    /\ Consume(AtTop /\ IsStatement("top", fields, Line))
    /\ fields' = With("top", fields, Line)
    /\ UNCHANGED <<routes, block>>

OpenRoute ==
    /\ Consume(AtTop /\ OpensRoute(Line))
    /\ block' = [kind |-> "route", endpoint |-> Words(Line)[2], fields |-> NoFields]
    /\ UNCHANGED <<fields, routes>>

OpenSection(section) ==
    /\ Consume(AtTop /\ OpensSection(section, Line))
    /\ block' = [kind |-> section, endpoint |-> None, fields |-> NoFields]
    /\ UNCHANGED <<fields, routes>>

BlockStatement ==
    /\ Consume(~AtTop /\ IsStatement(block.kind, block.fields, Line))
    /\ block' = [block EXCEPT !.fields = With(block.kind, @, Line)]
    /\ UNCHANGED <<fields, routes>>

CloseRoute ==
    /\ Consume(~AtTop /\ Terminates(Line) /\ block.kind = "route" /\ RouteComplete(block))
    /\ routes' = Append(routes, Built(block))
    /\ block' = None
    /\ UNCHANGED fields

CloseSection ==
    /\ Consume(~AtTop /\ Terminates(Line) /\ block.kind # "route" /\ SectionComplete(block))
    /\ fields' = (block.kind :> Built(block)) @@ fields
    /\ block' = None
    /\ UNCHANGED routes

\* The lines none of the steps above takes.
Refused ==
    IF AtTop
    THEN ~IsStatement("top", fields, Line) /\ ~OpensRoute(Line)
         /\ ~OpensSection("security", Line) /\ ~OpensSection("cache", Line)
    ELSE /\ ~IsStatement(block.kind, block.fields, Line)
         /\ Terminates(Line) =>
             IF block.kind = "route" THEN ~RouteComplete(block) ELSE ~SectionComplete(block)

Refuse ==
    /\ result = "parsing" /\ index <= Len(lines) /\ Refused
    /\ result' = "error"
    /\ UNCHANGED <<text, lines, index, fields, routes, block>>

Finish ==
    /\ result = "parsing" /\ index > Len(lines)
    /\ result' = IF Complete THEN "ok" ELSE "error"
    /\ UNCHANGED <<text, lines, index, fields, routes, block>>

NextParser ==
    \/ ReadLines \/ TopStatement \/ OpenRoute
    \/ \E section \in {"security", "cache"} : OpenSection(section)
    \/ BlockStatement \/ CloseRoute \/ CloseSection
    \/ Refuse \/ Finish
=============================================================================
