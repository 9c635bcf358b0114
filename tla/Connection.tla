----------------------------- MODULE Connection -----------------------------
(***************************************************************************)
(* src/worker.rs and src/proxy_protocol.rs: a connection from accept to    *)
(* the HTTP server, as the task that run_worker spawns for it.  Tasks of   *)
(* all workers interleave wherever they await the socket, and meet in the  *)
(* security manager, which is here a failure count and a ban per address   *)
(* that may lapse at any time (SecurityManager has the detail).            *)
(*                                                                         *)
(* Bytes are tokens: PREFIX stands for b"PROXY", the token CRLF for the    *)
(* two bytes that end a header, and an address token for its four fields.  *)
(***************************************************************************)
EXTENDS Integers, Sequences, FiniteSets

CONSTANTS
    Conns,              \* connections
    IPs,                \* addresses; also the tokens that name them in a header
    Trusted,            \* trusted_upstream
    PREFIX,             \* the token sequence of b"PROXY"
    CRLF,
    MAX_HEADER,         \* 107 in the code
    Streams,            \* what a client may send
    Snapshots,          \* what the snapshot taken at accept may say
    MaxTlsFailures,     \* max_tls_failures
    MaxRead,            \* bound: capacity of one read above the socket
    None

Token == IPs \cup {CRLF} \cup {PREFIX[i] : i \in DOMAIN PREFIX}

ASSUME TrustedAssumption == Trusted \in IPs
ASSUME PrefixAssumption ==
    /\ PREFIX \in Seq(Token) /\ MAX_HEADER \in Nat
    /\ Len(PREFIX) \in 1..MAX_HEADER /\ CRLF \notin {PREFIX[i] : i \in DOMAIN PREFIX}
ASSUME StreamAssumption == Streams \subseteq Seq(Token)
ASSUME SnapshotAssumption ==
    Snapshots \subseteq [security : BOOLEAN, proxy_protocol : BOOLEAN, tls : BOOLEAN]
ASSUME BoundAssumption == MaxTlsFailures \in Nat /\ MaxRead \in Nat \ {0}

VARIABLES
    pc,                 \* [connection -> where its task is]
    peer,               \* [connection -> address of the TCP peer]
    conf,               \* [connection -> the snapshot taken at accept]
    sent,               \* [connection -> all that the client sends]
    socket,             \* [connection -> what is still to be read of it]
    header_buf,         \* [connection -> bytes read by handle_proxy_protocol]
    buffer,             \* [connection -> ProxyStream.buffer]
    resolved,           \* [connection -> resolved_addr]
    delivered,          \* history: [connection -> bytes read through ProxyStream]
    failures,           \* [address -> TLS failures in the window]
    banned,             \* addresses on the blacklist
    late                \* history: [address -> connections past the check when its ban fell]

conn == <<peer, conf, sent>>
io   == <<socket, header_buf, buffer, delivered>>
sec  == <<failures, banned, late>>
vars == <<pc, conn, io, resolved, sec>>

-----------------------------------------------------------------------------
StartsWith(s, p) == Len(s) >= Len(p) /\ SubSeq(s, 1, Len(p)) = p
EndsWithCRLF(s) == s # <<>> /\ s[Len(s)] = CRLF

\* parse_proxy_protocol_v1: the client named by a well-formed header.
ParseProxyProtocolV1(h) ==
    IF /\ Len(h) = Len(PREFIX) + 2
       /\ StartsWith(h, PREFIX)
       /\ h[Len(PREFIX) + 1] \in IPs
       /\ EndsWithCRLF(h)
    THEN h[Len(PREFIX) + 1] ELSE None

Init ==
    /\ pc = [c \in Conns |-> "new"]
    /\ peer = [c \in Conns |-> None]
    /\ conf = [c \in Conns |-> None]
    /\ sent = [c \in Conns |-> <<>>]
    /\ socket = sent
    /\ header_buf = [c \in Conns |-> <<>>]
    /\ buffer = [c \in Conns |-> <<>>]
    /\ delivered = [c \in Conns |-> <<>>]
    /\ resolved = [c \in Conns |-> None]
    /\ failures = [i \in IPs |-> 0]
    /\ banned = {}
    /\ late = [i \in IPs |-> {}]

Goto(c, p) == pc' = [pc EXCEPT ![c] = p]

\* The connection is dropped.
Drop(c) == Goto(c, "closed") /\ UNCHANGED <<conn, io, resolved, sec>>

-----------------------------------------------------------------------------
(* The accept loop and the first check.                                    *)

Accept(c, ip, snapshot, stream) ==
    /\ pc[c] = "new"
    /\ Goto(c, "accepted")
    /\ peer' = [peer EXCEPT ![c] = ip]
    /\ conf' = [conf EXCEPT ![c] = snapshot]
    /\ sent' = [sent EXCEPT ![c] = stream]
    /\ socket' = [socket EXCEPT ![c] = stream]
    /\ UNCHANGED <<header_buf, buffer, delivered, resolved, sec>>

PeerBlacklisted(c) == pc[c] = "accepted" /\ peer[c] \in banned /\ Drop(c)

\* Without a security block, or with the protocol off, the stream is taken as
\* it is; otherwise the trusted peer's header is parsed, anyone else's stream
\* is only looked at.
PeerAccepted(c) ==
    /\ pc[c] = "accepted" /\ peer[c] \notin banned
    /\ IF conf[c].security /\ conf[c].proxy_protocol
       THEN /\ Goto(c, IF peer[c] = Trusted THEN "parsing" ELSE "peeking")
            /\ UNCHANGED resolved
       ELSE /\ Goto(c, "resolved")
            /\ resolved' = [resolved EXCEPT ![c] = peer[c]]
    /\ UNCHANGED <<conn, io, sec>>

-----------------------------------------------------------------------------
(* handle_proxy_protocol                                                   *)

ReadByte(c) ==
    /\ socket[c] # <<>>
    /\ header_buf' = [header_buf EXCEPT ![c] = Append(@, Head(socket[c]))]
    /\ socket' = [socket EXCEPT ![c] = Tail(@)]
    /\ UNCHANGED <<pc, conn, buffer, delivered, resolved, sec>>

\* Mutant: the length of the header is not limited.
HeaderEndsAtCRLF(c) == EndsWithCRLF(header_buf[c])

\* The loop of the trusted branch is over.
HeaderRead(c) == Len(header_buf[c]) >= MAX_HEADER \/ EndsWithCRLF(header_buf[c])

ParseByte(c) == pc[c] = "parsing" /\ ~HeaderRead(c) /\ ReadByte(c)

\* End of the stream before the header's.
ParseEof(c) == pc[c] = "parsing" /\ ~HeaderRead(c) /\ socket[c] = <<>> /\ Drop(c)

ParseFails(c) ==
    /\ pc[c] = "parsing" /\ HeaderRead(c)
    /\ ParseProxyProtocolV1(header_buf[c]) = None
    /\ Drop(c)

\* Mutant: the balancer's own address is kept.
ParseSucceedsAsPeer(c) ==
    /\ pc[c] = "parsing" /\ HeaderRead(c)
    /\ ParseProxyProtocolV1(header_buf[c]) # None
    /\ resolved' = [resolved EXCEPT ![c] = peer[c]]
    /\ Goto(c, "resolved")
    /\ UNCHANGED <<conn, io, sec>>

\* The header is consumed; nothing is buffered.
ParseSucceeds(c) ==
    /\ pc[c] = "parsing" /\ HeaderRead(c)
    /\ ParseProxyProtocolV1(header_buf[c]) # None
    /\ resolved' = [resolved EXCEPT ![c] = ParseProxyProtocolV1(header_buf[c])]
    /\ Goto(c, "resolved")
    /\ UNCHANGED <<conn, io, sec>>

\* Mutant: one byte short of the prefix is enough.
PeekShort(c) ==
    LET n == Len(header_buf[c]) IN
    n > 0 /\ (n >= Len(PREFIX) - 1 \/ header_buf[c][n] # PREFIX[n])

\* The loop of the untrusted branch is over: the prefix is there in full, or
\* the last byte differs from it.
Peeked(c) ==
    LET n == Len(header_buf[c]) IN
    n > 0 /\ (n >= Len(PREFIX) \/ header_buf[c][n] # PREFIX[n])

PeekByte(c) == pc[c] = "peeking" /\ ~Peeked(c) /\ ReadByte(c)

PeekRejects(c) ==
    pc[c] = "peeking" /\ Peeked(c) /\ StartsWith(header_buf[c], PREFIX) /\ Drop(c)

\* Mutant: the bytes that were looked at are lost.
PeekLoses(c) ==
    /\ pc[c] = "peeking" /\ (Peeked(c) \/ socket[c] = <<>>)
    /\ ~StartsWith(header_buf[c], PREFIX)
    /\ resolved' = [resolved EXCEPT ![c] = peer[c]]
    /\ Goto(c, "resolved")
    /\ UNCHANGED <<conn, io, sec>>

\* The bytes read so far are put in front of the stream, also at its end.
PeekPasses(c) ==
    /\ pc[c] = "peeking" /\ (Peeked(c) \/ socket[c] = <<>>)
    /\ ~StartsWith(header_buf[c], PREFIX)
    /\ buffer' = [buffer EXCEPT ![c] = header_buf[c]]
    /\ resolved' = [resolved EXCEPT ![c] = peer[c]]
    /\ Goto(c, "resolved")
    /\ UNCHANGED <<conn, socket, header_buf, delivered, sec>>

\* Mutant: only the trusted branch has a timeout.
TimeoutTrusted(c) == pc[c] = "parsing" /\ Drop(c)

\* tokio::time::timeout around either branch; the bytes may come too late.
Timeout(c) == pc[c] \in {"parsing", "peeking"} /\ Drop(c)

-----------------------------------------------------------------------------
(* The second check, TLS and serving.                                      *)

ClientBlacklisted(c) == pc[c] = "resolved" /\ resolved[c] \in banned /\ Drop(c)

\* Mutant: the second check looks at the peer again.
ClientAcceptedByPeer(c) ==
    /\ pc[c] = "resolved" /\ peer[c] \notin banned
    /\ Goto(c, "cleared")
    /\ UNCHANGED <<conn, io, resolved, sec>>

\* The manager's lock is free again when is_blacklisted returns: other tasks
\* may ban the address before this one goes on.
ClientAccepted(c) ==
    /\ pc[c] = "resolved" /\ resolved[c] \notin banned
    /\ Goto(c, "cleared")
    /\ UNCHANGED <<conn, io, resolved, sec>>

\* acceptor.accept or, without TLS, serve_connection begins.
Begin(c) ==
    /\ pc[c] = "cleared"
    /\ Goto(c, IF conf[c].tls THEN "handshake" ELSE "serving")
    /\ UNCHANGED <<conn, io, resolved, sec>>

\* The connections of an address that are past the second check.
Beyond(ip) ==
    {c \in Conns : pc[c] \in {"cleared", "handshake", "serving"} /\ resolved[c] = ip}

\* ProxyStream::poll_read with room for n bytes: the buffer first, then the
\* socket, which may have less to give.
PollRead(c, n) ==
    /\ pc[c] \in {"handshake", "serving"}
    /\ LET source == IF buffer[c] # <<>> THEN buffer[c] ELSE socket[c] IN
       /\ n \in 1..Len(source)
       /\ delivered' = [delivered EXCEPT ![c] = @ \o SubSeq(source, 1, n)]
       /\ IF buffer[c] # <<>>
          THEN /\ buffer' = [buffer EXCEPT ![c] = SubSeq(@, n + 1, Len(@))]
               /\ UNCHANGED socket
          ELSE /\ socket' = [socket EXCEPT ![c] = SubSeq(@, n + 1, Len(@))]
               /\ UNCHANGED buffer
    /\ UNCHANGED <<pc, conn, header_buf, resolved, sec>>

HandshakeSucceeds(c) ==
    /\ pc[c] = "handshake"
    /\ Goto(c, "serving")
    /\ UNCHANGED <<conn, io, resolved, sec>>

\* record_tls_failure on the snapshot's manager; a ban that runs is renewed.
HandshakeFails(c) ==
    /\ pc[c] = "handshake"
    /\ LET ip == resolved[c] IN
       /\ failures' = [failures EXCEPT ![ip] = @ + 1]
       /\ IF failures[ip] + 1 > MaxTlsFailures /\ ip \notin banned
          THEN banned' = banned \cup {ip} /\ late' = [late EXCEPT ![ip] = Beyond(ip)]
          ELSE UNCHANGED <<banned, late>>
    /\ Goto(c, "failed")
    /\ UNCHANGED <<conn, io, resolved>>

\* serve_connection returns; its requests are RequestPipeline's.
Served(c) == pc[c] = "serving" /\ Drop(c)

\* A failure leaves the window, and a ban ends: two durations, in any order.
WindowSlides(ip) ==
    /\ failures[ip] > 0
    /\ failures' = [failures EXCEPT ![ip] = @ - 1]
    /\ UNCHANGED <<pc, conn, io, resolved, banned, late>>

BanEnds(ip) ==
    /\ ip \in banned
    /\ banned' = banned \ {ip}
    /\ late' = [late EXCEPT ![ip] = {}]
    /\ UNCHANGED <<pc, conn, io, resolved, failures>>

-----------------------------------------------------------------------------
\* What a task does without waiting for the client.
Screen(c) ==
    \/ PeerBlacklisted(c) \/ PeerAccepted(c)
    \/ ParseFails(c) \/ ParseSucceeds(c) \/ PeekRejects(c) \/ PeekPasses(c)
    \/ ClientBlacklisted(c) \/ ClientAccepted(c) \/ Begin(c)

Read(c) ==
    \/ ParseByte(c) \/ ParseEof(c) \/ PeekByte(c)
    \/ \E n \in 1..MaxRead : PollRead(c, n)

Next ==
    \/ \E c \in Conns :
        \/ \E ip \in IPs, snapshot \in Snapshots, stream \in Streams :
              Accept(c, ip, snapshot, stream)
        \/ Screen(c) \/ Read(c) \/ Timeout(c)
        \/ HandshakeSucceeds(c) \/ HandshakeFails(c) \/ Served(c)
    \/ \E ip \in IPs : WindowSlides(ip) \/ BanEnds(ip)

Spec == Init /\ [][Next]_vars

\* The runtime polls ready tasks and fires timers; clients may stay silent.
FairSpec == Spec /\ \A c \in Conns : WF_vars(Screen(c)) /\ WF_vars(Timeout(c))

-----------------------------------------------------------------------------
(* Properties.                                                             *)

Passed == {c \in Conns : pc[c] \in {"resolved", "cleared", "handshake", "serving", "failed"}}

\* handle_proxy_protocol reads a header from this connection.
Proxied(c) == conf[c].security /\ conf[c].proxy_protocol /\ peer[c] = Trusted
Guarded(c) == conf[c].security /\ conf[c].proxy_protocol /\ peer[c] # Trusted

HeaderLen == Len(PREFIX) + 2

\* The types of the connections, with the limit on the header buffer.
TypeOK ==
    /\ pc \in [Conns -> {"new", "accepted", "parsing", "peeking", "resolved", "cleared",
                         "handshake", "serving", "failed", "closed"}]
    /\ peer \in [Conns -> IPs \cup {None}]
    /\ conf \in [Conns -> Snapshots \cup {None}]
    /\ \A c \in Conns : sent[c] \in Streams \cup {<<>>}
    /\ \A c \in Conns : Len(header_buf[c]) <= MAX_HEADER
    /\ resolved \in [Conns -> IPs \cup {None}]
    /\ failures \in [IPs -> Nat] /\ banned \subseteq IPs
    /\ late \in [IPs -> SUBSET Conns]

\* No byte is lost, added or reordered between the socket and the layer above
\* ProxyStream: what it has read, what is buffered and what is still in the
\* socket is what the client sent, after the header if there was one.
StreamIntact ==
    \A c \in Passed :
        delivered[c] \o buffer[c] \o socket[c] =
            (IF Proxied(c) THEN SubSeq(sent[c], HeaderLen + 1, Len(sent[c])) ELSE sent[c])

\* The address that is checked, served and charged is the one the trusted
\* peer's header names, and for everybody else the TCP peer's.
ResolvedIsClient ==
    \A c \in Passed :
        resolved[c] = IF Proxied(c) THEN sent[c][Len(PREFIX) + 1] ELSE peer[c]

\* docs/security.md, spoofing check: past handle_proxy_protocol, the trusted
\* peer's stream began with a well-formed header and nobody else's began with
\* the prefix.
OnlyHonestHeaders ==
    \A c \in Passed :
        /\ Proxied(c) => ParseProxyProtocolV1(SubSeq(sent[c], 1, HeaderLen)) # None
        /\ Guarded(c) => ~StartsWith(sent[c], PREFIX)

\* docs/security.md, "Pre-TLS Socket Inspection", as far as the two checks of
\* worker.rs carry: while a ban lasts, the only connections of the address
\* that shake hands or are served are those that were past the second check
\* when it fell.  One that had only been accepted, was being resolved or came
\* later gets no further, whatever its TCP peer; one in the window between
\* check and handshake does.
BanHoldsFromCheck ==
    \A ip \in banned : Beyond(ip) \subseteq late[ip]

\* handle_proxy_protocol ends, even if the client sends nothing at all.
HeaderStageEnds ==
    \A c \in Conns : (pc[c] \in {"parsing", "peeking"}) ~> (pc[c] \notin {"parsing", "peeking"})
=============================================================================
