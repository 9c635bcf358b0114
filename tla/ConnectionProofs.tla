-------------------------- MODULE ConnectionProofs --------------------------
(***************************************************************************)
(* Proofs about Connection, for any streams, prefix, header limit, number  *)
(* of connections and addresses.  While handle_proxy_protocol is reading,  *)
(* what it has read and what is left is what was sent; that is what makes  *)
(* the verdict on the bytes read a verdict on the stream, and what makes   *)
(* the bytes handed on complete.                                           *)
(***************************************************************************)
EXTENDS Connection, SequenceTheorems, TLAPS

Buffers ==
    /\ sent \in [Conns -> Seq(Token)] /\ socket \in [Conns -> Seq(Token)]
    /\ header_buf \in [Conns -> Seq(Token)]
    /\ buffer \in [Conns -> Seq(Token)] /\ delivered \in [Conns -> Seq(Token)]

Past == {"resolved", "cleared", "handshake", "serving", "failed"}

Body(c) == IF Proxied(c) THEN SubSeq(sent[c], HeaderLen + 1, Len(sent[c])) ELSE sent[c]
Client(c) == IF Proxied(c) THEN sent[c][Len(PREFIX) + 1] ELSE peer[c]
Honest(c) ==
    /\ Proxied(c) => ParseProxyProtocolV1(SubSeq(sent[c], 1, HeaderLen)) # None
    /\ Guarded(c) => ~StartsWith(sent[c], PREFIX)

\* Nothing has been handed on yet.
Untouched(c) == buffer[c] = <<>> /\ delivered[c] = <<>>

ConnInv(c) ==
    /\ pc[c] # "new" => peer[c] \in IPs /\ conf[c] \in Snapshots
    /\ pc[c] = "new" => header_buf[c] = <<>> /\ Untouched(c)
    /\ pc[c] = "accepted" => header_buf[c] = <<>> /\ Untouched(c) /\ socket[c] = sent[c]
    /\ pc[c] \in {"parsing", "peeking"} => Untouched(c) /\ header_buf[c] \o socket[c] = sent[c]
    /\ pc[c] = "parsing" => Proxied(c)
    /\ pc[c] = "peeking" => Guarded(c)
    /\ pc[c] \in Past =>
          /\ delivered[c] \o buffer[c] \o socket[c] = Body(c)
          /\ resolved[c] = Client(c) /\ resolved[c] \in IPs
          /\ Honest(c)

IInv == TypeOK /\ Buffers /\ \A c \in Conns : ConnInv(c)

-----------------------------------------------------------------------------
(* Lemmas about streams.                                                   *)

LEMMA Associative ==
    ASSUME NEW s \in Seq(Token), NEW t \in Seq(Token), NEW u \in Seq(Token)
    PROVE  (s \o t) \o u = s \o (t \o u)
BY ConcatAssociative, SMTT(60)

\* Moving a byte over, at the front of what is left.
LEMMA ByteMoves ==
    ASSUME NEW h \in Seq(Token), NEW s \in Seq(Token), s # <<>>
    PROVE  /\ Append(h, Head(s)) \in Seq(Token) /\ Tail(s) \in Seq(Token)
           /\ Append(h, Head(s)) \o Tail(s) = h \o s
<1>1. Head(s) \in Token /\ Tail(s) \in Seq(Token) /\ Append(h, Head(s)) \in Seq(Token)
    BY HeadTailProperties, AppendProperties
<1>2. Append(h, Head(s)) = h \o <<Head(s)>>
    BY <1>1, AppendIsConcat
<1>3. <<Head(s)>> \in Seq(Token)
    BY <1>1
<1>4. <<Head(s)>> \o Tail(s) = s
    BY <1>1
<1>5. (h \o <<Head(s)>>) \o Tail(s) = h \o (<<Head(s)>> \o Tail(s))
    BY <1>1, <1>3, Associative
<1> QED BY <1>1, <1>2, <1>4, <1>5

\* Splitting a source where a read of n bytes ends.
LEMMA ReadSplits ==
    ASSUME NEW s \in Seq(Token), NEW n \in 1..Len(s)
    PROVE  /\ SubSeq(s, 1, n) \in Seq(Token) /\ SubSeq(s, n + 1, Len(s)) \in Seq(Token)
           /\ SubSeq(s, 1, n) \o SubSeq(s, n + 1, Len(s)) = s
<1>1. SubSeq(s, 1, n) \in Seq(Token) /\ SubSeq(s, n + 1, Len(s)) \in Seq(Token)
    OBVIOUS
<1>2. SubSeq(s, 1, n) \o SubSeq(s, n + 1, Len(s)) = SubSeq(s, 1, Len(s))
    BY ConcatAdjacentSubSeq
<1>3. SubSeq(s, 1, Len(s)) = s
    BY SubSeqFull
<1> QED BY <1>1, <1>2, <1>3, ZenonT(60)

\* What is read goes behind what was read before.
LEMMA ReadMoves ==
    ASSUME NEW d \in Seq(Token), NEW s \in Seq(Token), NEW n \in 1..Len(s)
    PROVE  /\ d \o SubSeq(s, 1, n) \in Seq(Token)
           /\ (d \o SubSeq(s, 1, n)) \o SubSeq(s, n + 1, Len(s)) = d \o s
<1>1. SubSeq(s, 1, n) \in Seq(Token) /\ SubSeq(s, n + 1, Len(s)) \in Seq(Token)
    BY ReadSplits
<1>2. d \o SubSeq(s, 1, n) \in Seq(Token)
    BY <1>1, ConcatProperties
<1>3. (d \o SubSeq(s, 1, n)) \o SubSeq(s, n + 1, Len(s)) = d \o (SubSeq(s, 1, n) \o SubSeq(s, n + 1, Len(s)))
    BY <1>1, Associative, ZenonT(60)
<1> QED BY <1>2, <1>3, ReadSplits, ZenonT(60)

\* A verdict on the first bytes is one on the stream.
LEMMA FirstBytes ==
    ASSUME NEW h \in Seq(Token), NEW s \in Seq(Token)
    PROVE  /\ h \o s \in Seq(Token) /\ Len(h \o s) = Len(h) + Len(s)
           /\ \A i \in 1..Len(h) : (h \o s)[i] = h[i]
           /\ \A n \in 1..Len(h) : SubSeq(h \o s, 1, n) = SubSeq(h, 1, n)
           /\ SubSeq(h \o s, Len(h) + 1, Len(h) + Len(s)) = s
<1>1. h \o s \in Seq(Token) /\ Len(h \o s) = Len(h) + Len(s) /\ \A i \in 1..Len(h) : (h \o s)[i] = h[i]
    BY ConcatProperties
<1>2. ASSUME NEW n \in 1..Len(h) PROVE SubSeq(h \o s, 1, n) = SubSeq(h, 1, n)
    <2>1. 1 \in 1..Len(h)
        OBVIOUS
    <2> QED BY <2>1, SubSeqOfConcat1
<1>3. SubSeq(h \o s, Len(h) + 1, Len(h) + Len(s)) = s
    <2>1. CASE s = <<>>
        BY <2>1, <1>1, SubSeqEmpty
    <2>2. CASE s # <<>>
        <3>1. Len(s) \in Nat \ {0} /\ Len(h) \in Nat
            BY <2>2, EmptySeq, LenProperties
        <3>2. Len(h) + 1 \in Len(h)+1 .. Len(h)+Len(s) /\ Len(h) + Len(s) \in Len(h)+1 .. Len(h)+Len(s)
            BY <3>1
        <3>3. SubSeq(h \o s, Len(h) + 1, Len(h) + Len(s)) = SubSeq(s, Len(h) + 1 - Len(h), Len(h) + Len(s) - Len(h))
            BY <3>2, SubSeqOfConcat2
        <3>4. Len(h) + 1 - Len(h) = 1 /\ Len(h) + Len(s) - Len(h) = Len(s)
            BY <3>1
        <3> QED BY <3>3, <3>4, SubSeqFull
    <2> QED BY <2>1, <2>2
<1> QED BY <1>1, <1>2, <1>3

-----------------------------------------------------------------------------
(* The invariant.                                                          *)

\* Connection d is as it was.
Same(d) ==
    /\ pc'[d] = pc[d] /\ peer'[d] = peer[d] /\ conf'[d] = conf[d] /\ sent'[d] = sent[d]
    /\ socket'[d] = socket[d] /\ header_buf'[d] = header_buf[d]
    /\ buffer'[d] = buffer[d] /\ delivered'[d] = delivered[d] /\ resolved'[d] = resolved[d]

LEMMA SameKeeps ==
    ASSUME NEW d \in Conns, ConnInv(d), Same(d)
    PROVE  ConnInv(d)'
BY ZenonT(60) DEF ConnInv, Same, Untouched, Proxied, Guarded, Body, Client, Honest

\* A step of connection c: the other ones take care of themselves.
LEMMA StepOfOne ==
    ASSUME IInv, NEW c \in Conns, TypeOK', Buffers', ConnInv(c)', \A d \in Conns \ {c} : Same(d)
    PROVE  IInv'
<1>1. ASSUME NEW d \in Conns PROVE ConnInv(d)'
    BY <1>1, SameKeeps DEF IInv
<1> QED BY <1>1 DEF IInv

\* What the invariant says of one connection.
LEMMA OfConn ==
    ASSUME IInv, NEW c \in Conns
    PROVE  /\ ConnInv(c)
           /\ sent[c] \in Seq(Token) /\ socket[c] \in Seq(Token) /\ header_buf[c] \in Seq(Token)
           /\ buffer[c] \in Seq(Token) /\ delivered[c] \in Seq(Token)
<1>1. ConnInv(c) /\ Buffers
    BY ZenonT(60) DEF IInv
<1>2. /\ sent[c] \in Seq(Token) /\ socket[c] \in Seq(Token) /\ header_buf[c] \in Seq(Token)
      /\ buffer[c] \in Seq(Token) /\ delivered[c] \in Seq(Token)
    BY <1>1, SMTT(60) DEF Buffers
<1> QED BY <1>1, <1>2, ZenonT(60)

LEMMA InitIInv == Init => IInv
<1> SUFFICES ASSUME Init PROVE IInv
    OBVIOUS
<1>1. <<>> \in Seq(Token) /\ Len(<<>>) = 0
    BY EmptySeq
<1>2. Buffers
    BY <1>1 DEF Init, Buffers
<1>3. ASSUME NEW c \in Conns PROVE ConnInv(c)
    BY <1>3 DEF Init, ConnInv, Untouched, Past
<1>4. TypeOK
    BY <1>1, PrefixAssumption DEF Init, TypeOK
<1> QED BY <1>2, <1>3, <1>4 DEF IInv

\* A step that changes only where c is.
LEMMA MoveTypes ==
    ASSUME IInv, NEW c \in Conns, NEW p \in {"resolved", "cleared", "handshake", "serving", "failed", "closed", "parsing", "peeking"},
           Goto(c, p), UNCHANGED <<conn, io, resolved, sec>>
    PROVE  TypeOK' /\ Buffers' /\ \A d \in Conns \ {c} : Same(d)
<1> USE DEF IInv, Goto, conn, io, sec
<1>1. TypeOK'
    BY DEF TypeOK
<1>2. Buffers'
    BY DEF Buffers
<1>3. \A d \in Conns \ {c} : Same(d)
    BY DEF TypeOK, Same
<1> QED BY <1>1, <1>2, <1>3

LEMMA DropKeeps ==
    ASSUME IInv, NEW c \in Conns, pc[c] # "new", Drop(c)
    PROVE  IInv'
<1>1. TypeOK' /\ Buffers' /\ \A d \in Conns \ {c} : Same(d)
    BY MoveTypes DEF Drop
<1>2. pc'[c] = "closed" /\ peer'[c] = peer[c] /\ conf'[c] = conf[c]
    BY DEF Drop, Goto, conn, IInv, TypeOK
<1>3. peer[c] \in IPs /\ conf[c] \in Snapshots
    BY ZenonT(60) DEF IInv, ConnInv
<1>4. ConnInv(c)'
    BY <1>2, <1>3 DEF ConnInv, Past
<1> QED BY <1>1, <1>4, StepOfOne

LEMMA AcceptKeeps ==
    ASSUME IInv, NEW c \in Conns, NEW ip \in IPs, NEW snapshot \in Snapshots, NEW stream \in Streams,
           Accept(c, ip, snapshot, stream)
    PROVE  IInv'
<1> USE DEF Accept, Goto, sec
<1>1. TypeOK'
    BY DEF IInv, TypeOK
<1>2. Buffers'
    BY StreamAssumption DEF IInv, Buffers
<1>3. \A d \in Conns \ {c} : Same(d)
    BY DEF IInv, TypeOK, Buffers, Same
<1>4. /\ pc'[c] = "accepted" /\ peer'[c] = ip /\ conf'[c] = snapshot
      /\ sent'[c] = stream /\ socket'[c] = stream
      /\ UNCHANGED <<header_buf, buffer, delivered>>
    BY DEF IInv, TypeOK, Buffers
<1>5. header_buf[c] = <<>> /\ Untouched(c)
    BY ZenonT(60) DEF IInv, ConnInv
<1>6. ConnInv(c)'
    BY <1>4, <1>5 DEF ConnInv, Untouched, Past
<1> QED BY <1>1, <1>2, <1>3, <1>6, StepOfOne

\* The stream is taken as it is.
LEMMA PeerAcceptedKeeps ==
    ASSUME IInv, NEW c \in Conns, PeerAccepted(c)
    PROVE  IInv'
<1>1. /\ peer[c] \in IPs /\ conf[c] \in Snapshots /\ header_buf[c] = <<>> /\ Untouched(c)
      /\ socket[c] = sent[c] /\ sent[c] \in Seq(Token)
    BY DEF PeerAccepted, IInv, ConnInv, Buffers
<1>2. <<>> \o sent[c] = sent[c] /\ <<>> \o <<>> = <<>>
    BY <1>1, ConcatEmptySeq, EmptySeq
<1>3. UNCHANGED <<peer, conf, sent, socket, header_buf, buffer, delivered, failures, banned, late>>
    BY DEF PeerAccepted, conn, io, sec
<1>4. CASE conf[c].security /\ conf[c].proxy_protocol
    <2>1. PICK p \in {"parsing", "peeking"} : Goto(c, p) /\ (p = "parsing" <=> peer[c] = Trusted)
        BY <1>4 DEF PeerAccepted
    <2>2. UNCHANGED <<conn, io, resolved, sec>>
        BY <1>3, <1>4 DEF PeerAccepted, conn, io, sec
    <2>3. TypeOK' /\ Buffers' /\ \A d \in Conns \ {c} : Same(d)
        BY <2>1, <2>2, MoveTypes
    <2>4. pc'[c] = p
        BY <2>1 DEF Goto, IInv, TypeOK
    <2>5. ConnInv(c)'
        BY <1>1, <1>2, <1>3, <1>4, <2>1, <2>4, ZenonT(60) DEF ConnInv, Untouched, Past, Proxied, Guarded
    <2> QED BY <2>3, <2>5, StepOfOne
<1>5. CASE ~(conf[c].security /\ conf[c].proxy_protocol)
    <2>1. pc' = [pc EXCEPT ![c] = "resolved"] /\ resolved' = [resolved EXCEPT ![c] = peer[c]]
        BY <1>5 DEF PeerAccepted, Goto
    <2>2. TypeOK'
        BY <1>1, <1>3, <2>1 DEF IInv, TypeOK
    <2>3. Buffers' /\ \A d \in Conns \ {c} : Same(d)
        BY <1>3, <2>1 DEF IInv, TypeOK, Buffers, Same
    <2>4. pc'[c] = "resolved" /\ resolved'[c] = peer[c]
        BY <2>1 DEF IInv, TypeOK
    <2>5. ~Proxied(c)' /\ ~Guarded(c)'
        BY <1>3, <1>5 DEF Proxied, Guarded
    <2>6. (delivered[c] \o buffer[c] \o socket[c])' = sent[c]
        BY <1>1, <1>2, <1>3, ZenonT(60) DEF Untouched
    <2>7. ConnInv(c)'
        BY <1>1, <1>3, <2>4, <2>5, <2>6, ZenonT(60) DEF ConnInv, Past, Body, Client, Honest
    <2> QED BY <2>2, <2>3, <2>7, StepOfOne
<1> QED BY <1>4, <1>5

\* One more byte of the header, or of what may be one.
LEMMA ReadByteKeeps ==
    ASSUME IInv, NEW c \in Conns, ParseByte(c) \/ PeekByte(c)
    PROVE  IInv'
<1>1. /\ pc[c] \in {"parsing", "peeking"} /\ socket[c] # <<>>
      /\ header_buf' = [header_buf EXCEPT ![c] = Append(header_buf[c], Head(socket[c]))]
      /\ socket' = [socket EXCEPT ![c] = Tail(socket[c])]
      /\ UNCHANGED <<pc, peer, conf, sent, buffer, delivered, resolved, failures, banned, late>>
    BY DEF ParseByte, PeekByte, ReadByte, conn, sec
<1>2. /\ header_buf[c] \in Seq(Token) /\ socket[c] \in Seq(Token)
      /\ Untouched(c) /\ header_buf[c] \o socket[c] = sent[c]
    BY <1>1, OfConn, ZenonT(60) DEF ConnInv
<1>3. /\ Append(header_buf[c], Head(socket[c])) \in Seq(Token) /\ Tail(socket[c]) \in Seq(Token)
      /\ Append(header_buf[c], Head(socket[c])) \o Tail(socket[c]) = sent[c]
    BY <1>1, <1>2, ByteMoves, ZenonT(60)
<1>4. Len(header_buf[c]) < MAX_HEADER
    <2>1. Len(header_buf[c]) \in Nat /\ Len(PREFIX) \in 1..MAX_HEADER /\ MAX_HEADER \in Nat
        BY <1>2, LenProperties, PrefixAssumption
    <2> QED BY <2>1 DEF ParseByte, PeekByte, HeaderRead, Peeked
<1>5. Len(Append(header_buf[c], Head(socket[c]))) <= MAX_HEADER
    BY <1>1, <1>2, <1>4, AppendProperties, HeadTailProperties, LenProperties, PrefixAssumption
<1>6. TypeOK'
    BY <1>1, <1>5, SMTT(60) DEF IInv, TypeOK, Buffers
<1>7. Buffers'
    BY <1>1, <1>3 DEF IInv, Buffers
<1>8. \A d \in Conns \ {c} : Same(d)
    BY <1>1 DEF IInv, Buffers, Same
<1>9. /\ header_buf'[c] = Append(header_buf[c], Head(socket[c])) /\ socket'[c] = Tail(socket[c])
    BY <1>1 DEF IInv, Buffers
<1>10. ConnInv(c)'
    BY <1>1, <1>2, <1>3, <1>9, ZenonT(60) DEF IInv, ConnInv, Untouched, Past, Proxied, Guarded
<1> QED BY <1>6, <1>7, <1>8, <1>10, StepOfOne

\* The trusted peer's header is off the stream, and the stream began with it.
LEMMA ParseSucceedsKeeps ==
    ASSUME IInv, NEW c \in Conns, ParseSucceeds(c)
    PROVE  IInv'
<1> DEFINE h == header_buf[c]
           ip == ParseProxyProtocolV1(h)
<1>1. /\ pc[c] = "parsing" /\ ip # None
      /\ pc' = [pc EXCEPT ![c] = "resolved"] /\ resolved' = [resolved EXCEPT ![c] = ip]
      /\ UNCHANGED <<peer, conf, sent, socket, header_buf, buffer, delivered, failures, banned, late>>
    BY DEF ParseSucceeds, Goto, conn, io, sec
<1>2. /\ h \in Seq(Token) /\ socket[c] \in Seq(Token) /\ Untouched(c) /\ h \o socket[c] = sent[c]
      /\ Proxied(c) /\ peer[c] \in IPs /\ conf[c] \in Snapshots
    BY <1>1, OfConn, ZenonT(60) DEF ConnInv
<1>3. Len(h) = HeaderLen /\ ip = h[Len(PREFIX) + 1] /\ ip \in IPs
    BY <1>1 DEF ParseProxyProtocolV1, HeaderLen
<1>4. Len(PREFIX) \in Nat /\ HeaderLen \in 1..Len(h) /\ Len(PREFIX) + 1 \in 1..Len(h)
    BY <1>3, PrefixAssumption DEF HeaderLen
<1>5. /\ SubSeq(sent[c], HeaderLen + 1, Len(sent[c])) = socket[c]
      /\ SubSeq(sent[c], 1, HeaderLen) = h
      /\ sent[c][Len(PREFIX) + 1] = ip
    <2>1. SubSeq(h, 1, Len(h)) = h
        BY <1>2, SubSeqFull
    <2>2. /\ Len(sent[c]) = Len(h) + Len(socket[c])
          /\ sent[c][Len(PREFIX) + 1] = h[Len(PREFIX) + 1]
          /\ SubSeq(sent[c], 1, HeaderLen) = SubSeq(h, 1, HeaderLen)
          /\ SubSeq(sent[c], Len(h) + 1, Len(h) + Len(socket[c])) = socket[c]
        <3>1. /\ Len(sent[c]) = Len(h) + Len(socket[c])
              /\ \A i \in 1..Len(h) : sent[c][i] = h[i]
              /\ \A n \in 1..Len(h) : SubSeq(sent[c], 1, n) = SubSeq(h, 1, n)
              /\ SubSeq(sent[c], Len(h) + 1, Len(h) + Len(socket[c])) = socket[c]
            <4> HIDE DEF h
            <4>1. h \in Seq(Token) /\ socket[c] \in Seq(Token) /\ h \o socket[c] = sent[c]
                BY <1>2
            <4> DEFINE w == h \o socket[c]
            <4>2. /\ Len(w) = Len(h) + Len(socket[c])
                  /\ \A i \in 1..Len(h) : w[i] = h[i]
                  /\ \A n \in 1..Len(h) : SubSeq(w, 1, n) = SubSeq(h, 1, n)
                  /\ SubSeq(w, Len(h) + 1, Len(h) + Len(socket[c])) = socket[c]
                BY <4>1, FirstBytes, ZenonT(60)
            <4>3. w = sent[c]
                BY <4>1
            <4> HIDE DEF w
            <4> QED BY <4>2, <4>3, Zenon
        <3> QED BY <3>1, <1>4, Zenon
    <2> QED BY <2>1, <2>2, <1>3, SMTT(60)
<1>6. <<>> \o socket[c] = socket[c] /\ <<>> \o <<>> = <<>>
    BY <1>2, ConcatEmptySeq, EmptySeq
<1>7. TypeOK'
    BY <1>1, <1>3 DEF IInv, TypeOK
<1>8. Buffers' /\ \A d \in Conns \ {c} : Same(d)
    BY <1>1 DEF IInv, TypeOK, Buffers, Same
<1>9. pc'[c] = "resolved" /\ resolved'[c] = ip
    BY <1>1 DEF IInv, TypeOK
<1> HIDE DEF ip, h
<1>10. Proxied(c)' /\ ~Guarded(c)'
    BY <1>1, <1>2 DEF Proxied, Guarded
<1>11. (delivered[c] \o buffer[c] \o socket[c])' = socket[c] /\ Body(c)' = socket[c]
    BY <1>1, <1>2, <1>5, <1>6, <1>10 DEF Untouched, Body
<1>12. resolved'[c] = Client(c)' /\ resolved'[c] \in IPs
    BY <1>1, <1>3, <1>5, <1>9, <1>10 DEF Client
<1>13. Honest(c)'
    BY <1>1, <1>5, <1>10, ZenonT(60) DEF Honest, ip
<1>14. ConnInv(c)'
    BY <1>1, <1>2, <1>9, <1>11, <1>12, <1>13, ZenonT(60) DEF ConnInv, Past
<1> QED BY <1>7, <1>8, <1>14, StepOfOne

\* Somebody else's stream does not begin with the prefix, and is whole.
LEMMA PeekPassesKeeps ==
    ASSUME IInv, NEW c \in Conns, PeekPasses(c)
    PROVE  IInv'
<1> DEFINE h == header_buf[c]
<1>1. /\ pc[c] = "peeking" /\ (Peeked(c) \/ socket[c] = <<>>) /\ ~StartsWith(h, PREFIX)
      /\ pc' = [pc EXCEPT ![c] = "resolved"] /\ resolved' = [resolved EXCEPT ![c] = peer[c]]
      /\ buffer' = [buffer EXCEPT ![c] = h]
      /\ UNCHANGED <<peer, conf, sent, socket, header_buf, delivered, failures, banned, late>>
    BY DEF PeekPasses, Goto, conn, sec
<1>2. /\ h \in Seq(Token) /\ socket[c] \in Seq(Token) /\ Untouched(c) /\ h \o socket[c] = sent[c]
      /\ Guarded(c) /\ peer[c] \in IPs /\ conf[c] \in Snapshots
    BY <1>1, OfConn, ZenonT(60) DEF ConnInv
<1>3. ~StartsWith(sent[c], PREFIX)
    <2> SUFFICES ASSUME StartsWith(sent[c], PREFIX) PROVE FALSE
        OBVIOUS
    <2>1. /\ Len(sent[c]) >= Len(PREFIX) /\ SubSeq(sent[c], 1, Len(PREFIX)) = PREFIX
          /\ PREFIX \in Seq(Token) /\ Len(PREFIX) \in Nat \ {0} /\ Len(h) \in Nat
        BY <1>2, PrefixAssumption, LenProperties DEF StartsWith
    <2>2. /\ \A i \in 1..Len(h) : sent[c][i] = h[i]
          /\ \A n \in 1..Len(h) : SubSeq(sent[c], 1, n) = SubSeq(h, 1, n)
        BY <1>2, FirstBytes
    <2>3. CASE Len(h) >= Len(PREFIX)
        <3>1. SubSeq(h, 1, Len(PREFIX)) = PREFIX
            BY <2>1, <2>2, <2>3
        <3> QED BY <3>1, <2>3, <1>1 DEF StartsWith
    <2>4. CASE Peeked(c) /\ Len(h) < Len(PREFIX)
        <3>1. Len(h) \in 1..Len(h) /\ Len(h) \in 1..Len(PREFIX) /\ h[Len(h)] # PREFIX[Len(h)]
            BY <2>1, <2>4 DEF Peeked
        <3>2. sent[c] \in Seq(Token)
            BY DEF IInv, Buffers
        <3>3. SubSeq(sent[c], 1, Len(PREFIX))[Len(h)] = sent[c][Len(h)]
            BY <2>1, <3>1, <3>2
        <3> QED BY <2>1, <2>2, <3>1, <3>3
    <2>5. CASE socket[c] = <<>>
        <3>1. sent[c] = h
            BY <1>2, <2>5, ConcatEmptySeq
        <3> QED BY <3>1, <1>1
    <2> QED BY <2>1, <2>3, <2>4, <2>5, <1>1, SMTT(60)
<1>4. <<>> \o h = h
    BY <1>2, ConcatEmptySeq
<1>5. TypeOK'
    BY <1>1, <1>2 DEF IInv, TypeOK
<1>6. Buffers' /\ \A d \in Conns \ {c} : Same(d)
    BY <1>1, <1>2 DEF IInv, TypeOK, Buffers, Same
<1>7. pc'[c] = "resolved" /\ resolved'[c] = peer[c] /\ buffer'[c] = h
    BY <1>1 DEF IInv, TypeOK, Buffers
<1> HIDE DEF h
<1>8. ~Proxied(c)'
    BY <1>1, <1>2 DEF Proxied, Guarded
<1>9. (delivered[c] \o buffer[c] \o socket[c])' = sent[c]
    BY <1>1, <1>2, <1>4, <1>7, ZenonT(60) DEF Untouched
<1>10. ConnInv(c)'
    BY <1>1, <1>2, <1>3, <1>7, <1>8, <1>9, ZenonT(60) DEF ConnInv, Past, Body, Client, Honest
<1> QED BY <1>5, <1>6, <1>10, StepOfOne

\* From one place past the header stage to another.
LEMMA PassOn ==
    ASSUME IInv, NEW c \in Conns, pc[c] \in Past, NEW p \in {"cleared", "handshake", "serving"},
           Goto(c, p), UNCHANGED <<conn, io, resolved, sec>>
    PROVE  IInv'
<1>1. TypeOK' /\ Buffers' /\ \A d \in Conns \ {c} : Same(d)
    BY MoveTypes
<1>2. pc'[c] \in {"cleared", "handshake", "serving"}
    BY DEF Goto, IInv, TypeOK
<1>3. UNCHANGED <<peer, conf, sent, socket, header_buf, buffer, delivered, resolved>>
    BY DEF conn, io
<1>4. ConnInv(c) /\ pc[c] # "new"
    BY DEF IInv, Past
<1>5. ConnInv(c)'
    BY <1>2, <1>3, <1>4, ZenonT(60) DEF ConnInv, Past, Body, Client, Honest, Proxied, Guarded
<1> QED BY <1>1, <1>5, StepOfOne

LEMMA HandshakeFailsKeeps ==
    ASSUME IInv, NEW c \in Conns, HandshakeFails(c)
    PROVE  IInv'
<1>1. /\ pc[c] = "handshake" /\ pc' = [pc EXCEPT ![c] = "failed"]
      /\ UNCHANGED <<peer, conf, sent, socket, header_buf, buffer, delivered, resolved>>
    BY DEF HandshakeFails, Goto, conn, io
<1>2. ConnInv(c) /\ resolved[c] \in IPs
    BY <1>1, ZenonT(60) DEF IInv, ConnInv, Past
<1>3. failures' \in [IPs -> Nat] /\ banned' \subseteq IPs /\ late' \in [IPs -> SUBSET Conns]
    BY <1>2, SMTT(60) DEF HandshakeFails, IInv, TypeOK, Beyond
<1>4. TypeOK'
    BY <1>1, <1>3 DEF IInv, TypeOK
<1>5. Buffers' /\ pc'[c] = "failed" /\ \A d \in Conns \ {c} : Same(d)
    BY <1>1 DEF IInv, TypeOK, Buffers, Same
<1>6. ConnInv(c)'
    BY <1>1, <1>2, <1>5, ZenonT(60) DEF ConnInv, Past, Body, Client, Honest, Proxied, Guarded
<1> QED BY <1>4, <1>5, <1>6, StepOfOne

LEMMA PollReadKeeps ==
    ASSUME IInv, NEW c \in Conns, NEW n \in 1..MaxRead, PollRead(c, n)
    PROVE  IInv'
<1> DEFINE b == buffer[c]
           s == socket[c]
           d == delivered[c]
<1>1. /\ pc[c] \in Past /\ pc[c] \notin {"new", "accepted", "parsing", "peeking"}
      /\ UNCHANGED <<pc, peer, conf, sent, header_buf, resolved, failures, banned, late>>
    BY DEF PollRead, Past, conn, sec
<1>2. b \in Seq(Token) /\ s \in Seq(Token) /\ d \in Seq(Token) /\ d \o b \o s = Body(c) /\ ConnInv(c)
    BY <1>1, OfConn, ZenonT(60) DEF ConnInv
<1>3. Body(c)' = Body(c) /\ Client(c)' = Client(c) /\ (Honest(c)' <=> Honest(c))
    BY <1>1 DEF Body, Client, Honest, Proxied, Guarded
<1>o. \A x \in Conns \ {c} : buffer'[x] = buffer[x] /\ socket'[x] = socket[x] /\ delivered'[x] = delivered[x]
    BY SMTT(60) DEF PollRead, IInv, Buffers
<1>4. ASSUME b # <<>> PROVE Buffers' /\ delivered'[c] \o buffer'[c] \o socket'[c] = Body(c)
    <2>1. /\ n \in 1..Len(b)
          /\ delivered' = [delivered EXCEPT ![c] = d \o SubSeq(b, 1, n)]
          /\ buffer' = [buffer EXCEPT ![c] = SubSeq(b, n + 1, Len(b))]
          /\ socket' = socket
        BY <1>4 DEF PollRead
    <2>2. d \o SubSeq(b, 1, n) \in Seq(Token) /\ SubSeq(b, n + 1, Len(b)) \in Seq(Token)
        BY <1>2, <2>1, ReadMoves, ReadSplits
    <2>3. (d \o SubSeq(b, 1, n)) \o SubSeq(b, n + 1, Len(b)) = d \o b
        BY <1>2, <2>1, ReadMoves, ZenonT(60)
    <2>4. Buffers'
        BY <1>1, <2>1, <2>2 DEF IInv, Buffers
    <2>5. delivered'[c] \o buffer'[c] \o socket'[c] = Body(c)
        BY <1>2, <2>1, <2>3, ZenonT(60) DEF IInv, Buffers
    <2> QED BY <2>4, <2>5
<1>5. ASSUME b = <<>> PROVE Buffers' /\ delivered'[c] \o buffer'[c] \o socket'[c] = Body(c)
    <2>1. /\ n \in 1..Len(s)
          /\ delivered' = [delivered EXCEPT ![c] = d \o SubSeq(s, 1, n)]
          /\ socket' = [socket EXCEPT ![c] = SubSeq(s, n + 1, Len(s))]
          /\ buffer' = buffer
        BY <1>5 DEF PollRead
    <2>2. d \o SubSeq(s, 1, n) \in Seq(Token) /\ SubSeq(s, n + 1, Len(s)) \in Seq(Token)
        BY <1>2, <2>1, ReadMoves, ReadSplits
    <2>3. (d \o SubSeq(s, 1, n)) \o SubSeq(s, n + 1, Len(s)) = d \o s
        BY <1>2, <2>1, ReadMoves, ZenonT(60)
    <2>4. d \o <<>> = d /\ (d \o SubSeq(s, 1, n)) \o <<>> = d \o SubSeq(s, 1, n)
        BY <1>2, <2>2, ConcatEmptySeq
    <2>5. Buffers'
        BY <1>1, <2>1, <2>2 DEF IInv, Buffers
    <2>6. delivered'[c] = d \o SubSeq(s, 1, n) /\ buffer'[c] = <<>> /\ socket'[c] = SubSeq(s, n + 1, Len(s))
        BY <1>5, <2>1, SMTT(60) DEF IInv, Buffers
    <2>7. delivered'[c] \o buffer'[c] \o socket'[c] = Body(c)
        BY <1>2, <1>5, <2>3, <2>4, <2>6, ZenonT(60)
    <2> QED BY <2>5, <2>7
<1>6. Buffers' /\ delivered'[c] \o buffer'[c] \o socket'[c] = Body(c)
    BY <1>4, <1>5, ZenonT(60)
<1>7. TypeOK'
    BY <1>1 DEF IInv, TypeOK
<1>8. \A x \in Conns \ {c} : Same(x)
    BY <1>1, <1>o DEF Same
<1>9. ConnInv(c)'
    BY <1>1, <1>2, <1>3, <1>6, ZenonT(60) DEF ConnInv
<1> QED BY <1>6, <1>7, <1>8, <1>9, StepOfOne

\* A step that is about no connection.
LEMMA LapseKeeps ==
    ASSUME IInv, UNCHANGED vars \/ \E ip \in IPs : WindowSlides(ip) \/ BanEnds(ip)
    PROVE  IInv'
<1>1. UNCHANGED <<pc, peer, conf, sent, socket, header_buf, buffer, delivered, resolved>>
    BY DEF vars, WindowSlides, BanEnds, conn, io
<1>2. failures' \in [IPs -> Nat] /\ banned' \subseteq IPs /\ late' \in [IPs -> SUBSET Conns]
    <2>1. CASE UNCHANGED vars
        BY <2>1, SMTT(60) DEF vars, sec, IInv, TypeOK
    <2>2. CASE \E ip \in IPs : WindowSlides(ip)
        BY <2>2, SMTT(60) DEF WindowSlides, IInv, TypeOK
    <2>3. CASE \E ip \in IPs : BanEnds(ip)
        BY <2>3, SMTT(60) DEF BanEnds, IInv, TypeOK
    <2> QED BY <2>1, <2>2, <2>3
<1>3. TypeOK' /\ Buffers'
    BY <1>1, <1>2, SMTT(60) DEF IInv, TypeOK, Buffers
<1>4. ASSUME NEW d \in Conns PROVE ConnInv(d)'
    <2>1. Same(d)
        BY <1>1 DEF Same
    <2>2. ConnInv(d)
        BY DEF IInv
    <2> QED BY <2>1, <2>2, SameKeeps
<1> QED BY <1>3, <1>4 DEF IInv

LEMMA NextIInv == IInv /\ [Next]_vars => IInv'
<1> SUFFICES ASSUME IInv, [Next]_vars PROVE IInv'
    OBVIOUS
<1>1. CASE UNCHANGED vars \/ \E ip \in IPs : WindowSlides(ip) \/ BanEnds(ip)
    BY <1>1, LapseKeeps
<1>2. ASSUME NEW c \in Conns, NEW ip \in IPs, NEW snapshot \in Snapshots, NEW stream \in Streams,
             Accept(c, ip, snapshot, stream)
      PROVE  IInv'
    BY <1>2, AcceptKeeps
<1>3. ASSUME NEW c \in Conns,
             \/ PeerBlacklisted(c) \/ ParseFails(c) \/ PeekRejects(c) \/ ClientBlacklisted(c)
             \/ ParseEof(c) \/ Timeout(c) \/ Served(c)
      PROVE  IInv'
    BY <1>3, DropKeeps
    DEF PeerBlacklisted, ParseFails, PeekRejects, ClientBlacklisted, ParseEof, Timeout, Served
<1>4. ASSUME NEW c \in Conns, PeerAccepted(c) PROVE IInv'
    BY <1>4, PeerAcceptedKeeps
<1>5. ASSUME NEW c \in Conns, ParseSucceeds(c) PROVE IInv'
    BY <1>5, ParseSucceedsKeeps
<1>6. ASSUME NEW c \in Conns, PeekPasses(c) PROVE IInv'
    BY <1>6, PeekPassesKeeps
<1>7. ASSUME NEW c \in Conns, ClientAccepted(c) \/ Begin(c) \/ HandshakeSucceeds(c) PROVE IInv'
    <2>1. /\ pc[c] \in Past /\ UNCHANGED <<conn, io, resolved, sec>>
          /\ Goto(c, "cleared") \/ Goto(c, "handshake") \/ Goto(c, "serving")
        BY <1>7 DEF ClientAccepted, Begin, HandshakeSucceeds, Past
    <2> QED BY <2>1, PassOn
<1>8. ASSUME NEW c \in Conns, HandshakeFails(c) PROVE IInv'
    BY <1>8, HandshakeFailsKeeps
<1>9. ASSUME NEW c \in Conns, ParseByte(c) \/ PeekByte(c) PROVE IInv'
    BY <1>9, ReadByteKeeps
<1>10. ASSUME NEW c \in Conns, NEW n \in 1..MaxRead, PollRead(c, n) PROVE IInv'
    BY <1>10, PollReadKeeps
<1> QED BY <1>1, <1>2, <1>3, <1>4, <1>5, <1>6, <1>7, <1>8, <1>9, <1>10 DEF Next, Screen, Read

-----------------------------------------------------------------------------
(* Theorems.                                                               *)

\* The strengthened invariant is inductive.
THEOREM Invariance == Spec => []IInv
BY InitIInv, NextIInv, PTL DEF Spec

\* Types, and the limit on the bytes read ahead.
THEOREM TypeCorrectness == Spec => []TypeOK
<1>1. IInv => TypeOK
    BY DEF IInv
<1> QED BY <1>1, Invariance, PTL

\* ProxyStream loses, adds and reorders no byte of any stream.
THEOREM StreamsIntact == Spec => []StreamIntact
<1>1. IInv => StreamIntact
    BY ZenonT(60) DEF IInv, ConnInv, StreamIntact, Passed, Past, Body
<1> QED BY <1>1, Invariance, PTL

\* The address charged is the client's.
THEOREM ClientsResolved == Spec => []ResolvedIsClient
<1>1. IInv => ResolvedIsClient
    BY ZenonT(60) DEF IInv, ConnInv, ResolvedIsClient, Passed, Past, Client
<1> QED BY <1>1, Invariance, PTL

\* Only the trusted peer gets past with a header, and only with a good one.
THEOREM HeadersHonest == Spec => []OnlyHonestHeaders
<1>1. IInv => OnlyHonestHeaders
    BY ZenonT(60) DEF IInv, ConnInv, OnlyHonestHeaders, Passed, Past, Honest
<1> QED BY <1>1, Invariance, PTL

-----------------------------------------------------------------------------
(* Bans.                                                                   *)

\* A step that neither bans nor lets anybody banned past the second check.
LEMMA NobodyPasses ==
    ASSUME IInv, BanHoldsFromCheck, UNCHANGED <<banned, late>>,
           \A ip \in banned : Beyond(ip)' \subseteq Beyond(ip)
    PROVE  BanHoldsFromCheck'
BY DEF BanHoldsFromCheck

\* A task that is not past the check after its step is in no Beyond, and the
\* other ones are where they were.
LEMMA OutsideStays ==
    ASSUME IInv, NEW x \in Conns, NEW p, Goto(x, p),
           p \notin {"cleared", "handshake", "serving"} \/ pc[x] \in {"cleared", "handshake", "serving"},
           \A d \in Conns : (d = x /\ pc[x] \notin {"cleared", "handshake", "serving"}) \/ resolved'[d] = resolved[d]
    PROVE  \A ip \in banned : Beyond(ip)' \subseteq Beyond(ip)
BY DEF Goto, Beyond, IInv, TypeOK

\* Whatever a task does, a ban keeps out whoever was not past the check when
\* it fell.
LEMMA NextBans == IInv /\ BanHoldsFromCheck /\ [Next]_vars => BanHoldsFromCheck'
<1> SUFFICES ASSUME IInv, BanHoldsFromCheck, [Next]_vars PROVE BanHoldsFromCheck'
    OBVIOUS
<1>1. CASE UNCHANGED vars
    BY <1>1 DEF vars, sec, BanHoldsFromCheck, Beyond
<1>2. ASSUME NEW ip \in IPs, WindowSlides(ip) PROVE BanHoldsFromCheck'
    BY <1>2 DEF WindowSlides, BanHoldsFromCheck, Beyond
<1>3. ASSUME NEW ip \in IPs, BanEnds(ip) PROVE BanHoldsFromCheck'
    <2>1. \A i \in banned' : i \in banned /\ late'[i] = late[i] /\ Beyond(i)' = Beyond(i)
        BY <1>3 DEF BanEnds, Beyond, IInv, TypeOK
    <2> QED BY <2>1 DEF BanHoldsFromCheck
<1>4. ASSUME NEW c \in Conns, NEW ip \in IPs, NEW snapshot \in Snapshots, NEW stream \in Streams,
             Accept(c, ip, snapshot, stream)
      PROVE  BanHoldsFromCheck'
    BY <1>4, OutsideStays, NobodyPasses DEF Accept, sec
<1>5. ASSUME NEW c \in Conns,
             \/ PeerBlacklisted(c) \/ ParseFails(c) \/ PeekRejects(c) \/ ClientBlacklisted(c)
             \/ ParseEof(c) \/ Timeout(c) \/ Served(c)
      PROVE  BanHoldsFromCheck'
    <2>1. Drop(c)
        BY <1>5 DEF PeerBlacklisted, ParseFails, PeekRejects, ClientBlacklisted, ParseEof, Timeout, Served
    <2> QED BY <2>1, OutsideStays, NobodyPasses DEF Drop, sec
<1>6. ASSUME NEW c \in Conns, PeerAccepted(c) \/ ParseSucceeds(c) \/ PeekPasses(c)
      PROVE  BanHoldsFromCheck'
    <2>1. /\ pc[c] \in {"accepted", "parsing", "peeking"} /\ UNCHANGED <<banned, late>>
          /\ Goto(c, "resolved") \/ Goto(c, "parsing") \/ Goto(c, "peeking")
          /\ \A d \in Conns \ {c} : resolved'[d] = resolved[d]
        BY <1>6 DEF PeerAccepted, ParseSucceeds, PeekPasses, sec, IInv, TypeOK
    <2> QED BY <2>1, OutsideStays, NobodyPasses
<1>7. ASSUME NEW c \in Conns, Begin(c) \/ HandshakeSucceeds(c) PROVE BanHoldsFromCheck'
    <2>1. /\ pc[c] \in {"cleared", "handshake"} /\ UNCHANGED <<resolved, banned, late>>
          /\ Goto(c, "handshake") \/ Goto(c, "serving")
        BY <1>7 DEF Begin, HandshakeSucceeds, sec
    <2> QED BY <2>1, OutsideStays, NobodyPasses
<1>8. ASSUME NEW c \in Conns, ClientAccepted(c) PROVE BanHoldsFromCheck'
    <2>1. /\ UNCHANGED <<resolved, banned, late>> /\ resolved[c] \notin banned
          /\ \A d \in Conns \ {c} : pc'[d] = pc[d]
        BY <1>8 DEF ClientAccepted, Goto, sec, IInv, TypeOK
    <2>2. \A ip \in banned : Beyond(ip)' \subseteq Beyond(ip)
        BY <2>1 DEF Beyond
    <2> QED BY <2>1, <2>2, NobodyPasses
<1>9. ASSUME NEW c \in Conns, HandshakeFails(c) PROVE BanHoldsFromCheck'
    <2> DEFINE ip == resolved[c]
    <2>1. ip \in IPs /\ pc[c] = "handshake" /\ Goto(c, "failed") /\ UNCHANGED resolved
        BY <1>9, ZenonT(60) DEF HandshakeFails, IInv, ConnInv, Past
    <2>2. \A i \in IPs : Beyond(i)' \subseteq Beyond(i)
        BY <2>1 DEF Goto, Beyond, IInv, TypeOK
    <2>3. CASE UNCHANGED <<banned, late>>
        BY <2>2, <2>3, NobodyPasses DEF IInv, TypeOK
    <2>4. CASE banned' = banned \cup {ip} /\ late' = [late EXCEPT ![ip] = Beyond(ip)]
        <3>1. late'[ip] = Beyond(ip) /\ \A i \in IPs \ {ip} : late'[i] = late[i]
            BY <2>1, <2>4 DEF IInv, TypeOK
        <3> QED BY <2>1, <2>2, <2>4, <3>1 DEF BanHoldsFromCheck, IInv, TypeOK
    <2> QED BY <1>9, <2>3, <2>4 DEF HandshakeFails
<1>10. ASSUME NEW c \in Conns, NEW n \in 1..MaxRead, PollRead(c, n) PROVE BanHoldsFromCheck'
    BY <1>10 DEF PollRead, sec, BanHoldsFromCheck, Beyond
<1>11. ASSUME NEW c \in Conns, ParseByte(c) \/ PeekByte(c) PROVE BanHoldsFromCheck'
    BY <1>11 DEF ParseByte, PeekByte, ReadByte, sec, BanHoldsFromCheck, Beyond
<1> QED BY <1>1, <1>2, <1>3, <1>4, <1>5, <1>6, <1>7, <1>8, <1>9, <1>10, <1>11, SMTT(60) DEF Next, Screen, Read

\* While a ban lasts, nobody gets past the second check who was not past it
\* when the ban fell, for any number of tasks that ban and check in any order.
THEOREM BansHold == Spec => []BanHoldsFromCheck
<1>1. Init => BanHoldsFromCheck
    BY DEF Init, BanHoldsFromCheck
<1> QED BY <1>1, NextBans, Invariance, PTL DEF Spec
=============================================================================
