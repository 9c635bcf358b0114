---------------------------- MODULE MCConnection ----------------------------
(* Instances of Connection for TLC: a load balancer `lb' and a `client'    *)
(* behind or beside it.  The streams hold a header, a header that is cut,  *)
(* wrong or too long, a stream that starts like the prefix, and payload.   *)
EXTENDS Connection

CONSTANTS lb, client

MCPrefix == <<"P", "R">>
MCStreams == {<<"P", "R", client, CRLF, "R", "P">>, <<"P", "R", client>>, <<"P", "R", CRLF>>,
              <<"P", "R", client, client, client, CRLF>>, <<"P", "P", "R">>, <<"P">>, <<"R", "P">>, <<>>}

S(security, proxy_protocol, tls) ==
    [security |-> security, proxy_protocol |-> proxy_protocol, tls |-> tls]
MCSnapshots == {S(TRUE, TRUE, TRUE), S(TRUE, FALSE, FALSE), S(FALSE, FALSE, TRUE)}
=============================================================================
