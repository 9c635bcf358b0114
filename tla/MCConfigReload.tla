--------------------------- MODULE MCConfigReload ---------------------------
(* ConfigReload on two contents that load and differ in all that can be     *)
(* reloaded, and one each with another port, with a bad certificate, with   *)
(* forward authentication where the root certificates are missing, with a   *)
(* log file that cannot be opened, and one that does not parse.             *)
EXTENDS ConfigReload

Content(parses, port, tls, roots, log, body) ==
    [parses |-> parses, listen_port |-> port, workers |-> 2, tls_ok |-> tls, roots_ok |-> roots,
     logfile |-> log, body |-> body]

A == Content(TRUE, 80, TRUE, TRUE, "a.log", "A")
B == Content(TRUE, 80, TRUE, TRUE, "b.log", "B")
F == Content(TRUE, 80, TRUE, TRUE, "bad.log", "F")

MCContents ==
    {A, B, F, Content(TRUE, 81, TRUE, TRUE, NoLog, "C"), Content(TRUE, 80, FALSE, TRUE, "b.log", "D"),
     Content(FALSE, 80, TRUE, TRUE, "b.log", "E"), Content(TRUE, 80, TRUE, FALSE, "b.log", "G")}

\* The loadable ones; in some runs the log file of the third cannot be opened.
MCLoadable == {A, B, F}
MCLogFiles == {"a.log", "b.log", "bad.log"}
=============================================================================
