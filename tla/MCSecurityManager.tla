-------------------------- MODULE MCSecurityManager --------------------------
(* SecurityManager on two addresses.  The settings include the boundary     *)
(* values: no ban time, no tolerated failure, limiter off.                  *)
EXTENDS SecurityManager, TLC

MCConfigs ==
    {[ban_duration |-> b, max_tls_failures |-> f, rate_limit_rpm |-> r] :
        <<b, f, r>> \in {<<3, 1, 2>>, <<1, 0, 1>>, <<0, 1, 0>>}}

Symmetry == Permutations(IPs)
=============================================================================
