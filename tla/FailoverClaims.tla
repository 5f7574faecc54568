--------------------------- MODULE FailoverClaims ---------------------------
(***************************************************************************)
(* What the documentation says of recovery and the code does not do.       *)
(***************************************************************************)
EXTENDS MCFailover

\* "It does not jump straight back to Healthy" (docs/failover.md:92).  A probe
\* that was decided on a Degraded snapshot does it.
NoJumpToHealthy ==
    [][\A e \in Entries :
          ~(status[e] = "unhealthy" /\ status'[e] = "healthy")]_vars
=============================================================================
