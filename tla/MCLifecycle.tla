---------------------------- MODULE MCLifecycle ----------------------------
(* Lifecycle for TLC: two replicas, a lease that is one tick longer than a *)
(* leader holds on to it, and a shutdown that may take longer than that.   *)
EXTENDS Lifecycle

CONSTANTS r1, r2
MCReplicas == {r1, r2}
=============================================================================
