---------------------------- MODULE MCRateLimit ----------------------------
(* RateLimit for TLC: two slots, and twice as many callers as slots, so    *)
(* that two callers can queue up while two are being served.               *)
EXTENDS RateLimit

CONSTANTS r1, r2, r3, r4

MCRequests == {r1, r2, r3, r4}
=============================================================================
