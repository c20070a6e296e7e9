---------------------------- MODULE MCPriceCache ----------------------------
(* PriceCache for TLC: two instances described in batches of one, two      *)
(* offers, so that an instance can be modified between its description and *)
(* its pricing, and two prices.                                            *)
EXTENDS PriceCache

CONSTANTS i1, i2, small, large

MCInstances == {i1, i2}
MCOffers == {small, large}
=============================================================================
