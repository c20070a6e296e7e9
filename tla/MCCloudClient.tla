---------------------------- MODULE MCCloudClient ----------------------------
(* CloudClient for TLC: three regions, one of them without a name, for two *)
(* goroutines that compete for one token at a time and one that does not;  *)
(* one retry, and failures enough for both to be given up.                 *)
EXTENDS CloudClient

CONSTANTS gz, sh, nameless
MCRegions == {gz, sh, nameless}
MCNamed == {gz, sh}
=============================================================================
