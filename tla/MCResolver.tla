----------------------------- MODULE MCResolver -----------------------------
(***************************************************************************)
(* Three requests for one domain while its record expires, is refreshed    *)
(* and vanishes, the configuration is updated once and the resolver is     *)
(* shut down or dropped.                                                   *)
(***************************************************************************)
EXTENDS Resolver

CONSTANTS k1

MCKeys == {k1}
MCReqs == 1..3
MCRecordTtls == {2}
=============================================================================
