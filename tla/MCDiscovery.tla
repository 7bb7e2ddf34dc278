----------------------------- MODULE MCDiscovery -----------------------------
(***************************************************************************)
(* Discovery with two instances of a service, one of which is followed.    *)
(***************************************************************************)
EXTENDS Discovery

CONSTANTS own, steady

==============================================================================
