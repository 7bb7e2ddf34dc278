----------------------------- MODULE MCSnowflake -----------------------------
(***************************************************************************)
(* Two generators with neighbouring numbers, and clocks on both sides of   *)
(* the epoch.                                                              *)
(***************************************************************************)
EXTENDS Snowflake

CONSTANTS g1, g2

Neighbours == [g \in Generators |-> IF g = g1 THEN 0 ELSE 1]

==============================================================================
