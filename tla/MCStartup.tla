----------------------------- MODULE MCStartup ------------------------------
(* Instances of Startup for TLC: four addresses to probe, the own one among *)
(* them or not, and hosts of one or two addresses.                          *)
EXTENDS Startup
=============================================================================
