------------------------------ MODULE MCPacing ------------------------------
(* An instance of Pacing for TLC. *)
EXTENDS Pacing

(* Less and more than a second of 16 nanoseconds, in both directions.      *)
MCDisturbances == {-18, -5, 20}
=============================================================================
