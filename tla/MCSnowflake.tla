----------------------------- MODULE MCSnowflake -----------------------------
(* Snowflake for TLC. *)
EXTENDS Snowflake, TLC
=============================================================================
