------------------------------- MODULE MCJson -------------------------------
(* A small instance of JsonProps.tla. *)
EXTENDS JsonProps

CONSTANTS low_a, up_a, word

MCFold(n) == IF n = up_a THEN low_a ELSE n
MCWidth(n) == IF n = Empty THEN 0 ELSE 1
=============================================================================
