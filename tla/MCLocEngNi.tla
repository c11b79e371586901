----------------------------- MODULE MCLocEngNi -----------------------------
(* LocEngNi for TLC: all the values are in the configurations.             *)
EXTENDS LocEngNi
=============================================================================
