----------------------------- MODULE MCAgps -----------------------------
(* Agps for TLC. No symmetry: the run checks liveness.               *)
EXTENDS Agps
=============================================================================
