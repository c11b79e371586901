------------------------- MODULE MCCamera3Device -------------------------
(* Camera3Device with one or two streams and a few frames.                   *)
EXTENDS Camera3Device
===========================================================================
