----------------------------- MODULE MCIpacmWan -----------------------------
(* IpacmWan with a connection of the modem, a USB upstream and one tethered *)
(* interface: nine reports are enough for both families of an upstream to  *)
(* come and go, and for another upstream to take its place.                 *)
EXTENDS IpacmWan
=============================================================================
