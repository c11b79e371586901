---------------------------- MODULE MCIpacmEvents ----------------------------
(* IpacmEvents with a USB interface, an access point and a modem           *)
(* interface, and every sequence of a few reports about them.              *)
EXTENDS IpacmEvents
=============================================================================
