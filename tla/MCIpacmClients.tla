--------------------------- MODULE MCIpacmClients ---------------------------
(* IpacmClients with two clients, two IPv4 addresses and one IPv6 address   *)
(* that they share or take from each other, and one failing call of the     *)
(* driver.  The clients and the IPv4 addresses are interchangeable.         *)
EXTENDS IpacmClients, TLC

Symmetry == Permutations(Macs) \cup Permutations(V4)
=============================================================================
