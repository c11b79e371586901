----------------------------- MODULE MCIpacmNat -----------------------------
(* IpacmNat with two clients, of which one at a time is known, two peers,  *)
(* one in the subnet of the STA clients, and two addresses of the WAN: a   *)
(* connection of the first client and one of the WAN address itself, in a  *)
(* table of two entries.  The other client has no connections: it only     *)
(* takes the place in the list of those that are known.  The list of those *)
(* asleep is full when what is in it was never initialised.                *)
EXTENDS IpacmNat

CONSTANTS c1, c2, t1, t2, p1, p2

MCConns == {[priv |-> c1, tgt |-> t1, alg |-> FALSE],
            [priv |-> p1, tgt |-> t1, alg |-> FALSE]}

\* The other client does not sleep, and is not woken while it is not known.
MCNext == Next /\ c2 \notin Range(PwrSaveIfs') \cup spared'
MCSpec == Init /\ [][MCNext]_vars
=============================================================================
