----------------------------- MODULE MCIpaNat ------------------------------
(* IpaNat with rules that all collide in both tables and so are            *)
(* interchangeable: lists of up to four entries with a dead head.          *)
EXTENDS IpaNat, TLC

MCHash == [r \in Rules |-> 1]

RuleSymmetry == Permutations(Rules)
=============================================================================
