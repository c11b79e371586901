--------------------------- MODULE MCCameraService ---------------------------
(* Two processes, one of each API, and three cameras: a and b cost too much  *)
(* together, c conflicts with a and only c says so; a has a torch.           *)
EXTENDS CameraService

CONSTANTS p1, p2, a, b, c

MCCost      == [x \in Cams |-> IF x = c THEN 0 ELSE 1]
MCConflicts == [x \in Cams |-> IF x = c THEN {a} ELSE {}]
MCUser      == [p \in Procs |-> IF p = p1 THEN 0 ELSE 10]
=============================================================================
