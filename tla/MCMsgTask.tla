----------------------------- MODULE MCMsgTask -----------------------------
(* MsgTask with a few messages. No symmetry: the run checks liveness.      *)
EXTENDS MsgTask
=============================================================================
