----------------------------- MODULE MCLocTimer -----------------------------
(* Timers, and apart from them the heap that they are kept in: part says   *)
(* which of the two a behaviour is about.  Two timers, one of them of the  *)
(* C interface; six objects in the heap, two of the same rank, enough for  *)
(* trees of depth three that pops have left unbalanced.  No symmetry: the  *)
(* run checks liveness.                                                    *)
EXTENDS LocTimer, LocHeap

VARIABLE part

MCElements == {"a", "b", "c", "d", "e", "f"}
MCRank == [x \in MCElements |-> CASE x = "a" -> 1 [] x = "b" -> 2 [] x = "c" -> 2
                                  [] x = "d" -> 3 [] x = "e" -> 4 [] x = "f" -> 5]

MCInit == Init /\ HeapInit /\ part \in {"timers", "heap"}

TimersStep == part = "timers" /\ Next /\ UNCHANGED <<treeVars, part>>
HeapStep   == part = "heap" /\ HeapNext /\ UNCHANGED <<vars, part>>

MCNext == TimersStep \/ HeapStep

\* The fairness of FairSpec: the threads run, and time passes.
MCSpec == MCInit /\ [][MCNext]_<<vars, treeVars, part>> /\ WF_vars(MsgTask) /\ WF_vars(PollTask) /\ WF_vars(Tick)
=============================================================================
