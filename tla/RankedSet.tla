----------------------------- MODULE RankedSet -----------------------------
(***************************************************************************)
(* What LocHeap promises and LocTimer relies on: a set of objects from     *)
(* which one that no other outranks is peeked at or popped, and from which *)
(* any object can be removed.                                              *)
(***************************************************************************)
EXTENDS Integers

CONSTANTS
  Elements, \* the objects (LocRankable)
  Rank,     \* their ranks: a higher number outranks a lower one
  NULL

VARIABLES
  contents, \* the objects in the heap
  returned  \* what the last operation returned

vars == <<contents, returned>>

Init == contents = {} /\ returned = NULL

Best(S) == {e \in S : \A f \in S : Rank[f] <= Rank[e]}

Push(e) ==
  /\ e \notin contents
  /\ contents' = contents \cup {e} /\ returned' = NULL

Peek ==
  /\ returned' \in IF contents = {} THEN {NULL} ELSE Best(contents)
  /\ UNCHANGED contents

Pop ==
  /\ returned' \in IF contents = {} THEN {NULL} ELSE Best(contents)
  /\ contents' = contents \ {returned'}

Remove(e) ==
  /\ returned' = IF e \in contents THEN e ELSE NULL
  /\ contents' = contents \ {e}

Next == Peek \/ Pop \/ \E e \in Elements : Push(e) \/ Remove(e)

Spec == Init /\ [][Next]_vars
=============================================================================
