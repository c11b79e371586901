------------------------------ MODULE LocHeap ------------------------------
(***************************************************************************)
(* The heap of gps/utils/LocHeap.cpp, a binary tree that is ordered only   *)
(* from parent to child.  A tree is Null, or a node with the size of its   *)
(* subtree, two subtrees and the object it holds.  Where the code swaps    *)
(* mData between nodes and unlinks a leaf, the operators build the tree    *)
(* that results.  LocTimer keeps its timers in such a heap.                *)
(***************************************************************************)
EXTENDS Integers

CONSTANTS
  Elements, \* the objects (LocRankable)
  Rank,     \* their ranks: a higher number outranks a lower one
  NoObject

VARIABLES
  mTree,    \* LocHeap::mTree
  returned  \* what the last operation returned

treeVars == <<mTree, returned>>

Null == [mSize |-> 0]
IsNull(t) == t.mSize = 0
Node(n, l, r, d) == [mSize |-> n, mLeft |-> l, mRight |-> r, mData |-> d]
outRanks(d, e) == Rank[d] > Rank[e]

RECURSIVE PushNode(_, _), PopNode(_), RemoveNode(_, _), checkNodes(_), DataOf(_)

\* Mutant of PushNode: the new node goes to the larger subtree.
PushNodeLarger(t, d) ==
  LET hi == IF outRanks(d, t.mData) THEN d ELSE t.mData
      lo == IF outRanks(d, t.mData) THEN t.mData ELSE d
  IN CASE IsNull(t.mLeft) ->
            Node(t.mSize + 1, Node(1, Null, Null, lo), t.mRight, hi)
       [] ~IsNull(t.mLeft) /\ IsNull(t.mRight) ->
            Node(t.mSize + 1, t.mLeft, Node(1, Null, Null, lo), hi)
       [] OTHER ->
            IF t.mLeft.mSize >= t.mRight.mSize
              THEN Node(t.mSize + 1, PushNode(t.mLeft, lo), t.mRight, hi)
              ELSE Node(t.mSize + 1, t.mLeft, PushNode(t.mRight, lo), hi)

\* LocHeapNode::push(): the lower of the two goes on to the smaller subtree.
PushNode(t, d) ==
  LET hi == IF outRanks(d, t.mData) THEN d ELSE t.mData
      lo == IF outRanks(d, t.mData) THEN t.mData ELSE d
  IN CASE IsNull(t.mLeft) ->
            Node(t.mSize + 1, Node(1, Null, Null, lo), t.mRight, hi)
       [] ~IsNull(t.mLeft) /\ IsNull(t.mRight) ->
            Node(t.mSize + 1, t.mLeft, Node(1, Null, Null, lo), hi)
       [] OTHER ->
            IF t.mLeft.mSize <= t.mRight.mSize
              THEN Node(t.mSize + 1, PushNode(t.mLeft, lo), t.mRight, hi)
              ELSE Node(t.mSize + 1, t.mLeft, PushNode(t.mRight, lo), hi)

\* LocHeapNode::pop(): what is left of a tree without its top.
PopNode(t) ==
  IF IsNull(t.mLeft) /\ IsNull(t.mRight) THEN Null
  ELSE IF IsNull(t.mLeft) \/ (~IsNull(t.mRight) /\ ~outRanks(t.mLeft.mData, t.mRight.mData))
    THEN Node(t.mSize - 1, t.mLeft, PopNode(t.mRight), t.mRight.mData)
    ELSE Node(t.mSize - 1, PopNode(t.mLeft), t.mRight, t.mLeft.mData)

\* Mutant of RemoveNode: the search also stops at an object of the same rank.
RemoveNodeTies(t, d) ==
  CASE t.mData = d -> PopNode(t)
    [] t.mData # d /\ ~outRanks(t.mData, d) -> t
    [] OTHER ->
         LET l == IF IsNull(t.mLeft) THEN Null ELSE RemoveNode(t.mLeft, d)
             r == IF IsNull(t.mRight) THEN Null ELSE RemoveNode(t.mRight, d)
         IN IF l # t.mLeft THEN Node(t.mSize - 1, l, t.mRight, t.mData)
            ELSE IF r # t.mRight THEN Node(t.mSize - 1, t.mLeft, r, t.mData)
            ELSE t

\* LocHeapNode::remove(): the tree without d, or the same tree when d is not found.
\* A subtree whose top d outranks is not searched.
RemoveNode(t, d) ==
  CASE t.mData = d -> PopNode(t)
    [] t.mData # d /\ outRanks(d, t.mData) -> t
    [] OTHER ->
         LET l == IF IsNull(t.mLeft) THEN Null ELSE RemoveNode(t.mLeft, d)
             r == IF IsNull(t.mRight) THEN Null ELSE RemoveNode(t.mRight, d)
         IN IF l # t.mLeft THEN Node(t.mSize - 1, l, t.mRight, t.mData)
            ELSE IF r # t.mRight THEN Node(t.mSize - 1, t.mLeft, r, t.mData)
            ELSE t

\* LocHeapNode::checkNodes(), the code's own test of a tree.
checkNodes(t) ==
  /\ \A sub \in {t.mLeft, t.mRight} :
       ~IsNull(sub) => ~outRanks(sub.mData, t.mData) /\ checkNodes(sub)
  /\ t.mSize = t.mLeft.mSize + t.mRight.mSize + 1

\* The objects in a tree.
DataOf(t) == IF IsNull(t) THEN {} ELSE {t.mData} \cup DataOf(t.mLeft) \cup DataOf(t.mRight)
-----------------------------------------------------------------------------
HeapInit == mTree = Null /\ returned = NoObject

\* LocHeap::push(); an object is in the heap once (LocTimer::start() sees to that).
HeapPush(e) ==
  /\ e \notin DataOf(mTree)
  /\ mTree' = IF IsNull(mTree) THEN Node(1, Null, Null, e) ELSE PushNode(mTree, e)
  /\ returned' = NoObject

\* LocHeap::peek()
HeapPeek ==
  /\ returned' = IF IsNull(mTree) THEN NoObject ELSE mTree.mData
  /\ UNCHANGED mTree

\* LocHeap::pop()
HeapPop ==
  /\ returned' = IF IsNull(mTree) THEN NoObject ELSE mTree.mData
  /\ mTree' = IF IsNull(mTree) THEN Null ELSE PopNode(mTree)

\* LocHeap::remove()
HeapRemove(e) ==
  /\ mTree' = IF IsNull(mTree) THEN Null ELSE RemoveNode(mTree, e)
  /\ returned' = IF mTree' # mTree THEN e ELSE NoObject

HeapNext == HeapPeek \/ HeapPop \/ \E e \in Elements : HeapPush(e) \/ HeapRemove(e)

-----------------------------------------------------------------------------
\* checkTree() of the unit tests: every subtree has the right size and its top is
\* not outranked, after any sequence of pushes, pops and removals.
CheckTree == IsNull(mTree) \/ checkNodes(mTree)

\* The heap implements a ranked set: nothing is lost in the swaps, and neither a
\* pop nor a removal that stops early at an outranked subtree takes another object.
Abstract == INSTANCE RankedSet WITH contents <- DataOf(mTree), NULL <- NoObject
ImplementsRankedSet == Abstract!Spec

\* "When a node is pushed to the tree, it is guaranteed that the subtree that is
\* smaller gets to have the new node" (LocHeap.h:57): a push never makes the top's
\* subtrees differ more in size than they did, unless they were equal.
PushBalances ==
  [][mTree'.mSize = mTree.mSize + 1 /\ ~IsNull(mTree) =>
       LET small == IF mTree.mLeft.mSize <= mTree.mRight.mSize THEN "mLeft" ELSE "mRight"
       IN mTree'[small].mSize = mTree[small].mSize + 1]_treeVars

\* The sizes by which pushes and removals choose a subtree are those of the subtrees, and
\* pushes balance the tree (LocHeap.cpp: push, pop, remove keep mSize through swaps).
TreeKept == []CheckTree /\ PushBalances
=============================================================================
