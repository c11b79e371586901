--------------------------- MODULE LocTimerProofs ---------------------------
(***************************************************************************)
(* NoDangling and NoLostWakeup of LocTimer hold for any clients, delegates,*)
(* delays and clock bound.  The inductive invariant adds what the MsgTask  *)
(* queue guarantees: a delegate's push message precedes its remove message *)
(* and each of them is there at most once.  SharedLockCount needs nothing  *)
(* more than that and the finiteness of what is allocated.                 *)
(***************************************************************************)
EXTENDS LocTimer, FiniteSetTheorems, TLAPS

\* In q, Push(d) is there once and before Remove(d), both for allocated delegates,
\* and Remove(d) once, for a delegate that destroyLocked() has detached.
Ordered(q, live, attached) ==
  /\ \A i \in 1..Len(q) : q[i].op # "expire" => q[i].timer \in live
  /\ \A i \in 1..Len(q) : q[i].op = "remove" => ~attached[q[i].timer]
  /\ \A i, j \in 1..Len(q) : q[i].op # "expire" /\ q[i] = q[j] => i = j
  /\ \A i, j \in 1..Len(q) :
       q[i].op = "push" /\ q[j].op = "remove" /\ q[i].timer = q[j].timer => i < j

\* No push message for d is in q.
NotQueued(q, d) == \A i \in 1..Len(q) : ~(q[i].op = "push" /\ q[i].timer = d)

HasExpire(q) == \E i \in 1..Len(q) : q[i].op = "expire"

QueueInv == Ordered(msgQ, allocated, mContainer)

HeapInv ==
  /\ top = NULL => heap = {}
  /\ top # NULL => top \in heap
  /\ \A d \in heap : d \in allocated /\ NotQueued(msgQ, d)

ClientInv ==
  \A c \in Clients : mTimer[c] # NULL =>
    /\ mTimer[c] \in allocated
    /\ mClient[mTimer[c]] = c
    /\ mContainer[mTimer[c]]

TaskInv ==
  /\ Expiring <=> cur # NULL
  /\ cur # NULL => cur \in allocated /\ cur \notin heap /\ NotQueued(msgQ, cur)
  /\ pc \in {"callStop", "callback"} => client # NULL
  /\ pc = "setTime" => top # NULL
  /\ \A d \in allocated : mLock[d] # NULL

WakeupInv ==
  /\ pc = "setTime" => polled \/ pollPc = "sendMsg" \/ HasExpire(msgQ)
  /\ top # NULL => \/ polled /\ fdTime = mFutureTime[top]
                   \/ pc # "recv"
                   \/ pollPc # "epoll_wait"
                   \/ HasExpire(msgQ)

IndInv == TypeOK /\ QueueInv /\ HeapInv /\ ClientInv /\ TaskInv /\ WakeupInv
-----------------------------------------------------------------------------
(* Sequences.                                                              *)

\* What Append does, index by index.
LEMMA AppendFacts ==
  ASSUME NEW S, NEW q \in Seq(S), NEW m \in S
  PROVE  /\ Append(q, m) \in Seq(S)
         /\ Len(q) \in Nat
         /\ Len(Append(q, m)) = Len(q) + 1
         /\ \A i \in 1..Len(q) : Append(q, m)[i] = q[i]
         /\ Append(q, m)[Len(q) + 1] = m
  OBVIOUS

\* What Tail does, index by index.
LEMMA TailFacts ==
  ASSUME NEW S, NEW q \in Seq(S), q # <<>>
  PROVE  /\ Tail(q) \in Seq(S)
         /\ Len(q) \in Nat \ {0}
         /\ Len(Tail(q)) = Len(q) - 1
         /\ \A i \in 1..Len(Tail(q)) : Tail(q)[i] = q[i + 1]
         /\ Head(q) = q[1]
         /\ Head(q) \in S
  OBVIOUS

\* The three kinds of message.
LEMMA MessageFacts ==
  ASSUME NEW m \in Messages
  PROVE  /\ m.op = "push" => m.timer \in Delegates /\ m = Push(m.timer)
         /\ m.op = "remove" => m.timer \in Delegates /\ m = Remove(m.timer)
         /\ m.op \in {"push", "remove", "expire"}
  BY DEF Messages, Push, Remove, Expire

\* Posting a new delegate's push message.
LEMMA OrderedPush ==
  ASSUME NEW q \in Seq(Messages), NEW live \in SUBSET Delegates,
         NEW attached \in [Delegates -> BOOLEAN], NEW d \in Delegates,
         d \notin live, Ordered(q, live, attached)
  PROVE  /\ Ordered(Append(q, Push(d)), live \cup {d}, [attached EXCEPT ![d] = TRUE])
         /\ Append(q, Push(d)) \in Seq(Messages)
         /\ \A e \in live : NotQueued(q, e) => NotQueued(Append(q, Push(d)), e)
         /\ HasExpire(q) => HasExpire(Append(q, Push(d)))
  <1> DEFINE m == Push(d)  r == Append(q, m)
  <1>1. m \in Messages /\ m.op = "push" /\ m.timer = d
    BY DEF Push, Messages
  <1>2. /\ r \in Seq(Messages) /\ Len(q) \in Nat /\ Len(r) = Len(q) + 1
        /\ \A i \in 1..Len(q) : r[i] = q[i]
        /\ r[Len(q) + 1] = m
    BY <1>1, AppendFacts
  <1> HIDE DEF m, r
  <1>3. \A i \in 1..Len(q) : q[i].op # "expire" => q[i].timer # d
    BY DEF Ordered
  <1>4. \A i \in 1..Len(q) : q[i] \in Messages
    OBVIOUS
  <1>5. Ordered(r, live \cup {d}, [attached EXCEPT ![d] = TRUE])
    <2>1. \A i \in 1..Len(r) : i \in 1..Len(q) \/ i = Len(q) + 1
      BY <1>2
    <2>2. \A i \in 1..Len(r) : r[i].op # "expire" => r[i].timer \in live \cup {d}
      BY <1>1, <1>2, <2>1 DEF Ordered
    <2>3. \A i \in 1..Len(r) :
             r[i].op = "remove" => ~[attached EXCEPT ![d] = TRUE][r[i].timer]
      BY <1>1, <1>2, <1>3, <1>4, <2>1, MessageFacts DEF Ordered
    <2>4. \A i, j \in 1..Len(r) : r[i].op # "expire" /\ r[i] = r[j] => i = j
      BY <1>1, <1>2, <1>3, <2>1 DEF Ordered
    <2>5. \A i, j \in 1..Len(r) :
            r[i].op = "push" /\ r[j].op = "remove" /\ r[i].timer = r[j].timer => i < j
      BY <1>1, <1>2, <1>3, <2>1 DEF Ordered
    <2>6. QED BY <2>2, <2>3, <2>4, <2>5 DEF Ordered
  <1>6. \A e \in live : NotQueued(q, e) => NotQueued(r, e)
    BY <1>1, <1>2 DEF NotQueued
  <1>7. HasExpire(q) => HasExpire(r)
    BY <1>2 DEF HasExpire
  <1>8. QED BY <1>2, <1>5, <1>6, <1>7 DEF m, r

\* Posting the remove message of an attached delegate, which detaches it.
LEMMA OrderedRemove ==
  ASSUME NEW q \in Seq(Messages), NEW live \in SUBSET Delegates,
         NEW attached \in [Delegates -> BOOLEAN], NEW d \in live,
         attached[d], Ordered(q, live, attached)
  PROVE  /\ Ordered(Append(q, Remove(d)), live, [attached EXCEPT ![d] = FALSE])
         /\ Append(q, Remove(d)) \in Seq(Messages)
         /\ \A e \in live : NotQueued(q, e) => NotQueued(Append(q, Remove(d)), e)
         /\ HasExpire(q) => HasExpire(Append(q, Remove(d)))
  <1> DEFINE m == Remove(d)  r == Append(q, m)
  <1>1. m \in Messages /\ m.op = "remove" /\ m.timer = d
    BY DEF Remove, Messages
  <1>2. /\ r \in Seq(Messages) /\ Len(q) \in Nat /\ Len(r) = Len(q) + 1
        /\ \A i \in 1..Len(q) : r[i] = q[i]
        /\ r[Len(q) + 1] = m
    BY <1>1, AppendFacts
  <1> HIDE DEF m, r
  <1>3. \A i \in 1..Len(q) : q[i].op = "remove" => q[i].timer # d
    BY DEF Ordered
  <1>4. \A i \in 1..Len(q) : q[i] \in Messages
    OBVIOUS
  <1>5. Ordered(r, live, [attached EXCEPT ![d] = FALSE])
    <2>1. \A i \in 1..Len(r) : i \in 1..Len(q) \/ i = Len(q) + 1
      BY <1>2
    <2>2. \A i \in 1..Len(r) : r[i].op # "expire" => r[i].timer \in live
      BY <1>1, <1>2, <2>1 DEF Ordered
    <2>3. \A i \in 1..Len(r) :
             r[i].op = "remove" => ~[attached EXCEPT ![d] = FALSE][r[i].timer]
      BY <1>1, <1>2, <1>3, <1>4, <2>1, MessageFacts DEF Ordered
    <2>4. \A i, j \in 1..Len(r) : r[i].op # "expire" /\ r[i] = r[j] => i = j
      BY <1>1, <1>2, <1>3, <2>1 DEF Ordered
    <2>5. \A i, j \in 1..Len(r) :
            r[i].op = "push" /\ r[j].op = "remove" /\ r[i].timer = r[j].timer => i < j
      BY <1>1, <1>2, <1>3, <2>1 DEF Ordered
    <2>6. QED BY <2>2, <2>3, <2>4, <2>5 DEF Ordered
  <1>6. \A e \in live : NotQueued(q, e) => NotQueued(r, e)
    BY <1>1, <1>2 DEF NotQueued
  <1>7. HasExpire(q) => HasExpire(r)
    BY <1>2 DEF HasExpire
  <1>8. QED BY <1>2, <1>5, <1>6, <1>7 DEF m, r

\* Posting an expiration.
LEMMA OrderedExpire ==
  ASSUME NEW q \in Seq(Messages), NEW live \in SUBSET Delegates,
         NEW attached \in [Delegates -> BOOLEAN], Ordered(q, live, attached)
  PROVE  /\ Ordered(Append(q, Expire), live, attached)
         /\ Append(q, Expire) \in Seq(Messages)
         /\ \A e \in live : NotQueued(q, e) => NotQueued(Append(q, Expire), e)
         /\ HasExpire(Append(q, Expire))
  <1> DEFINE m == Expire  r == Append(q, m)
  <1>1. m \in Messages /\ m.op = "expire"
    BY DEF Expire, Messages
  <1>2. /\ r \in Seq(Messages) /\ Len(q) \in Nat /\ Len(r) = Len(q) + 1
        /\ \A i \in 1..Len(q) : r[i] = q[i]
        /\ r[Len(q) + 1] = m
    BY <1>1, AppendFacts
  <1> HIDE DEF m, r
  <1>3. \A i \in 1..Len(r) : i \in 1..Len(q) \/ i = Len(q) + 1
    BY <1>2
  <1>4. Ordered(r, live, attached)
    BY <1>1, <1>2, <1>3 DEF Ordered
  <1>5. \A e \in live : NotQueued(q, e) => NotQueued(r, e)
    BY <1>1, <1>2 DEF NotQueued
  <1>6. HasExpire(r)
    BY <1>1, <1>2 DEF HasExpire
  <1>7. QED BY <1>2, <1>4, <1>5, <1>6 DEF m, r

\* Taking the first message: what is left stays ordered, the push message taken
\* is not there again, and after a remove message the delegate is mentioned no
\* more, so it can be deleted.
LEMMA OrderedTail ==
  ASSUME NEW q \in Seq(Messages), q # <<>>, NEW live \in SUBSET Delegates,
         NEW attached \in [Delegates -> BOOLEAN], Ordered(q, live, attached)
  PROVE  /\ Head(q) \in Messages
         /\ Head(q).op # "expire" => Head(q).timer \in live
         /\ Head(q).op = "remove" => ~attached[Head(q).timer]
         /\ Ordered(Tail(q), live, attached)
         /\ Tail(q) \in Seq(Messages)
         /\ \A e \in live : NotQueued(q, e) => NotQueued(Tail(q), e)
         /\ Head(q).op = "push" => NotQueued(Tail(q), Head(q).timer)
         /\ Head(q).op = "remove" => Ordered(Tail(q), live \ {Head(q).timer}, attached)
         /\ Head(q).op # "expire" /\ HasExpire(q) => HasExpire(Tail(q))
  <1> DEFINE r == Tail(q)
  <1>1. /\ r \in Seq(Messages) /\ Len(q) \in Nat \ {0} /\ Len(r) = Len(q) - 1
        /\ \A i \in 1..Len(r) : r[i] = q[i + 1]
        /\ Head(q) = q[1] /\ Head(q) \in Messages
    BY TailFacts
  <1> HIDE DEF r
  <1>2. \A i \in 1..Len(r) : i + 1 \in 1..Len(q) /\ i + 1 # 1
    BY <1>1
  <1>3. 1 \in 1..Len(q)
    BY <1>1
  <1>4. /\ Head(q).op # "expire" => Head(q).timer \in live
        /\ Head(q).op = "remove" => ~attached[Head(q).timer]
    BY <1>1, <1>3 DEF Ordered
  <1>5. Ordered(r, live, attached)
    <2>1. /\ \A i \in 1..Len(r) : r[i].op # "expire" => r[i].timer \in live
          /\ \A i \in 1..Len(r) : r[i].op = "remove" => ~attached[r[i].timer]
      <3> SUFFICES ASSUME NEW i \in 1..Len(r)
                   PROVE  /\ r[i].op # "expire" => r[i].timer \in live
                          /\ r[i].op = "remove" => ~attached[r[i].timer]
        OBVIOUS
      <3>1. i + 1 \in 1..Len(q) /\ r[i] = q[i + 1]
        BY <1>1, <1>2
      <3>2. /\ q[i + 1].op # "expire" => q[i + 1].timer \in live
            /\ q[i + 1].op = "remove" => ~attached[q[i + 1].timer]
        BY <3>1 DEF Ordered
      <3>3. QED BY <3>1, <3>2
    <2>2. \A i, j \in 1..Len(r) : r[i].op # "expire" /\ r[i] = r[j] => i = j
      <3> SUFFICES ASSUME NEW i \in 1..Len(r), NEW j \in 1..Len(r),
                          r[i].op # "expire", r[i] = r[j]
                   PROVE  i = j
        OBVIOUS
      <3>1. i + 1 = j + 1
        BY <1>1, <1>2 DEF Ordered
      <3>2. QED BY <3>1, <1>1
    <2>3. \A i, j \in 1..Len(r) :
            r[i].op = "push" /\ r[j].op = "remove" /\ r[i].timer = r[j].timer => i < j
      <3> SUFFICES ASSUME NEW i \in 1..Len(r), NEW j \in 1..Len(r), r[i].op = "push",
                          r[j].op = "remove", r[i].timer = r[j].timer
                   PROVE  i < j
        OBVIOUS
      <3>1. i + 1 < j + 1
        BY <1>1, <1>2 DEF Ordered
      <3>2. QED BY <3>1, <1>1
    <2>4. QED BY <2>1, <2>2, <2>3 DEF Ordered
  <1>6. \A e \in live : NotQueued(q, e) => NotQueued(r, e)
    BY <1>1, <1>2 DEF NotQueued
  <1>7. \A i \in 1..Len(r) : r[i] \in Messages
    BY <1>1
  <1>8. Head(q).op = "push" => NotQueued(r, Head(q).timer)
    <2> SUFFICES ASSUME q[1].op = "push", NEW i \in 1..Len(r),
                        r[i].op = "push", r[i].timer = q[1].timer
                 PROVE  FALSE
      BY <1>1 DEF NotQueued
    <2>1. r[i] = q[1]
      BY <1>1, <1>7, MessageFacts
    <2>2. QED BY <2>1, <1>1, <1>2, <1>3 DEF Ordered
  <1>9. Head(q).op = "remove" => Ordered(r, live \ {Head(q).timer}, attached)
    <2> SUFFICES ASSUME q[1].op = "remove" PROVE Ordered(r, live \ {q[1].timer}, attached)
      BY <1>1
    <2>1. ASSUME NEW i \in 1..Len(r), r[i].op # "expire", r[i].timer = q[1].timer
          PROVE  FALSE
      <3>1. CASE r[i].op = "remove"
        <4>1. r[i] = q[1]
          BY <3>1, <2>1, <1>1, <1>7, MessageFacts
        <4>2. QED BY <4>1, <1>1, <1>2, <1>3 DEF Ordered
      <3>2. CASE r[i].op = "push"
        <4>1. i + 1 \in 1..Len(q) /\ 1 \in 1..Len(q) /\ r[i] = q[i + 1] /\ i >= 1
          BY <1>1
        <4>2. q[i + 1].op = "push" /\ q[i + 1].timer = q[1].timer
          BY <2>1, <3>2, <4>1
        <4>3. q[1].op = "remove"
          OBVIOUS
        <4>4. i + 1 < 1
          BY <1>2, <4>1, <4>2, <4>3 DEF Ordered
        <4>5. QED BY <4>1, <4>4
      <3>3. QED BY <2>1, <3>1, <3>2, <1>7, MessageFacts
    <2>2. QED BY <2>1, <1>5 DEF Ordered
  <1>10. Head(q).op # "expire" /\ HasExpire(q) => HasExpire(r)
    <2> SUFFICES ASSUME q[1].op # "expire", NEW i \in 1..Len(q), q[i].op = "expire"
                 PROVE  HasExpire(r)
      BY <1>1 DEF HasExpire
    <2>1. i # 1 /\ i - 1 \in 1..Len(r) /\ r[i - 1] = q[i]
      BY <1>1
    <2>2. QED BY <2>1 DEF HasExpire
  <1>11. QED BY <1>1, <1>4, <1>5, <1>6, <1>8, <1>9, <1>10 DEF r
-----------------------------------------------------------------------------
(* The initial states and the steps.                                       *)

LEMMA InitIndInv == Init => IndInv
  <1> SUFFICES ASSUME Init PROVE IndInv
    OBVIOUS
  <1> USE LocTimerAssumption DEF Init
  <1>1. TypeOK
    <2>1. /\ obj \in [Clients -> {"none", "live", "dead"}]
          /\ mTimer \in [Clients -> Delegates \cup {NULL}]
          /\ mRef \in [Clients -> Int]
      OBVIOUS
    <2>2. /\ mClient \in [Delegates -> Clients \cup {NULL}]
          /\ mLock \in [Delegates -> Clients \cup {NULL}]
          /\ mContainer \in [Delegates -> BOOLEAN]
          /\ mFutureTime \in [Delegates -> Nat]
      OBVIOUS
    <2>3. /\ allocated \subseteq Delegates
          /\ heap \subseteq Delegates /\ top \in Delegates \cup {NULL}
          /\ msgQ \in Seq(Messages)
      OBVIOUS
    <2>4. /\ pc \in TaskPcs /\ pollPc \in PollPcs
          /\ polled \in BOOLEAN /\ crashed \in BOOLEAN
      BY DEF TaskPcs, PollPcs
    <2>5. QED BY <2>1, <2>2, <2>3, <2>4 DEF TypeOK, Times
  <1>2. QueueInv BY DEF QueueInv, Ordered
  <1>3. HeapInv /\ ClientInv /\ TaskInv /\ WakeupInv
    BY DEF HeapInv, ClientInv, TaskInv, WakeupInv, Expiring
  <1>4. QED BY <1>1, <1>2, <1>3 DEF IndInv

\* destroyLocked() keeps the queue ordered: only the delegate of c is detached,
\* and no other client refers to it.
LEMMA DestroyLockedFacts ==
  ASSUME IndInv, NEW c \in Clients, mTimer[c] # NULL, DestroyLocked(c),
         UNCHANGED <<allocated, heap, top>>
  PROVE  /\ msgQ' \in Seq(Messages)
         /\ mTimer' \in [Clients -> Delegates \cup {NULL}]
         /\ mClient' \in [Delegates -> Clients \cup {NULL}]
         /\ mContainer' \in [Delegates -> BOOLEAN]
         /\ QueueInv' /\ HeapInv' /\ ClientInv'
         /\ \A e \in allocated : NotQueued(msgQ, e) => NotQueued(msgQ', e)
         /\ HasExpire(msgQ) => HasExpire(msgQ')
  <1> DEFINE d == mTimer[c]
  <1> USE DEF IndInv, DestroyLocked
  <1>1. d \in allocated /\ d \in Delegates /\ mContainer[d] /\ mClient[d] = c
    BY DEF TypeOK, ClientInv
  <1>2. /\ Ordered(msgQ', allocated', mContainer')
        /\ msgQ' \in Seq(Messages)
        /\ \A e \in allocated : NotQueued(msgQ, e) => NotQueued(msgQ', e)
        /\ HasExpire(msgQ) => HasExpire(msgQ')
    BY <1>1, OrderedRemove DEF TypeOK, QueueInv
  <1>3. /\ mTimer' \in [Clients -> Delegates \cup {NULL}]
        /\ mClient' \in [Delegates -> Clients \cup {NULL}]
        /\ mContainer' \in [Delegates -> BOOLEAN]
    BY <1>1 DEF TypeOK
  <1>4. HeapInv'
    BY <1>2 DEF HeapInv
  <1>5. ClientInv'
    BY <1>1 DEF ClientInv, TypeOK
  <1>6. QED BY <1>2, <1>3, <1>4, <1>5 DEF QueueInv

\* The same for the destructor, which may have no delegate to detach.
LEMMA DestructorFacts ==
  ASSUME IndInv, NEW c \in Clients, Destructor(c), UNCHANGED <<allocated, heap, top>>
  PROVE  /\ msgQ' \in Seq(Messages)
         /\ obj' \in [Clients -> {"none", "live", "dead"}]
         /\ mRef' \in [Clients -> Int]
         /\ mTimer' \in [Clients -> Delegates \cup {NULL}]
         /\ mClient' \in [Delegates -> Clients \cup {NULL}]
         /\ mContainer' \in [Delegates -> BOOLEAN]
         /\ QueueInv' /\ HeapInv' /\ ClientInv'
         /\ \A e \in allocated : NotQueued(msgQ, e) => NotQueued(msgQ', e)
         /\ HasExpire(msgQ) => HasExpire(msgQ')
  <1>1. /\ obj' \in [Clients -> {"none", "live", "dead"}]
        /\ mRef' \in [Clients -> Int]
    BY DEF Destructor, IndInv, TypeOK
  <1>2. CASE mTimer[c] # NULL /\ DestroyLocked(c)
    BY <1>1, <1>2, DestroyLockedFacts
  <1>3. CASE mTimer[c] = NULL /\ UNCHANGED <<mTimer, mClient, mContainer, msgQ>>
    BY <1>1, <1>3 DEF IndInv, TypeOK, QueueInv, HeapInv, ClientInv
  <1>4. QED BY <1>2, <1>3 DEF Destructor

\* The owner's operations.
LEMMA OwnerStep == ASSUME IndInv, Owner PROVE IndInv'
  <1> USE LocTimerAssumption DEF IndInv
  <1>1. ASSUME NEW c \in Clients, Create(c) PROVE IndInv'
    <2> USE <1>1 DEF Create, delegateVars, heapVars, taskVars, kernelVars
    <2>1. TypeOK' BY DEF TypeOK
    <2>2. QueueInv' BY DEF QueueInv
    <2>3. HeapInv' BY DEF HeapInv
    <2>4. ClientInv' BY DEF ClientInv
    <2>5. TaskInv' BY DEF TaskInv, Expiring
    <2>6. WakeupInv' BY DEF WakeupInv
    <2>7. QED BY <2>1, <2>2, <2>3, <2>4, <2>5, <2>6
  <1>2. ASSUME NEW c \in Clients, NEW d \in Delegates, NEW delay \in Delays, Start(c, d, delay)
        PROVE  IndInv'
    <2> USE <1>2 DEF Start, heapVars, taskVars, kernelVars
    <2>1. /\ Ordered(msgQ', allocated', mContainer')
          /\ msgQ' \in Seq(Messages)
          /\ \A e \in allocated : NotQueued(msgQ, e) => NotQueued(msgQ', e)
          /\ HasExpire(msgQ) => HasExpire(msgQ')
      BY OrderedPush DEF TypeOK, QueueInv
    <2>2. now + delay \in Nat
      BY DEF TypeOK, Times
    <2>3. TypeOK' BY <2>1, <2>2 DEF TypeOK, Times
    <2>4. QueueInv' BY <2>1 DEF QueueInv
    <2>5. HeapInv' BY <2>1 DEF HeapInv
    <2>6. ClientInv' BY DEF ClientInv, TypeOK
    <2>7. TaskInv' BY <2>1 DEF TaskInv, Expiring, TypeOK
    <2>8. \A e \in allocated : mFutureTime'[e] = mFutureTime[e]
      BY DEF TypeOK
    <2>9. WakeupInv' BY <2>1, <2>8 DEF WakeupInv, HeapInv
    <2>10. QED BY <2>3, <2>4, <2>5, <2>6, <2>7, <2>9
  <1>3. ASSUME NEW c \in Clients, Stop(c) PROVE IndInv'
    <2> USE <1>3 DEF Stop, heapVars, taskVars, kernelVars
    <2>1. TypeOK' BY DestroyLockedFacts DEF TypeOK
    <2>2. QueueInv' /\ HeapInv' /\ ClientInv' BY DestroyLockedFacts
    <2>3. TaskInv' BY DestroyLockedFacts DEF TaskInv, Expiring
    <2>4. WakeupInv' BY DestroyLockedFacts DEF WakeupInv
    <2>5. QED BY <2>1, <2>2, <2>3, <2>4
  <1>4. ASSUME NEW c \in Clients, Delete(c) PROVE IndInv'
    <2> USE <1>4 DEF Delete, heapVars, taskVars, kernelVars
    <2>1. TypeOK' BY DestructorFacts DEF TypeOK
    <2>2. QueueInv' /\ HeapInv' /\ ClientInv' BY DestructorFacts
    <2>3. TaskInv' BY DestructorFacts DEF TaskInv, Expiring
    <2>4. WakeupInv' BY DestructorFacts DEF WakeupInv
    <2>5. QED BY <2>1, <2>2, <2>3, <2>4
  <1>5. QED BY <1>1, <1>2, <1>3, <1>4 DEF Owner

\* What the top of a set of delegates may be.
LEMMA SoonestFacts ==
  ASSUME NEW S \in SUBSET Delegates, NEW d \in Soonest(S)
  PROVE  /\ d \in Delegates \cup {NULL}
         /\ d = NULL => S = {}
         /\ d # NULL => d \in S
  BY LocTimerAssumption DEF Soonest

\* MsgTimerPush::proc() and MsgTimerRemove::proc().
LEMMA ProcPushStep == ASSUME IndInv, ProcPush PROVE IndInv'
  <1> USE LocTimerAssumption DEF IndInv, ProcPush, clientVars, delegateVars
  <1> DEFINE d == Head(msgQ).timer
  <1>1. /\ d \in allocated /\ d \in Delegates /\ d # NULL
        /\ Ordered(msgQ', allocated', mContainer')
        /\ msgQ' \in Seq(Messages)
        /\ NotQueued(msgQ', d)
        /\ \A e \in allocated : NotQueued(msgQ, e) => NotQueued(msgQ', e)
        /\ HasExpire(msgQ) => HasExpire(msgQ')
    BY OrderedTail DEF TypeOK, QueueInv
  <1>2. /\ heap' = heap \cup {d}
        /\ top' \in {d, top} /\ top' # NULL
        /\ cur = NULL
        /\ polled' \in BOOLEAN
        /\ pc' \in {"setTime", "recv"}
        /\ pc' = "setTime" => polled'
        /\ pc' = "recv" => top' = top /\ polled' = polled
    BY <1>1 DEF UpdateSoonestTime, TaskInv, Expiring, TypeOK
  <1>3. TypeOK' BY <1>1, <1>2 DEF TypeOK, TaskPcs
  <1>4. QueueInv' BY <1>1 DEF QueueInv
  <1>5. HeapInv' BY <1>1, <1>2 DEF HeapInv
  <1>6. ClientInv' BY DEF ClientInv
  <1>7. TaskInv' BY <1>1, <1>2 DEF TaskInv, Expiring
  <1>8. WakeupInv' BY <1>1, <1>2 DEF WakeupInv
  <1>9. QED BY <1>3, <1>4, <1>5, <1>6, <1>7, <1>8

LEMMA ProcRemoveStep == ASSUME IndInv, ProcRemove PROVE IndInv'
  <1> USE LocTimerAssumption DEF IndInv, ProcRemove
  <1> DEFINE d == Head(msgQ).timer
  <1>1. /\ d \in allocated /\ d \in Delegates /\ d # NULL /\ ~mContainer[d]
        /\ Ordered(msgQ', allocated', mContainer')
        /\ msgQ' \in Seq(Messages)
        /\ \A e \in allocated : NotQueued(msgQ, e) => NotQueued(msgQ', e)
        /\ HasExpire(msgQ) => HasExpire(msgQ')
    BY OrderedTail DEF TypeOK, QueueInv
  <1>2. /\ heap' = heap \ {d} /\ allocated' = allocated \ {d}
        /\ cur = NULL
    BY DEF TaskInv, Expiring
  <1>3. /\ top' \in Delegates \cup {NULL}
        /\ top' = NULL => heap' = {}
        /\ top' # NULL => top' \in heap'
        /\ polled' \in BOOLEAN
        /\ pc' \in {"setTime", "recv"}
        /\ pc' = "setTime" => polled' /\ top' # NULL
        /\ pc' = "recv" => top' = NULL \/ (top' = top /\ polled' = polled)
    <2>1. CASE d = top
      <3>1. top' \in Soonest(heap') /\ UpdateSoonestTime(NULL, top')
        BY <2>1
      <3>2. heap' \in SUBSET Delegates
        BY DEF TypeOK
      <3>3. QED BY <3>1, <3>2, SoonestFacts DEF UpdateSoonestTime, TypeOK
    <2>2. CASE d # top
      BY <2>2 DEF HeapInv, TypeOK
    <2>3. QED BY <2>1, <2>2
  <1>4. mRef' \in [Clients -> Int]
    BY <1>1 DEF TypeOK, TaskInv
  <1>5. TypeOK' BY <1>1, <1>2, <1>3, <1>4 DEF TypeOK, TaskPcs, Times
  <1>6. QueueInv' BY <1>1 DEF QueueInv
  <1>7. HeapInv' BY <1>1, <1>2, <1>3 DEF HeapInv
  <1>8. ClientInv' BY <1>1, <1>2 DEF ClientInv
  <1>9. TaskInv' BY <1>1, <1>2, <1>3 DEF TaskInv, Expiring, TypeOK
  <1>10. top' # NULL => mFutureTime'[top'] = mFutureTime[top']
    BY <1>1, <1>3 DEF TypeOK
  <1>11. WakeupInv' BY <1>1, <1>2, <1>3, <1>10 DEF WakeupInv
  <1>12. QED BY <1>5, <1>6, <1>7, <1>8, <1>9, <1>11

\* MsgTimerExpire::proc() and LocTimerDelegate::expire().
LEMMA PopTopFacts ==
  ASSUME IndInv, PopTop, top # NULL
  PROVE  /\ cur' = top /\ cur' \in heap /\ cur' \notin heap'
         /\ heap' \in SUBSET heap /\ heap' \in SUBSET Delegates
         /\ top' \in Delegates \cup {NULL}
         /\ top' = NULL => heap' = {}
         /\ top' # NULL => top' \in heap'
         /\ pc' = "readClient" /\ polled' = polled
  <1>1. heap' = heap \ {top} /\ heap' \in SUBSET Delegates /\ top' \in Soonest(heap')
    BY DEF PopTop, IndInv, TypeOK
  <1>2. QED BY <1>1, SoonestFacts DEF PopTop, IndInv, HeapInv

LEMMA ProcExpireStep == ASSUME IndInv, ProcExpire PROVE IndInv'
  <1> USE LocTimerAssumption DEF IndInv, ProcExpire, clientVars, delegateVars
  <1>1. /\ Ordered(msgQ', allocated', mContainer')
        /\ msgQ' \in Seq(Messages)
        /\ \A e \in allocated : NotQueued(msgQ, e) => NotQueued(msgQ', e)
    BY OrderedTail DEF TypeOK, QueueInv
  <1>2. QueueInv' BY <1>1 DEF QueueInv
  <1>3. ClientInv' BY DEF ClientInv
  <1>4. CASE top # NULL /\ PopTop /\ timerOfNow' = now
    <2> USE <1>4
    <2>1. TypeOK' BY <1>1, PopTopFacts DEF TypeOK, TaskPcs
    <2>2. HeapInv' BY <1>1, PopTopFacts DEF HeapInv
    <2>3. TaskInv' BY <1>1, PopTopFacts DEF TaskInv, Expiring, HeapInv
    <2>4. WakeupInv' BY PopTopFacts DEF WakeupInv
    <2>5. QED BY <1>2, <1>3, <2>1, <2>2, <2>3, <2>4
  <1>5. CASE top = NULL /\ UNCHANGED <<cur, heap, top, pc, polled, timerOfNow>>
    <2> USE <1>5
    <2>1. TypeOK' BY <1>1 DEF TypeOK
    <2>2. HeapInv' BY <1>1 DEF HeapInv
    <2>3. TaskInv' BY <1>1 DEF TaskInv, Expiring
    <2>4. WakeupInv' BY DEF WakeupInv
    <2>5. QED BY <1>2, <1>3, <2>1, <2>2, <2>3, <2>4
  <1>6. QED BY <1>4, <1>5

LEMMA ReadClientStep == ASSUME IndInv, ReadClient PROVE IndInv'
  <1> USE LocTimerAssumption
      DEF IndInv, ReadClient, clientVars, delegateVars, heapVars, kernelVars
  <1>1. cur \in Delegates BY DEF TaskInv, Expiring, TypeOK
  <1>2. TypeOK' BY <1>1 DEF TypeOK, TaskPcs
  <1>3. QueueInv' /\ HeapInv' /\ ClientInv' BY DEF QueueInv, HeapInv, ClientInv
  <1>4. TaskInv' BY DEF TaskInv, Expiring
  <1>5. WakeupInv' BY DEF WakeupInv
  <1>6. QED BY <1>2, <1>3, <1>4, <1>5

LEMMA CallStopStep == ASSUME IndInv, CallStop PROVE IndInv'
  <1> USE LocTimerAssumption DEF IndInv, CallStop, heapVars, kernelVars
  <1>1. client \in Clients BY DEF TaskInv, TypeOK
  <1>2. CASE mTimer[client] # NULL /\ DestroyLocked(client) /\ pc' = "callback" /\ UNCHANGED crashed
    <2> USE <1>1, <1>2
    <2>1. TypeOK' BY DestroyLockedFacts DEF TypeOK, TaskPcs
    <2>2. QueueInv' /\ HeapInv' /\ ClientInv' BY DestroyLockedFacts
    <2>3. TaskInv' BY DestroyLockedFacts DEF TaskInv, Expiring
    <2>4. WakeupInv' BY DEF WakeupInv
    <2>5. QED BY <2>1, <2>2, <2>3, <2>4
  <1>3. CASE /\ pc' \in {pc, "popNext"} /\ crashed' \in {crashed, TRUE}
             /\ UNCHANGED <<mTimer, mClient, mContainer, msgQ>>
    <2> USE <1>3
    <2>1. TypeOK' BY DEF TypeOK, TaskPcs
    <2>2. QueueInv' /\ HeapInv' /\ ClientInv' BY DEF QueueInv, HeapInv, ClientInv
    <2>3. TaskInv' BY DEF TaskInv, Expiring
    <2>4. WakeupInv' BY DEF WakeupInv
    <2>5. QED BY <2>1, <2>2, <2>3, <2>4
  <1>4. QED BY <1>2, <1>3

LEMMA CallbackStep == ASSUME IndInv, Callback PROVE IndInv'
  <1> USE LocTimerAssumption DEF IndInv, Callback, heapVars, kernelVars
  <1>1. client \in Clients BY DEF TaskInv, TypeOK
  <1>2. CASE Destructor(client) /\ pc' = "popNext" /\ UNCHANGED crashed
    <2> USE <1>1, <1>2
    <2>1. TypeOK' BY DestructorFacts DEF TypeOK, TaskPcs
    <2>2. QueueInv' /\ HeapInv' /\ ClientInv' BY DestructorFacts
    <2>3. TaskInv' BY DestructorFacts DEF TaskInv, Expiring
    <2>4. WakeupInv' BY DEF WakeupInv
    <2>5. QED BY <2>1, <2>2, <2>3, <2>4
  <1>3. CASE /\ pc' \in {pc, "popNext"} /\ crashed' \in {crashed, TRUE}
             /\ UNCHANGED <<obj, mTimer, mRef, mClient, mContainer, msgQ>>
    <2> USE <1>3
    <2>1. TypeOK' BY DEF TypeOK, TaskPcs
    <2>2. QueueInv' /\ HeapInv' /\ ClientInv' BY DEF QueueInv, HeapInv, ClientInv
    <2>3. TaskInv' BY DEF TaskInv, Expiring
    <2>4. WakeupInv' BY DEF WakeupInv
    <2>5. QED BY <2>1, <2>2, <2>3, <2>4
  <1>4. QED BY <1>2, <1>3

LEMMA PopNextStep == ASSUME IndInv, PopNext PROVE IndInv'
  <1> USE LocTimerAssumption DEF IndInv, PopNext, clientVars, delegateVars, heapVars
  <1>1. QueueInv' /\ ClientInv' BY DEF QueueInv, ClientInv
  <1>2. CASE top # NULL /\ PopTop /\ UNCHANGED timerOfNow
    <2> USE <1>2
    <2>1. TypeOK' BY PopTopFacts DEF TypeOK, TaskPcs
    <2>2. HeapInv' BY PopTopFacts DEF HeapInv
    <2>3. TaskInv' BY PopTopFacts DEF TaskInv, Expiring, HeapInv
    <2>4. WakeupInv' BY PopTopFacts DEF WakeupInv
    <2>5. QED BY <1>1, <2>1, <2>2, <2>3, <2>4
  <1>3. CASE /\ cur' = NULL /\ timerOfNow' = 0
             /\ UpdateSoonestTime(NULL, top)
             /\ UNCHANGED <<heap, top>>
    <2> USE <1>3
    <2>1. /\ polled' \in BOOLEAN /\ pc' \in {"setTime", "recv"}
          /\ pc' = "setTime" => polled' /\ top # NULL
          /\ pc' = "recv" => top = NULL
      BY DEF UpdateSoonestTime, TypeOK
    <2>2. TypeOK' BY <2>1 DEF TypeOK, TaskPcs, Times
    <2>3. HeapInv' BY DEF HeapInv
    <2>4. TaskInv' BY <2>1 DEF TaskInv, Expiring
    <2>5. WakeupInv' BY <2>1 DEF WakeupInv
    <2>6. QED BY <1>1, <2>2, <2>3, <2>4, <2>5
  <1>4. QED BY <1>2, <1>3

LEMMA SetTimeStep == ASSUME IndInv, SetTime PROVE IndInv'
  <1> USE LocTimerAssumption DEF IndInv, SetTime, clientVars, delegateVars, heapVars
  <1>1. TypeOK' BY DEF TypeOK, TaskPcs, TaskInv
  <1>2. QueueInv' /\ HeapInv' /\ ClientInv' BY DEF QueueInv, HeapInv, ClientInv
  <1>3. TaskInv' BY DEF TaskInv, Expiring
  <1>4. WakeupInv' BY DEF WakeupInv
  <1>5. QED BY <1>1, <1>2, <1>3, <1>4

\* The poll thread and the clock.
LEMMA PollStep == ASSUME IndInv, PollTask \/ Tick PROVE IndInv'
  <1> USE LocTimerAssumption
      DEF IndInv, clientVars, delegateVars, heapVars, taskVars
  <1>1. CASE PollWait \/ PollDisarm \/ PollRemove \/ Tick
    <2> USE <1>1 DEF PollWait, PollDisarm, PollRemove, Tick
    <2>1. now' \in Nat BY DEF TypeOK, Times
    <2>2. TypeOK' BY <2>1 DEF TypeOK, PollPcs, Times
    <2>3. QueueInv' /\ HeapInv' /\ ClientInv' BY DEF QueueInv, HeapInv, ClientInv
    <2>4. TaskInv' BY DEF TaskInv, Expiring
    <2>5. WakeupInv' BY DEF WakeupInv
    <2>6. QED BY <2>2, <2>3, <2>4, <2>5
  <1>2. CASE PollSend
    <2> USE <1>2 DEF PollSend
    <2>1. /\ Ordered(msgQ', allocated', mContainer')
          /\ msgQ' \in Seq(Messages)
          /\ \A e \in allocated : NotQueued(msgQ, e) => NotQueued(msgQ', e)
          /\ HasExpire(msgQ')
      BY OrderedExpire DEF TypeOK, QueueInv
    <2>2. TypeOK' BY <2>1 DEF TypeOK, PollPcs
    <2>3. QueueInv' /\ ClientInv' BY <2>1 DEF QueueInv, ClientInv
    <2>4. HeapInv' BY <2>1 DEF HeapInv
    <2>5. TaskInv' BY <2>1 DEF TaskInv, Expiring
    <2>6. WakeupInv' BY <2>1 DEF WakeupInv
    <2>7. QED BY <2>2, <2>3, <2>4, <2>5, <2>6
  <1>3. QED BY <1>1, <1>2 DEF PollTask

LEMMA StutterStep == ASSUME IndInv, UNCHANGED vars PROVE IndInv'
  <1> USE DEF IndInv, vars, clientVars, delegateVars, heapVars, taskVars, kernelVars
  <1>1. TypeOK' /\ QueueInv' /\ HeapInv' BY DEF TypeOK, QueueInv, HeapInv
  <1>2. ClientInv' /\ TaskInv' /\ WakeupInv' BY DEF ClientInv, TaskInv, Expiring, WakeupInv
  <1>3. QED BY <1>1, <1>2
-----------------------------------------------------------------------------
(* The reference count of a client's lock.                                 *)

\* The delegates that share c's lock, and the reference of c itself.
Sharers(c) == {d \in allocated : mLock[d] = c}
OwnShare(c) == IF obj[c] = "live" THEN 1 ELSE 0

\* SharedLockCount, with what its counting needs.
LockInv ==
  /\ IsFiniteSet(allocated)
  /\ SharedLockCount
  /\ \A d \in allocated : obj[mLock[d]] # "none"

LEMMA SharersFinite ==
  ASSUME LockInv, NEW c
  PROVE  IsFiniteSet(Sharers(c)) /\ Cardinality(Sharers(c)) \in Nat
  <1>1. Sharers(c) \subseteq allocated BY DEF Sharers
  <1>2. IsFiniteSet(Sharers(c)) BY <1>1, FS_Subset DEF LockInv
  <1>3. QED BY <1>2, FS_CardinalityType

LEMMA InitLockInv == Init => LockInv
  <1> SUFFICES ASSUME Init PROVE LockInv
    OBVIOUS
  <1>1. IsFiniteSet(allocated) BY FS_EmptySet DEF Init
  <1>2. ASSUME NEW c \in Clients PROVE {d \in allocated : mLock[d] = c} = {}
    BY DEF Init
  <1>3. Cardinality({}) = 0 BY FS_EmptySet
  <1>4. SharedLockCount BY <1>2, <1>3 DEF Init, SharedLockCount
  <1>5. QED BY <1>1, <1>4 DEF LockInv, Init

\* LocSharedLock::share() by the new delegate of LocTimer::start().
LEMMA StartLock ==
  ASSUME IndInv, LockInv, NEW c \in Clients, NEW d \in Delegates, NEW delay, Start(c, d, delay)
  PROVE  LockInv'
  <1> USE LocTimerAssumption DEF Start, IndInv
  <1>1. /\ allocated' = allocated \cup {d} /\ d \notin allocated
        /\ mLock' = [mLock EXCEPT ![d] = c]
        /\ mRef' = [mRef EXCEPT ![c] = @ + 1] /\ obj' = obj
    OBVIOUS
  <1>2. IsFiniteSet(allocated') BY <1>1, FS_AddElement DEF LockInv
  <1>3. ASSUME NEW b \in Clients
        PROVE  mRef'[b] = OwnShare(b)' + Cardinality(Sharers(b)')
    <2>1. mRef[b] = OwnShare(b) + Cardinality(Sharers(b))
      BY DEF LockInv, SharedLockCount, OwnShare, Sharers
    <2>2. OwnShare(b)' = OwnShare(b) /\ OwnShare(b) \in Nat BY <1>1 DEF OwnShare
    <2>3. IsFiniteSet(Sharers(b)) /\ Cardinality(Sharers(b)) \in Nat BY SharersFinite
    <2>4. CASE b = c
      <3>1. Sharers(b)' = Sharers(b) \cup {d} /\ d \notin Sharers(b)
        BY <1>1, <2>4 DEF Sharers, TypeOK
      <3>2. Cardinality(Sharers(b)') = Cardinality(Sharers(b)) + 1
        BY <3>1, <2>3, FS_AddElement
      <3>3. mRef'[b] = mRef[b] + 1 BY <1>1, <2>4 DEF TypeOK
      <3>4. QED BY <2>1, <2>2, <2>3, <3>2, <3>3
    <2>5. CASE b # c
      <3>1. Sharers(b)' = Sharers(b) BY <1>1, <2>5 DEF Sharers, TypeOK
      <3>2. mRef'[b] = mRef[b] BY <1>1, <2>5 DEF TypeOK
      <3>3. QED BY <2>1, <2>2, <3>1, <3>2
    <2>6. QED BY <2>4, <2>5
  <1>4. SharedLockCount' BY <1>3 DEF SharedLockCount, OwnShare, Sharers
  <1>5. \A e \in allocated' : obj'[mLock'[e]] # "none"
    BY <1>1 DEF LockInv, TypeOK
  <1>6. QED BY <1>2, <1>4, <1>5 DEF LockInv

\* LocSharedLock::drop() by the delegate that MsgTimerRemove::proc() deletes.
LEMMA RemoveLock == ASSUME IndInv, LockInv, ProcRemove PROVE LockInv'
  <1> USE LocTimerAssumption DEF ProcRemove, IndInv
  <1> DEFINE d == Head(msgQ).timer  c == mLock[d]
  <1>1. d \in allocated /\ d \in Delegates
    BY OrderedTail DEF TypeOK, QueueInv
  <1>2. c \in Clients BY <1>1 DEF TaskInv, TypeOK
  <1>3. /\ allocated' = allocated \ {d}
        /\ mLock' = [mLock EXCEPT ![d] = NULL]
        /\ mRef' = [mRef EXCEPT ![c] = @ - 1] /\ obj' = obj
    OBVIOUS
  <1> HIDE DEF d
  <1>4. IsFiniteSet(allocated') BY <1>3, FS_RemoveElement DEF LockInv
  <1>5. ASSUME NEW b \in Clients
        PROVE  mRef'[b] = OwnShare(b)' + Cardinality(Sharers(b)')
    <2>1. mRef[b] = OwnShare(b) + Cardinality(Sharers(b))
      BY DEF LockInv, SharedLockCount, OwnShare, Sharers
    <2>2. OwnShare(b)' = OwnShare(b) /\ OwnShare(b) \in Nat BY <1>3 DEF OwnShare
    <2>3. IsFiniteSet(Sharers(b)) /\ Cardinality(Sharers(b)) \in Nat BY SharersFinite
    <2>4. CASE b = c
      <3>1. Sharers(b)' = Sharers(b) \ {d} /\ d \in Sharers(b)
        BY <1>1, <1>3, <2>4 DEF Sharers, TypeOK
      <3>2. Cardinality(Sharers(b)') = Cardinality(Sharers(b)) - 1
        BY <3>1, <2>3, FS_RemoveElement
      <3>3. mRef'[b] = mRef[b] - 1 BY <1>2, <1>3, <2>4 DEF TypeOK
      <3>4. QED BY <2>1, <2>2, <2>3, <3>2, <3>3
    <2>5. CASE b # c
      <3>1. Sharers(b)' = Sharers(b) BY <1>1, <1>3, <2>5 DEF Sharers, TypeOK
      <3>2. mRef'[b] = mRef[b] BY <1>2, <1>3, <2>5 DEF TypeOK
      <3>3. QED BY <2>1, <2>2, <3>1, <3>2
    <2>6. QED BY <2>4, <2>5
  <1>6. SharedLockCount' BY <1>5 DEF SharedLockCount, OwnShare, Sharers
  <1>7. \A e \in allocated' : obj'[mLock'[e]] # "none"
    BY <1>1, <1>3 DEF LockInv, TypeOK
  <1>8. QED BY <1>4, <1>6, <1>7 DEF LockInv

\* The constructor and the destructor: the client's own reference.
LEMMA OwnLock ==
  ASSUME IndInv, LockInv, NEW c \in Clients, UNCHANGED <<allocated, mLock>>,
         \/ /\ obj[c] = "none" /\ obj' = [obj EXCEPT ![c] = "live"]
            /\ mRef' = [mRef EXCEPT ![c] = 1]
         \/ obj[c] = "live" /\ Destructor(c)
  PROVE  LockInv'
  <1> USE DEF IndInv, Destructor
  <1>1. ASSUME NEW b \in Clients
        PROVE  mRef'[b] = OwnShare(b)' + Cardinality(Sharers(b)')
    <2>1. mRef[b] = OwnShare(b) + Cardinality(Sharers(b)) /\ mRef[b] \in Int
      BY DEF LockInv, SharedLockCount, OwnShare, Sharers, TypeOK
    <2>2. Sharers(b)' = Sharers(b) BY DEF Sharers
    <2>3. Cardinality(Sharers(b)) \in Nat BY SharersFinite
    <2>4. b # c => OwnShare(b)' = OwnShare(b) /\ mRef'[b] = mRef[b]
      BY DEF OwnShare, TypeOK
    <2>5. obj[b] = "none" => Cardinality(Sharers(b)) = 0
      <3>1. obj[b] = "none" => Sharers(b) = {} BY DEF LockInv, Sharers
      <3>2. QED BY <3>1, FS_EmptySet
    <2>6. b = c => mRef'[b] = OwnShare(b)' + Cardinality(Sharers(b))
      BY <2>1, <2>3, <2>5 DEF OwnShare, TypeOK
    <2>7. QED BY <2>1, <2>2, <2>4, <2>6
  <1>2. SharedLockCount' BY <1>1 DEF SharedLockCount, OwnShare, Sharers
  <1>3. \A e \in allocated' : obj'[mLock'[e]] # "none"
    <2>1. \A b \in Clients : obj[b] # "none" => obj'[b] # "none" BY DEF TypeOK
    <2>2. \A e \in allocated : mLock[e] \in Clients BY DEF TypeOK, TaskInv
    <2>3. QED BY <2>1, <2>2 DEF LockInv
  <1>4. QED BY <1>2, <1>3 DEF LockInv

\* Nobody touches the lock elsewhere.
LEMMA SameLock ==
  ASSUME LockInv, UNCHANGED <<obj, mRef, allocated, mLock>> PROVE LockInv'
  BY DEF LockInv, SharedLockCount

\* Every step keeps the count.
LEMMA LockStep == ASSUME IndInv, LockInv, [Next]_vars PROVE LockInv'
  <1> USE DEF IndInv
  <1>1. CASE Owner
    <2>1. ASSUME NEW c \in Clients, Create(c) PROVE LockInv'
      BY <2>1, OwnLock DEF Create, delegateVars
    <2>2. ASSUME NEW c \in Clients, Stop(c) PROVE LockInv'
      BY <2>2, SameLock DEF Stop
    <2>3. ASSUME NEW c \in Clients, Delete(c) PROVE LockInv'
      BY <2>3, OwnLock DEF Delete
    <2>4. QED BY <1>1, <2>1, <2>2, <2>3, StartLock, LocTimerAssumption DEF Owner
  <1>2. CASE Callback
    <2>1. client \in Clients BY <1>2 DEF Callback, TaskInv, TypeOK
    <2>2. CASE obj[client] = "live" /\ Destructor(client)
      BY <1>2, <2>1, <2>2, OwnLock DEF Callback
    <2>3. CASE UNCHANGED <<obj, mRef>>
      BY <1>2, <2>3, SameLock DEF Callback
    <2>4. QED BY <1>2, <2>2, <2>3 DEF Callback
  <1>3. CASE ProcRemove BY <1>3, RemoveLock
  <1>4. CASE \/ ProcPush \/ ProcExpire \/ ReadClient \/ CallStop \/ PopNext \/ SetTime
             \/ PollTask \/ Tick
    BY <1>4, SameLock
    DEF ProcPush, ProcExpire, ReadClient, CallStop, PopNext, SetTime, PollTask, PollWait,
        PollDisarm, PollRemove, PollSend, Tick, clientVars, delegateVars
  <1>5. CASE UNCHANGED vars BY <1>5, SameLock DEF vars, clientVars, delegateVars
  <1>6. QED BY <1>1, <1>2, <1>3, <1>4, <1>5 DEF Next, MsgTask
-----------------------------------------------------------------------------
(* The theorems.                                                           *)

\* Every reachable state of the timer service satisfies the inductive invariant.
THEOREM Inductive == Spec => []IndInv
  <1>1. IndInv /\ [Next]_vars => IndInv'
    BY OwnerStep, ProcPushStep, ProcRemoveStep, ProcExpireStep, ReadClientStep, CallStopStep,
       CallbackStep, PopNextStep, SetTimeStep, PollStep, StutterStep
    DEF Next, MsgTask
  <1>2. QED BY InitIndInv, <1>1, PTL DEF Spec

\* The variables of the timer service keep their types.
THEOREM TypeCorrect == Spec => []TypeOK
  <1>1. IndInv => TypeOK BY DEF IndInv
  <1>2. QED BY Inductive, <1>1, PTL

\* No message, heap node, LocTimer or running expire() refers to a delegate that
\* MsgTimerRemove::proc() has deleted, for any number of timers and clients.
THEOREM NoDanglingHolds == Spec => []NoDangling
  <1>1. IndInv => NoDangling
    <2> SUFFICES ASSUME IndInv PROVE NoDangling
      OBVIOUS
    <2>1. DOMAIN msgQ = 1..Len(msgQ) BY DEF IndInv, TypeOK
    <2>2. QED BY <2>1 DEF NoDangling, IndInv, QueueInv, Ordered, HeapInv, ClientInv, TaskInv
  <1>2. QED BY Inductive, <1>1, PTL

\* As long as a timer is in the heap, the timerfd is armed for the soonest one and
\* polled, or one of the two threads is about to arm it.
THEOREM NoLostWakeupHolds == Spec => []NoLostWakeup
  <1>1. IndInv => NoLostWakeup
    <2> SUFFICES ASSUME IndInv PROVE NoLostWakeup
      OBVIOUS
    <2>1. DOMAIN msgQ = 1..Len(msgQ) BY DEF IndInv, TypeOK
    <2>2. QED BY <2>1 DEF NoLostWakeup, IndInv, WakeupInv, ExpirePending, HasExpire
  <1>2. QED BY Inductive, <1>1, PTL

\* A client's LocSharedLock counts the client and the delegates that share it, for any
\* number of them: the last one to drop it deletes it, and nobody is left with a deleted
\* lock.
THEOREM SharedLockCountHolds == Spec => []SharedLockCount
  <1>1. LockInv => SharedLockCount BY DEF LockInv
  <1>2. QED BY InitLockInv, LockStep, Inductive, <1>1, PTL DEF Spec
=============================================================================
