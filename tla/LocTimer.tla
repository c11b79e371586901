------------------------------ MODULE LocTimer ------------------------------
(***************************************************************************)
(* The timer service of the GPS HAL (gps/utils/LocTimer.cpp): LocTimer     *)
(* objects owned by clients, one LocTimerContainer (a heap of              *)
(* LocTimerDelegate objects and the timerfd armed for the soonest), the    *)
(* MsgTask thread that owns the heap, and the LocTimerPollTask thread that *)
(* waits for the timerfd.                                                  *)
(*                                                                         *)
(* Critical sections under a LocTimer's LocSharedLock are one action each; *)
(* what a thread does between two of them, or between two system calls, is *)
(* a step of its own.  The heap is a set with a distinguished top; that    *)
(* the tree of LocHeap.cpp behaves like one is module LocHeap's subject.   *)
(***************************************************************************)
EXTENDS Integers, Sequences, FiniteSets

CONSTANTS
  Clients,     \* LocTimer objects
  Wrappers,    \* the clients that are LocTimerWrapper objects (the C API)
  Deletable,   \* the clients whose owner may delete them
  Delegates,   \* memory for LocTimerDelegate objects
  Delays,      \* timeouts passed to start()
  MaxTime,     \* bound on the clock
  NULL

ASSUME LocTimerAssumption ==
  /\ Wrappers \subseteq Clients
  /\ Deletable \subseteq Clients
  /\ Delays \subseteq Nat
  /\ MaxTime \in Nat
  /\ NULL \notin Clients \cup Delegates

VARIABLES
  obj,         \* the memory of a LocTimer: "none", "live" or "dead"
  mTimer,      \* LocTimer::mTimer
  mRef,        \* reference count of a client's LocSharedLock, 0 once deleted
  allocated,   \* the delegates that are allocated
  mClient,     \* LocTimerDelegate::mClient
  mLock,       \* LocTimerDelegate::mLock, named by the client it came from
  mContainer,  \* LocTimerDelegate::mContainer is not NULL
  mFutureTime, \* LocTimerDelegate::mFutureTime
  heap, top,   \* LocTimerContainer: the delegates in the heap, and peek()
  msgQ,        \* the MsgTask's queue
  pc,          \* where the MsgTask thread is
  cur,         \* the delegate MsgTimerExpire::proc() is expiring
  client,      \* LocTimerDelegate::expire()'s copy of mClient
  timerOfNow,  \* MsgTimerExpire::proc()'s reading of the clock
  pollPc,      \* where the LocTimerPollTask thread is
  fdTime,      \* expiry programmed in the timerfd, NULL when disarmed
  polled,      \* the timerfd is in the epoll set
  now,         \* CLOCK_BOOTTIME
  crashed      \* a deleted LocTimer has been used

clientVars   == <<obj, mTimer, mRef>>
delegateVars == <<allocated, mClient, mLock, mContainer, mFutureTime>>
heapVars     == <<heap, top>>
taskVars     == <<pc, cur, client, timerOfNow>>
kernelVars   == <<pollPc, fdTime, polled, now>>
vars == <<clientVars, delegateVars, heapVars, msgQ, taskVars, kernelVars, crashed>>

Push(d)    == [op |-> "push", timer |-> d]
Remove(d)  == [op |-> "remove", timer |-> d]
Expire     == [op |-> "expire", timer |-> NULL]
Messages   == {Push(d) : d \in Delegates} \cup {Remove(d) : d \in Delegates} \cup {Expire}

TaskPcs == {"recv", "setTime", "readClient", "callStop", "callback", "popNext"}
PollPcs == {"epoll_wait", "disarm", "removePoll", "sendMsg"}
Times   == Nat

Init ==
  /\ obj = [c \in Clients |-> "none"]
  /\ mTimer = [c \in Clients |-> NULL]
  /\ mRef = [c \in Clients |-> 0]
  /\ allocated = {}
  /\ mClient = [d \in Delegates |-> NULL]
  /\ mLock = [d \in Delegates |-> NULL]
  /\ mContainer = [d \in Delegates |-> FALSE]
  /\ mFutureTime = [d \in Delegates |-> 0]
  /\ heap = {} /\ top = NULL
  /\ msgQ = <<>>
  /\ pc = "recv" /\ cur = NULL /\ client = NULL /\ timerOfNow = 0
  /\ pollPc = "epoll_wait" /\ fdTime = NULL /\ polled = FALSE
  /\ now = 1
  /\ crashed = FALSE

-----------------------------------------------------------------------------
(* LocTimer: what the owner of a timer calls.                              *)

\* LocTimer::LocTimer(): a new object with a lock of its own.
Create(c) ==
  /\ ~crashed
  /\ obj[c] = "none"
  /\ obj' = [obj EXCEPT ![c] = "live"]
  /\ mRef' = [mRef EXCEPT ![c] = 1]
  /\ UNCHANGED <<mTimer, delegateVars, heapVars, msgQ, taskVars, kernelVars, crashed>>

\* Mutant of Start: the delegate uses the client's lock without share().
StartUnshared(c, d, delay) ==
  /\ ~crashed
  /\ obj[c] = "live"
  /\ mTimer[c] = NULL
  /\ d \notin allocated
  /\ now + delay <= MaxTime
  /\ allocated' = allocated \cup {d}
  /\ mClient' = [mClient EXCEPT ![d] = c]
  /\ mLock' = [mLock EXCEPT ![d] = c]
  /\ mContainer' = [mContainer EXCEPT ![d] = TRUE]
  /\ mFutureTime' = [mFutureTime EXCEPT ![d] = now + delay]
  /\ mTimer' = [mTimer EXCEPT ![c] = d]
  /\ msgQ' = Append(msgQ, Push(d))
  /\ UNCHANGED <<obj, mRef, heapVars, taskVars, kernelVars, crashed>>

\* LocTimer::start(): under the lock, a delegate is created that shares the
\* lock and posts itself to the MsgTask.
Start(c, d, delay) ==
  /\ ~crashed
  /\ obj[c] = "live"
  /\ mTimer[c] = NULL
  /\ d \notin allocated
  /\ now + delay <= MaxTime
  /\ allocated' = allocated \cup {d}
  /\ mClient' = [mClient EXCEPT ![d] = c]
  /\ mLock' = [mLock EXCEPT ![d] = c]
  /\ mContainer' = [mContainer EXCEPT ![d] = TRUE]
  /\ mFutureTime' = [mFutureTime EXCEPT ![d] = now + delay]
  /\ mRef' = [mRef EXCEPT ![c] = @ + 1]
  /\ mTimer' = [mTimer EXCEPT ![c] = d]
  /\ msgQ' = Append(msgQ, Push(d))
  /\ UNCHANGED <<obj, heapVars, taskVars, kernelVars, crashed>>

\* LocTimerDelegate::destroyLocked() of c's delegate, then mTimer = NULL.
DestroyLocked(c) ==
  LET d == mTimer[c] IN
  /\ mTimer' = [mTimer EXCEPT ![c] = NULL]
  /\ mClient' = [mClient EXCEPT ![d] = NULL]
  /\ mContainer' = [mContainer EXCEPT ![d] = FALSE]
  /\ msgQ' = Append(msgQ, Remove(d))

\* LocTimer::stop() called by the owner.
Stop(c) ==
  /\ ~crashed
  /\ obj[c] = "live"
  /\ mTimer[c] # NULL
  /\ DestroyLocked(c)
  /\ UNCHANGED <<obj, mRef, allocated, mLock, mFutureTime, heapVars, taskVars,
                 kernelVars, crashed>>

\* LocTimer::~LocTimer(): stop(), then drop the lock; the memory is gone.
Destructor(c) ==
  /\ \/ mTimer[c] # NULL /\ DestroyLocked(c)
     \/ mTimer[c] = NULL /\ UNCHANGED <<mTimer, mClient, mContainer, msgQ>>
  /\ mRef' = [mRef EXCEPT ![c] = @ - 1]
  /\ obj' = [obj EXCEPT ![c] = "dead"]

\* The owner deletes the LocTimer (loc_timer_stop() for a LocTimerWrapper).
Delete(c) ==
  /\ ~crashed
  /\ obj[c] = "live"
  /\ Destructor(c)
  /\ UNCHANGED <<allocated, mLock, mFutureTime, heapVars, taskVars, kernelVars, crashed>>

-----------------------------------------------------------------------------
(* LocTimerContainer: the MsgTask thread.                                  *)

\* What the heap's top may be: a delegate no other one of S outranks.
Soonest(S) ==
  IF S = {} THEN {NULL}
  ELSE {d \in S : \A e \in S : mFutureTime[d] <= mFutureTime[e]}

\* updateSoonestTime(priorTop) after the top became newTop: unless nothing
\* sooner appeared, the fd joins the epoll set and settime comes next.  The
\* branch for an empty heap needs a priorTop other than NULL, which only
\* MsgTimerPush::proc() passes, when the heap is not empty: it is never taken.
UpdateSoonestTime(priorTop, newTop) ==
  LET toSetTime == /\ newTop # priorTop
                   /\ newTop # NULL
                   /\ \/ priorTop = NULL
                      \/ mFutureTime[newTop] < mFutureTime[priorTop]
  IN  /\ polled' = (polled \/ toSetTime)
      /\ pc' = IF toSetTime THEN "setTime" ELSE "recv"

\* MsgTimerPush::proc()
ProcPush ==
  /\ ~crashed
  /\ pc = "recv" /\ msgQ # <<>> /\ Head(msgQ).op = "push"
  /\ LET d == Head(msgQ).timer IN
     /\ heap' = heap \cup {d}
     /\ top' = IF top = NULL \/ mFutureTime[d] < mFutureTime[top] THEN d ELSE top
     /\ UpdateSoonestTime(top, top')
  /\ msgQ' = Tail(msgQ)
  /\ UNCHANGED <<clientVars, delegateVars, cur, client, timerOfNow,
                 pollPc, fdTime, now, crashed>>

\* Mutant of ProcRemove: only the top leaves the heap before the delete.
ProcRemoveTopOnly ==
  /\ ~crashed
  /\ pc = "recv" /\ msgQ # <<>> /\ Head(msgQ).op = "remove"
  /\ LET d == Head(msgQ).timer IN
     /\ IF d = top
          THEN /\ heap' = heap \ {d}
               /\ top' \in Soonest(heap')
               /\ UpdateSoonestTime(NULL, top')
          ELSE UNCHANGED <<heapVars, polled, pc>>
     /\ allocated' = allocated \ {d}
     /\ mRef' = [mRef EXCEPT ![mLock[d]] = @ - 1]
     /\ mLock' = [mLock EXCEPT ![d] = NULL]
     /\ mFutureTime' = [mFutureTime EXCEPT ![d] = 0]
  /\ msgQ' = Tail(msgQ)
  /\ UNCHANGED <<obj, mTimer, mClient, mContainer, cur, client, timerOfNow,
                 pollPc, fdTime, now, crashed>>

\* MsgTimerRemove::proc(): the kernel is told only if the top was removed;
\* the delegate is deleted here, which drops its share of the lock.
ProcRemove ==
  /\ ~crashed
  /\ pc = "recv" /\ msgQ # <<>> /\ Head(msgQ).op = "remove"
  /\ LET d == Head(msgQ).timer IN
     /\ heap' = heap \ {d}
     /\ IF d = top
          THEN /\ top' \in Soonest(heap')
               /\ UpdateSoonestTime(NULL, top')
          ELSE UNCHANGED <<top, polled, pc>>
     /\ allocated' = allocated \ {d}
     /\ mRef' = [mRef EXCEPT ![mLock[d]] = @ - 1]
     /\ mLock' = [mLock EXCEPT ![d] = NULL]
     /\ mFutureTime' = [mFutureTime EXCEPT ![d] = 0]
  /\ msgQ' = Tail(msgQ)
  /\ UNCHANGED <<obj, mTimer, mClient, mContainer, cur, client, timerOfNow,
                 pollPc, fdTime, now, crashed>>

\* LocHeap::pop() of the top, which MsgTimerExpire::proc() then expires.
PopTop ==
  /\ cur' = top
  /\ heap' = heap \ {top}
  /\ top' \in Soonest(heap')
  /\ pc' = "readClient"
  /\ UNCHANGED polled

\* MsgTimerExpire::proc(): the first pop() asks nothing of the top.
ProcExpire ==
  /\ ~crashed
  /\ pc = "recv" /\ msgQ # <<>> /\ Head(msgQ).op = "expire"
  /\ \/ top # NULL /\ PopTop /\ timerOfNow' = now
     \/ top = NULL /\ UNCHANGED <<cur, heap, top, pc, polled, timerOfNow>>
  /\ msgQ' = Tail(msgQ)
  /\ UNCHANGED <<clientVars, delegateVars, client, pollPc, fdTime, now, crashed>>

\* LocTimerDelegate::expire(): mClient is read without the lock.
ReadClient ==
  /\ ~crashed
  /\ pc = "readClient"
  /\ client' = mClient[cur]
  /\ pc' = IF mClient[cur] = NULL THEN "popNext" ELSE "callStop"
  /\ UNCHANGED <<clientVars, delegateVars, heapVars, msgQ, cur, timerOfNow,
                 kernelVars, crashed>>

\* LocTimerDelegate::expire(): client->stop(), whatever delegate the client
\* has by now.  On a deleted client mLock is NULL and the process dies.
CallStop ==
  /\ ~crashed
  /\ pc = "callStop"
  /\ \/ /\ obj[client] = "live" /\ mTimer[client] # NULL
        /\ DestroyLocked(client)
        /\ pc' = "callback"
        /\ UNCHANGED crashed
     \/ /\ obj[client] = "live" /\ mTimer[client] = NULL
        /\ pc' = "popNext"
        /\ UNCHANGED <<mTimer, mClient, mContainer, msgQ, crashed>>
     \/ /\ obj[client] = "dead"
        /\ crashed' = TRUE
        /\ UNCHANGED <<mTimer, mClient, mContainer, msgQ, pc>>
  /\ UNCHANGED <<obj, mRef, allocated, mLock, mFutureTime, heapVars, cur, client,
                 timerOfNow, kernelVars>>

\* timeOutCallback(): a virtual call; a LocTimerWrapper deletes itself in it.
Callback ==
  /\ ~crashed
  /\ pc = "callback"
  /\ \/ /\ obj[client] = "live" /\ client \in Wrappers
        /\ Destructor(client)
        /\ pc' = "popNext"
        /\ UNCHANGED crashed
     \/ /\ obj[client] = "live" /\ client \notin Wrappers
        /\ pc' = "popNext"
        /\ UNCHANGED <<obj, mTimer, mRef, mClient, mContainer, msgQ, crashed>>
     \/ /\ obj[client] = "dead"
        /\ crashed' = TRUE
        /\ UNCHANGED <<obj, mTimer, mRef, mClient, mContainer, msgQ, pc>>
  /\ UNCHANGED <<allocated, mLock, mFutureTime, heapVars, cur, client, timerOfNow,
                 kernelVars>>

\* Mutant of PopNext: updateSoonestTime(top) after the loop.
PopNextSameTop ==
  /\ ~crashed
  /\ pc = "popNext"
  /\ client' = NULL
  /\ IF top # NULL /\ mFutureTime[top] <= timerOfNow
       THEN PopTop /\ UNCHANGED timerOfNow
       ELSE /\ cur' = NULL
            /\ timerOfNow' = 0
            /\ UpdateSoonestTime(top, top)
            /\ UNCHANGED heapVars
  /\ UNCHANGED <<clientVars, delegateVars, msgQ, pollPc, fdTime, now, crashed>>

\* MsgTimerExpire::proc(): popIfOutRanks(timerOfNow), or the end of the loop
\* and updateSoonestTime(NULL).
PopNext ==
  /\ ~crashed
  /\ pc = "popNext"
  /\ client' = NULL
  /\ IF top # NULL /\ mFutureTime[top] <= timerOfNow
       THEN PopTop /\ UNCHANGED timerOfNow
       ELSE /\ cur' = NULL
            /\ timerOfNow' = 0
            /\ UpdateSoonestTime(NULL, top)
            /\ UNCHANGED heapVars
  /\ UNCHANGED <<clientVars, delegateVars, msgQ, pollPc, fdTime, now, crashed>>

\* updateSoonestTime(): timerfd_settime() after the fd joined the epoll set.
SetTime ==
  /\ ~crashed
  /\ pc = "setTime"
  /\ fdTime' = mFutureTime[top]
  /\ pc' = "recv"
  /\ UNCHANGED <<clientVars, delegateVars, heapVars, msgQ, cur, client, timerOfNow,
                 pollPc, polled, now, crashed>>

-----------------------------------------------------------------------------
(* LocTimerPollTask::run() and LocTimerContainer::expire().                *)

PollWait ==
  /\ ~crashed
  /\ pollPc = "epoll_wait"
  /\ polled /\ fdTime # NULL /\ fdTime <= now
  /\ pollPc' = "disarm"
  /\ UNCHANGED <<clientVars, delegateVars, heapVars, msgQ, taskVars, fdTime, polled,
                 now, crashed>>

PollDisarm ==
  /\ ~crashed
  /\ pollPc = "disarm"
  /\ fdTime' = NULL
  /\ pollPc' = "removePoll"
  /\ UNCHANGED <<clientVars, delegateVars, heapVars, msgQ, taskVars, polled, now, crashed>>

PollRemove ==
  /\ ~crashed
  /\ pollPc = "removePoll"
  /\ polled' = FALSE
  /\ pollPc' = "sendMsg"
  /\ UNCHANGED <<clientVars, delegateVars, heapVars, msgQ, taskVars, fdTime, now, crashed>>

\* Mutant of PollSend: the expiration is not posted.
PollSendNothing ==
  /\ ~crashed
  /\ pollPc = "sendMsg"
  /\ pollPc' = "epoll_wait"
  /\ UNCHANGED <<clientVars, delegateVars, heapVars, msgQ, taskVars, fdTime, polled, now,
                 crashed>>

PollSend ==
  /\ ~crashed
  /\ pollPc = "sendMsg"
  /\ msgQ' = Append(msgQ, Expire)
  /\ pollPc' = "epoll_wait"
  /\ UNCHANGED <<clientVars, delegateVars, heapVars, taskVars, fdTime, polled, now, crashed>>

\* The clock.
Tick ==
  /\ ~crashed
  /\ now < MaxTime
  /\ now' = now + 1
  /\ UNCHANGED <<clientVars, delegateVars, heapVars, msgQ, taskVars, pollPc, fdTime,
                 polled, crashed>>

MsgTask  == ProcPush \/ ProcRemove \/ ProcExpire \/ ReadClient \/ CallStop \/ Callback
            \/ PopNext \/ SetTime
PollTask == PollWait \/ PollDisarm \/ PollRemove \/ PollSend
Owner    == \/ \E c \in Clients : Create(c) \/ Stop(c)
            \/ \E c \in Clients, d \in Delegates, delay \in Delays : Start(c, d, delay)
            \/ \E c \in Deletable : Delete(c)

Next == Owner \/ MsgTask \/ PollTask \/ Tick

Spec == Init /\ [][Next]_vars

\* The two threads keep running and time passes; owners promise nothing.
FairSpec == Spec /\ WF_vars(MsgTask) /\ WF_vars(PollTask) /\ WF_vars(Tick)
-----------------------------------------------------------------------------
(* Properties.                                                             *)

TypeOK ==
  /\ obj \in [Clients -> {"none", "live", "dead"}]
  /\ mTimer \in [Clients -> Delegates \cup {NULL}]
  /\ mRef \in [Clients -> Int]
  /\ allocated \subseteq Delegates
  /\ mClient \in [Delegates -> Clients \cup {NULL}]
  /\ mLock \in [Delegates -> Clients \cup {NULL}]
  /\ mContainer \in [Delegates -> BOOLEAN]
  /\ mFutureTime \in [Delegates -> Times]
  /\ heap \subseteq Delegates /\ top \in Delegates \cup {NULL}
  /\ msgQ \in Seq(Messages)
  /\ pc \in TaskPcs /\ pollPc \in PollPcs
  /\ cur \in Delegates \cup {NULL} /\ client \in Clients \cup {NULL}
  /\ timerOfNow \in Times /\ now \in Times
  /\ fdTime \in Times \cup {NULL} /\ polled \in BOOLEAN
  /\ crashed \in BOOLEAN

\* An expiration is on its way to the MsgTask, or being processed there.
ExpirePending == \E i \in DOMAIN msgQ : msgQ[i].op = "expire"
Expiring      == pc \in {"readClient", "callStop", "callback", "popNext"}

\* Delegates are created by client threads and deleted by the MsgTask ("all
\* timers are deleted here, and only here", LocTimer.cpp:344): no timer that a
\* message, the heap, a LocTimer or a running expire() still refers to has been
\* freed, although stop() and expire() may both lead to its deletion.
NoDangling ==
  /\ heap \subseteq allocated
  /\ cur # NULL => cur \in allocated
  /\ \A c \in Clients : mTimer[c] # NULL => mTimer[c] \in allocated
  /\ \A i \in DOMAIN msgQ : msgQ[i].op # "expire" => msgQ[i].timer \in allocated

\* The poll thread disarms and un-polls the fd while the MsgTask re-arms it, with
\* no lock between them: as long as a timer ticks, either the fd is armed for the
\* soonest and polled, or an expiration that will re-arm it is under way.
NoLostWakeup ==
  top # NULL =>
    \/ polled /\ fdTime = mFutureTime[top]
    \/ pc # "recv"
    \/ pollPc # "epoll_wait"
    \/ ExpirePending

\* The LocSharedLock counts the LocTimer and every delegate that shares it, so
\* neither is left with a deleted lock, whichever goes first.
SharedLockCount ==
  \A c \in Clients :
    mRef[c] = (IF obj[c] = "live" THEN 1 ELSE 0)
              + Cardinality({d \in allocated : mLock[d] = c})

\* Every timer that was started is deleted in the end: it expires or is stopped, as
\* long as expire() does not meet a deleted LocTimer.
TimersEnd == \A d \in Delegates : d \in allocated ~> d \notin allocated \/ crashed

=============================================================================
