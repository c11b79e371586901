------------------------------ MODULE MsgTask ------------------------------
(***************************************************************************)
(* A message task of the GPS HAL: the thread that MsgTask creates          *)
(* (gps/utils/MsgTask.cpp), the LocThreadDelegate it shares with its owner *)
(* (LocThread.cpp) and the queue between them (msg_q.c over linked_list.c).*)
(*                                                                         *)
(* Any thread sends; the task's thread receives and handles; the owner may *)
(* destroy the task at any time, with the thread joinable or detached.     *)
(* The operations of msg_q are critical sections of list_mutex and so one  *)
(* step each, the wait in msg_q_rcv() excepted.                            *)
(***************************************************************************)
EXTENDS Integers, Sequences

CONSTANTS
  Messages,     \* the messages (LocMsg), each sent at most once
  MayFailCreate \* pthread_create() may fail

ASSUME MsgTaskAssumption == MayFailCreate \in BOOLEAN

VARIABLES
  \* msg_q
  msg_list,   \* oldest first
  unblocked,
  \* LocThreadDelegate
  mRunnable,  \* whether it is not NULL
  mJoinable, mRefCount,
  \* the threads
  owner,      \* where the owner is in MsgTask::destroy() and LocThreadDelegate::stop()
  thread,     \* where the task's thread is in threadMain()
  current,    \* the message in run(): a sequence of at most one
  \* history
  state,      \* what became of each message
  sent, handled,
  freed,      \* objects deleted
  touched     \* objects used after they were deleted

queue    == <<msg_list, unblocked>>
delegate == <<mRunnable, mJoinable, mRefCount>>
pcs      == <<owner, thread>>
history  == <<state, sent, handled, freed, touched>>
vars     == <<queue, delegate, pcs, current, history>>

Objects == {"MsgTask", "LocThreadDelegate"}

\* The MsgTask constructor has allocated the queue; the owner is about to create
\* the thread, joinable or not.
Init ==
  /\ msg_list = <<>> /\ unblocked = FALSE
  /\ mRunnable = TRUE /\ mJoinable \in BOOLEAN /\ mRefCount = 2
  /\ owner = "create" /\ thread = "none" /\ current = <<>>
  /\ state = [m \in Messages |-> "new"] /\ sent = <<>> /\ handled = <<>>
  /\ freed = {} /\ touched = {}

\* An object is used: noted when it has been deleted before.
Use(S) == touched' = touched \cup (S \cap freed)

\* A step that uses the objects in S and frees none.
Uses(S) == Use(S) /\ UNCHANGED freed

-----------------------------------------------------------------------------
(* LocThreadDelegate::create() and destroy()                               *)

\* Mutant of Create: the delegate starts with one reference.
CreateOneRef ==
  /\ owner = "create"
  /\ thread' = "start" /\ owner' = "idle"
  /\ mRefCount' = 1
  /\ UNCHANGED <<queue, mRunnable, mJoinable, current, history>>

\* LocThread::start(): the thread runs, or the delegate is deleted again and the
\* task has no thread.
Create ==
  /\ owner = "create"
  /\ \/ /\ thread' = "start" /\ owner' = "idle"
        /\ UNCHANGED <<mRunnable, mJoinable, mRefCount, freed>>
     \/ /\ MayFailCreate
        /\ thread' = "none" /\ owner' = "orphan"
        /\ mRunnable' = FALSE /\ mJoinable' = FALSE /\ mRefCount' = 0
        /\ freed' = {"LocThreadDelegate"}
  /\ UNCHANGED <<queue, current, state, sent, handled, touched>>

\* destroy(): the last reference deletes the delegate.
Release ==
  /\ mRefCount' = IF mRefCount > 0 THEN mRefCount - 1 ELSE mRefCount
  /\ Use({"LocThreadDelegate"})
  /\ freed' = IF mRefCount = 1 THEN freed \cup {"LocThreadDelegate"} ELSE freed
  /\ UNCHANGED <<mRunnable, mJoinable>>

-----------------------------------------------------------------------------
(* MsgTask::sendMsg(), by any thread that still has the task.              *)

\* msg_q_snd(): a queue that is unblocked refuses, and nobody deletes the message.
Send(m) ==
  /\ state[m] = "new" /\ owner # "create" /\ "MsgTask" \notin freed
  /\ IF unblocked
       THEN /\ state' = [state EXCEPT ![m] = "refused"]
            /\ UNCHANGED <<msg_list, sent>>
       ELSE /\ state' = [state EXCEPT ![m] = "queued"]
            /\ msg_list' = Append(msg_list, m)
            /\ sent' = Append(sent, m)
  /\ UNCHANGED <<unblocked, delegate, pcs, current, handled, freed, touched>>

-----------------------------------------------------------------------------
(* threadMain() and MsgTask::run(), in the task's thread.                  *)

\* runnable = mRunnable: NULL when the owner was faster.
ThreadStarts ==
  /\ thread = "start"
  /\ thread' = IF mRunnable THEN "loop" ELSE "release"
  /\ Uses({"LocThreadDelegate"})
  /\ UNCHANGED <<queue, delegate, owner, current, state, sent, handled>>

\* The loop's isRunning().
ThreadLoops ==
  /\ thread = "loop"
  /\ thread' = IF mRunnable THEN "rcv" ELSE "exit"
  /\ Uses({"LocThreadDelegate"})
  /\ UNCHANGED <<queue, delegate, owner, current, state, sent, handled>>

\* msg_q_rcv(): the queue is empty, wait for data or for the unblocking.
RcvWaits ==
  /\ thread = "rcv" /\ ~unblocked /\ msg_list = <<>>
  /\ thread' = "wait"
  /\ Uses({"MsgTask"})
  /\ UNCHANGED <<queue, delegate, owner, current, state, sent, handled>>

\* Mutants of RcvTakes: msg_q_snd() does not wake the waiter; linked_list_remove() takes from the end that was added to.
RcvTakesAtEntry ==
  /\ thread = "rcv" /\ ~unblocked
  /\ msg_list # <<>>
  /\ thread' = "proc"
  /\ current' = <<Head(msg_list)>>
  /\ msg_list' = Tail(msg_list)
  /\ Uses({"MsgTask"})
  /\ UNCHANGED <<unblocked, delegate, owner, state, sent, handled>>
RcvTakesNewest ==
  /\ (thread = "rcv" /\ ~unblocked) \/ thread = "wait"
  /\ msg_list # <<>>
  /\ thread' = "proc"
  /\ current' = <<msg_list[Len(msg_list)]>>
  /\ msg_list' = SubSeq(msg_list, 1, Len(msg_list) - 1)
  /\ Uses({"MsgTask"})
  /\ UNCHANGED <<unblocked, delegate, owner, state, sent, handled>>

\* msg_q_rcv(): the oldest message, also for a waiter of a queue that has been
\* unblocked since.
RcvTakes ==
  /\ (thread = "rcv" /\ ~unblocked) \/ thread = "wait"
  /\ msg_list # <<>>
  /\ thread' = "proc"
  /\ current' = <<Head(msg_list)>>
  /\ msg_list' = Tail(msg_list)
  /\ Uses({"MsgTask"})
  /\ UNCHANGED <<unblocked, delegate, owner, state, sent, handled>>

\* msg_q_rcv() fails and run() returns false: the queue is unblocked, at the entry
\* or in the wait.
RcvFails ==
  /\ unblocked
  /\ thread = "rcv" \/ (thread = "wait" /\ msg_list = <<>>)
  /\ thread' = "exit"
  /\ Uses({"MsgTask"})
  /\ UNCHANGED <<queue, delegate, owner, current, state, sent, handled>>

\* proc() and delete.
Proc ==
  /\ thread = "proc"
  /\ thread' = "loop"
  /\ handled' = Append(handled, current[1])
  /\ state' = [state EXCEPT ![current[1]] = IF @ = "queued" THEN "deleted" ELSE "deletedTwice"]
  /\ current' = <<>>
  /\ Uses({"MsgTask"})
  /\ UNCHANGED <<queue, delegate, owner, sent>>

\* ~MsgTask(): msg_q_flush() deletes what is in the queue, and the task is gone.
DeleteTask ==
  /\ Use({"MsgTask"})
  /\ freed' = freed \cup {"MsgTask"}
  /\ state' = [m \in Messages |->
                 IF \E i \in DOMAIN msg_list : msg_list[i] = m
                   THEN IF state[m] = "queued" THEN "deleted" ELSE "deletedTwice"
                   ELSE state[m]]
  /\ msg_list' = <<>>

\* mRunnable = NULL
ThreadExits ==
  /\ thread = "exit"
  /\ mRunnable' = FALSE
  /\ thread' = "delete"
  /\ Uses({"LocThreadDelegate"})
  /\ UNCHANGED <<queue, mJoinable, mRefCount, owner, current, state, sent, handled>>

\* delete runnable
ThreadDeletes ==
  /\ thread = "delete"
  /\ DeleteTask
  /\ thread' = "release"
  /\ UNCHANGED <<unblocked, delegate, owner, current, sent, handled>>

ThreadReleases ==
  /\ thread = "release"
  /\ Release
  /\ thread' = "done"
  /\ UNCHANGED <<queue, owner, current, state, sent, handled>>

-----------------------------------------------------------------------------
(* MsgTask::destroy(), by the owner.                                       *)

\* msg_q_unblock(), with mThread saved before.
DestroyUnblocks ==
  /\ owner = "idle"
  /\ unblocked' = TRUE
  /\ owner' = "forget"
  /\ Uses({"MsgTask"})
  /\ UNCHANGED <<msg_list, delegate, thread, current, state, sent, handled>>

\* mThread = NULL
DestroyForgets ==
  /\ owner = "forget"
  /\ owner' = "bye"
  /\ Uses({"MsgTask"})
  /\ UNCHANGED <<queue, delegate, thread, current, state, sent, handled>>

\* delete thread: bye(), and stop()'s mRunnable = NULL for a joinable thread.
DestroyStops ==
  /\ owner = "bye"
  /\ IF mJoinable
       THEN mRunnable' = FALSE /\ owner' = "join"
       ELSE owner' = "release" /\ UNCHANGED mRunnable
  /\ Uses({"LocThreadDelegate"})
  /\ UNCHANGED <<queue, mJoinable, mRefCount, thread, current, state, sent, handled>>

\* mJoinable = false and pthread_join()
DestroyJoins ==
  /\ owner = "join" /\ thread = "done"
  /\ mJoinable' = FALSE
  /\ owner' = "release"
  /\ Uses({"LocThreadDelegate"})
  /\ UNCHANGED <<queue, mRunnable, mRefCount, thread, current, state, sent, handled>>

DestroyReleases ==
  /\ owner = "release"
  /\ Release
  /\ owner' = "done"
  /\ UNCHANGED <<queue, thread, current, state, sent, handled>>

\* destroy() of a task without a thread: msg_q_unblock() and delete this.
DestroyOrphan ==
  /\ owner = "orphan"
  /\ unblocked' = TRUE
  /\ DeleteTask
  /\ owner' = "done"
  /\ UNCHANGED <<delegate, thread, current, sent, handled>>
-----------------------------------------------------------------------------
Thread  == \/ ThreadStarts \/ ThreadLoops \/ RcvWaits \/ RcvTakes \/ RcvFails \/ Proc
           \/ ThreadExits \/ ThreadDeletes \/ ThreadReleases
Destroy == \/ DestroyForgets \/ DestroyStops \/ DestroyJoins \/ DestroyReleases

Next == \/ Create \/ Thread \/ Destroy \/ DestroyUnblocks \/ DestroyOrphan
        \/ \E m \in Messages : Send(m)

Spec == Init /\ [][Next]_vars

\* The task's thread runs, and an owner that has begun to destroy goes on.
FairSpec == Spec /\ WF_vars(Thread) /\ WF_vars(Destroy)
-----------------------------------------------------------------------------
(* Properties.                                                             *)

TypeOK ==
  /\ msg_list \in Seq(Messages) /\ unblocked \in BOOLEAN
  /\ mRunnable \in BOOLEAN /\ mJoinable \in BOOLEAN /\ mRefCount \in 0..2
  /\ owner \in {"create", "idle", "forget", "bye", "join", "release", "orphan", "done"}
  /\ thread \in {"none", "start", "loop", "rcv", "wait", "proc", "exit", "delete", "release", "done"}
  /\ current \in Seq(Messages)
  /\ state \in [Messages -> {"new", "queued", "refused", "deleted", "deletedTwice"}]
  /\ sent \in Seq(Messages) /\ handled \in Seq(Messages)
  /\ freed \subseteq Objects /\ touched \subseteq Objects

\* "msg_obj is the oldest message received" (msg_q.h): what is handled, what is in
\* hand and what is in the queue are, in this order, what was sent, until a
\* destroyed task drops the rest.
Fifo ==
  IF "MsgTask" \in freed
    THEN \E n \in 0..Len(sent) : handled = SubSeq(sent, 1, n)
    ELSE sent = handled \o current \o msg_list

\* Every message that was accepted has one owner and is deleted once, by the thread
\* that handled it or by the flush.
DeletedOnce ==
  \A m \in Messages :
    /\ state[m] # "deletedTwice"
    /\ "MsgTask" \in freed => state[m] # "queued"

\* "we delete this obj when mRefCount becomes 0" (LocThread.cpp:149): the delegate
\* outlives both threads, joinable or detached, whoever ends first.
DelegateOutlivesThreads ==
  /\ "LocThreadDelegate" \notin touched
  /\ owner = "done" /\ thread \in {"none", "done"} => "LocThreadDelegate" \in freed

\* A thread that finds mRunnable NULL at its start never enters run(), and nobody
\* deletes its task: the owner's stop() was faster.
NeverRan == thread \in {"release", "done"} /\ "MsgTask" \notin freed

\* No wakeup is lost, and nothing is left in a queue: an accepted message is handled, or,
\* once msg_q_unblock() was called, deleted at the latest with the queue. Only a task
\* whose thread was not created or never ran keeps its messages.
EveryMessageHandled ==
  \A m \in Messages :
    state[m] = "queued" ~> state[m] = "deleted" \/ owner = "orphan" \/ NeverRan

\* No waiter is left behind: once the queue is unblocked the thread ends, and the delegate is deleted.
DestroyEnds == unblocked ~> "LocThreadDelegate" \in freed

\* The messages of a task: handled in the order of msg_q_snd(), and each deleted once, by
\* the thread or by msg_q_flush().
MessagesOnce == Fifo /\ DeletedOnce

\* A task ends: every accepted message is handled or, in a task that is being destroyed,
\* dropped with the queue at the latest (which of the two is open once msg_q_unblock()
\* was called), unless the thread never ran. After destroy() both threads let the delegate go.
TaskEnds == EveryMessageHandled /\ DestroyEnds
=============================================================================
