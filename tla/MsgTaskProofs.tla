--------------------------- MODULE MsgTaskProofs ---------------------------
(***************************************************************************)
(* The reference count of LocThreadDelegate, for any set of messages: it   *)
(* is the number of threads that still have the delegate, so that neither  *)
(* uses it after the other has deleted it, and the last one deletes it.    *)
(* And the messages: what msg_q_snd() accepted is, in its order, what was   *)
(* handled, what is in hand and what is queued, and each message is deleted *)
(* once.                                                                   *)
(***************************************************************************)
EXTENDS MsgTask, SequenceTheorems, TLAPS

\* The owner, or the task's thread, still has the delegate.
OwnerHolds  == owner \in {"create", "idle", "forget", "bye", "join", "release"}
ThreadHolds == thread \notin {"none", "done"}

\* A task without a thread is about to get one, or never will.
ThreadInv ==
  /\ owner = "create" => thread = "none"
  /\ owner \in {"idle", "forget", "bye", "join", "release"} => thread # "none"
  /\ owner = "orphan" => thread = "none"
  /\ thread = "proc" => current # <<>>

\* The count is that of the holders; the constructor sets it to 2 before there is a
\* thread.
RefInv ==
  /\ mRefCount = IF owner = "create" THEN 2
                 ELSE (IF OwnerHolds THEN 1 ELSE 0) + (IF ThreadHolds THEN 1 ELSE 0)
  /\ "LocThreadDelegate" \in freed <=> mRefCount = 0
  /\ "LocThreadDelegate" \notin touched

IndInv == TypeOK /\ ThreadInv /\ RefInv
-----------------------------------------------------------------------------
LEMMA InitIndInv == Init => IndInv
  <1> SUFFICES ASSUME Init PROVE IndInv
    OBVIOUS
  <1>1. TypeOK
    <2>1. state \in [Messages -> {"new", "queued", "refused", "deleted", "deletedTwice"}]
      BY DEF Init
    <2>2. mRunnable \in BOOLEAN /\ mJoinable \in BOOLEAN /\ mRefCount \in 0..2
      BY DEF Init
    <2>3. unblocked \in BOOLEAN /\ freed \subseteq Objects /\ touched \subseteq Objects
      BY DEF Init, Objects
    <2>4. QED BY <2>1, <2>2, <2>3 DEF Init, TypeOK
  <1>2. ThreadInv BY DEF Init, ThreadInv
  <1>3. RefInv BY DEF Init, RefInv, OwnerHolds
  <1>4. QED BY <1>1, <1>2, <1>3 DEF IndInv

\* Creating the thread.
LEMMA CreateStep == ASSUME IndInv, Create PROVE IndInv'
  <1> USE DEF IndInv, Create, queue
  <1>1. TypeOK'
    <2>1. mRunnable' \in BOOLEAN BY DEF TypeOK
    <2>2. mJoinable' \in BOOLEAN BY DEF TypeOK
    <2>3. mRefCount' \in 0..2 BY DEF TypeOK
    <2>4. freed' \subseteq Objects BY DEF TypeOK, Objects
    <2>5. QED BY <2>1, <2>2, <2>3, <2>4 DEF TypeOK
  <1>2. ThreadInv' BY DEF ThreadInv, TypeOK
  <1>3. RefInv' BY DEF RefInv, OwnerHolds, ThreadHolds, ThreadInv
  <1>4. QED BY <1>1, <1>2, <1>3

LEMMA SendStep == ASSUME IndInv, NEW m \in Messages, Send(m) PROVE IndInv'
  <1> USE DEF IndInv, Send, delegate, pcs
  <1>1. TypeOK'
    <2>0. /\ msg_list' = msg_list \/ msg_list' = Append(msg_list, m)
          /\ sent' = sent \/ sent' = Append(sent, m)
      BY Zenon
    <2>5. msg_list \in Seq(Messages) /\ sent \in Seq(Messages) BY DEF TypeOK
    <2>1. msg_list' \in Seq(Messages) BY ONLY <2>0, <2>5, m \in Messages
    <2>2. sent' \in Seq(Messages) BY ONLY <2>0, <2>5, m \in Messages
    <2>3. state' \in [Messages -> {"new", "queued", "refused", "deleted", "deletedTwice"}]
      BY DEF TypeOK
    <2>4. QED BY <2>1, <2>2, <2>3 DEF TypeOK
  <1>2. ThreadInv' BY DEF ThreadInv
  <1>3. RefInv' BY DEF RefInv, OwnerHolds, ThreadHolds
  <1>4. QED BY <1>1, <1>2, <1>3

\* The thread, as long as it has the delegate.
LEMMA ThreadStep ==
  ASSUME IndInv,
         \/ ThreadStarts \/ ThreadLoops \/ RcvWaits \/ RcvTakes \/ RcvFails \/ Proc \/ ThreadExits
  PROVE  IndInv'
  <1> USE DEF IndInv, queue, delegate, Uses, Use
  <1>1. /\ owner' = owner /\ mRefCount' = mRefCount /\ mJoinable' = mJoinable
        /\ freed' = freed
        /\ thread \notin {"none", "done"} /\ thread' \notin {"none", "done"}
        /\ thread' \in {"loop", "rcv", "wait", "proc", "exit", "delete", "release"}
        /\ mRunnable' \in BOOLEAN
        /\ sent' = sent /\ unblocked' = unblocked
    BY DEF ThreadStarts, ThreadLoops, RcvWaits, RcvTakes, RcvFails, Proc, ThreadExits, TypeOK
  <1>2. \/ touched' = touched \cup ({"LocThreadDelegate"} \cap freed)
        \/ touched' = touched \cup ({"MsgTask"} \cap freed)
    BY DEF ThreadStarts, ThreadLoops, RcvWaits, RcvTakes, RcvFails, Proc, ThreadExits
  <1>3. /\ thread' = "proc" => current' # <<>>
        /\ msg_list' \in Seq(Messages) /\ current' \in Seq(Messages)
        /\ handled' \in Seq(Messages)
        /\ state' \in [Messages -> {"new", "queued", "refused", "deleted", "deletedTwice"}]
    <2>1. CASE RcvTakes
      BY <2>1 DEF RcvTakes, TypeOK
    <2>2. CASE Proc
      <3>1. current[1] \in Messages BY <2>2 DEF Proc, ThreadInv, TypeOK
      <3>2. QED BY <2>2, <3>1 DEF Proc, TypeOK
    <2>3. CASE ThreadStarts \/ ThreadLoops \/ RcvWaits \/ RcvFails \/ ThreadExits
      BY <2>3 DEF ThreadStarts, ThreadLoops, RcvWaits, RcvFails, ThreadExits, TypeOK
    <2>4. QED BY <2>1, <2>2, <2>3
  <1>4. TypeOK' BY <1>1, <1>2, <1>3 DEF TypeOK
  <1>5. ThreadInv' BY <1>1, <1>3 DEF ThreadInv
  <1>6. mRefCount # 0
    BY <1>1 DEF RefInv, OwnerHolds, ThreadHolds, ThreadInv
  <1>7. RefInv' BY <1>1, <1>2, <1>6 DEF RefInv, OwnerHolds, ThreadHolds
  <1>8. QED BY <1>4, <1>5, <1>7

\* delete runnable, by the thread or by the owner of a task without one.
LEMMA DeleteTaskStep ==
  ASSUME IndInv, ThreadDeletes \/ DestroyOrphan
  PROVE  IndInv'
  <1> USE DEF IndInv, delegate, Use, DeleteTask, ThreadDeletes, DestroyOrphan
  <1>1. TypeOK'
    <2>0. msg_list' = <<>> BY Zenon
    <2>1. msg_list' \in Seq(Messages) BY ONLY <2>0
    <2>6. unblocked' \in BOOLEAN BY Zenon DEF TypeOK
    <2>2. freed' \subseteq Objects BY DEF TypeOK, Objects
    <2>3. touched' \subseteq Objects BY DEF TypeOK
    <2>4. state' \in [Messages -> {"new", "queued", "refused", "deleted", "deletedTwice"}]
      BY DEF TypeOK
    <2>5. QED BY <2>1, <2>2, <2>3, <2>4, <2>6 DEF TypeOK
  <1>2. ThreadInv' BY DEF ThreadInv
  <1>3. RefInv' BY DEF RefInv, OwnerHolds, ThreadHolds, ThreadInv
  <1>4. QED BY <1>1, <1>2, <1>3

\* The two calls of destroy().
LEMMA ReleaseStep ==
  ASSUME IndInv, ThreadReleases \/ DestroyReleases
  PROVE  IndInv'
  <1> USE DEF IndInv, queue, Use, Release, ThreadReleases, DestroyReleases
  <1>1. mRefCount \in {1, 2}
    BY DEF RefInv, OwnerHolds, ThreadHolds, ThreadInv
  <1>2. TypeOK'
    <2>1. mRefCount' \in 0..2 BY <1>1
    <2>2. freed' \subseteq Objects BY DEF TypeOK, Objects
    <2>3. touched' \subseteq Objects BY DEF TypeOK
    <2>4. QED BY <2>1, <2>2, <2>3 DEF TypeOK
  <1>3. ThreadInv' BY DEF ThreadInv
  <1>4. RefInv' BY <1>1 DEF RefInv, OwnerHolds, ThreadHolds, ThreadInv
  <1>5. QED BY <1>2, <1>3, <1>4

\* The owner in MsgTask::destroy() and stop().
LEMMA DestroyStep ==
  ASSUME IndInv, DestroyUnblocks \/ DestroyForgets \/ DestroyStops \/ DestroyJoins
  PROVE  IndInv'
  <1> USE DEF IndInv, queue, delegate, Uses, Use, DestroyUnblocks, DestroyForgets, DestroyStops,
              DestroyJoins
  <1>1. TypeOK' BY DEF TypeOK, Objects
  <1>2. ThreadInv' BY DEF ThreadInv
  <1>3. RefInv' BY DEF RefInv, OwnerHolds, ThreadHolds, ThreadInv
  <1>4. QED BY <1>1, <1>2, <1>3
-----------------------------------------------------------------------------
\* Every reachable state satisfies the invariant.
THEOREM Inductive == Spec => []IndInv
  <1>1. ASSUME IndInv, [Next]_vars PROVE IndInv'
    <2>1. CASE Create BY <1>1, <2>1, CreateStep
    <2>2. CASE Thread
      BY <1>1, <2>2, ThreadStep, DeleteTaskStep, ReleaseStep DEF Thread
    <2>3. CASE Destroy \/ DestroyUnblocks \/ DestroyOrphan
      BY <1>1, <2>3, DestroyStep, DeleteTaskStep, ReleaseStep DEF Destroy
    <2>4. CASE \E m \in Messages : Send(m) BY <1>1, <2>4, SendStep
    <2>5. CASE UNCHANGED vars
      BY <1>1, <2>5 DEF vars, queue, delegate, pcs, history, IndInv, TypeOK, ThreadInv, RefInv,
                        OwnerHolds, ThreadHolds
    <2>6. QED BY <1>1, <2>1, <2>2, <2>3, <2>4, <2>5 DEF Next
  <1>2. QED BY InitIndInv, <1>1, PTL DEF Spec

\* The message task keeps its types; in particular mRefCount stays within 0..2.
THEOREM TypeCorrect == Spec => []TypeOK
  <1>1. IndInv => TypeOK BY DEF IndInv
  <1>2. QED BY Inductive, <1>1, PTL

\* LocThreadDelegate::destroy() deletes the delegate when, and only when, neither
\* the owner nor the thread will use it again, joinable or detached.
THEOREM DelegateOutlivesThreadsHolds == Spec => []DelegateOutlivesThreads
  <1>1. IndInv => DelegateOutlivesThreads
    BY DEF IndInv, RefInv, ThreadInv, OwnerHolds, ThreadHolds, DelegateOutlivesThreads
  <1>2. QED BY Inductive, <1>1, PTL
-----------------------------------------------------------------------------
(* The messages.                                                           *)

\* A message is in hand exactly while the thread is in proc(); the task is deleted by
\* its thread on the way out, or by the owner when it has no thread.
PhaseInv ==
  /\ thread = "proc" => Len(current) = 1
  /\ thread # "proc" => current = <<>>
  /\ "MsgTask" \in freed => \/ thread \in {"release", "done"}
                            \/ thread = "none" /\ owner = "done"

\* Where each message that was sent is, by its place in the order of sending.
OrderInv ==
  /\ Len(handled) <= Len(sent)
  /\ \A i \in 1..Len(handled) : handled[i] = sent[i]
  /\ "MsgTask" \notin freed =>
       /\ Len(sent) = Len(handled) + Len(current) + Len(msg_list)
       /\ current # <<>> => current[1] = sent[Len(handled) + 1]
       /\ \A i \in 1..Len(msg_list) : msg_list[i] = sent[Len(handled) + Len(current) + i]

\* A message is sent once; it is deleted when it has been handled or flushed.
StateInv ==
  /\ \A i, j \in 1..Len(sent) : sent[i] = sent[j] => i = j
  /\ \A i \in 1..Len(sent) :
       state[sent[i]] = IF i <= Len(handled) \/ "MsgTask" \in freed THEN "deleted" ELSE "queued"
  /\ \A m \in Messages : state[m] \in {"new", "refused"} \/ \E i \in 1..Len(sent) : sent[i] = m

MsgInv == PhaseInv /\ OrderInv /\ StateInv

LEMMA InitMsgInv == Init => MsgInv
  BY DEF Init, MsgInv, PhaseInv, OrderInv, StateInv

\* msg_q_snd()
LEMMA SendMsgInv == ASSUME IndInv, MsgInv, NEW m \in Messages, Send(m) PROVE MsgInv'
  <1> USE DEF IndInv, MsgInv
  <1>0. /\ UNCHANGED <<thread, owner, current, handled, freed>>
        /\ "MsgTask" \notin freed /\ state[m] = "new"
    BY DEF Send, pcs
  <1>1. PhaseInv' BY <1>0 DEF PhaseInv
  <1>2. CASE unblocked
    <2>1. UNCHANGED <<msg_list, sent>> /\ state' = [state EXCEPT ![m] = "refused"]
      BY <1>2 DEF Send
    <2>2. OrderInv' BY <1>0, <2>1 DEF OrderInv
    <2>3. \A i \in 1..Len(sent) : sent[i] # m BY <1>0 DEF StateInv
    <2>4. \A i \in 1..Len(sent) : sent[i] \in Messages BY DEF TypeOK
    <2>5. StateInv' BY <1>0, <2>1, <2>3, <2>4 DEF StateInv, TypeOK
    <2>6. QED BY <1>1, <2>2, <2>5
  <1>3. CASE ~unblocked
    <2>1. /\ msg_list' = Append(msg_list, m) /\ sent' = Append(sent, m)
          /\ state' = [state EXCEPT ![m] = "queued"]
      BY <1>3 DEF Send
    <2>2. /\ Len(sent) \in Nat /\ Len(sent') = Len(sent) + 1
          /\ \A i \in 1..Len(sent) : sent'[i] = sent[i] /\ sent[i] \in Messages
          /\ sent'[Len(sent) + 1] = m
      BY <2>1 DEF TypeOK
    <2>3. /\ Len(msg_list) \in Nat /\ Len(msg_list') = Len(msg_list) + 1
          /\ \A i \in 1..Len(msg_list) : msg_list'[i] = msg_list[i]
          /\ msg_list'[Len(msg_list) + 1] = m
      BY <2>1 DEF TypeOK
    <2>4. Len(handled) \in Nat /\ Len(current) \in Nat BY DEF TypeOK
    <2>5. \A i \in 1..Len(sent) : sent[i] # m BY <1>0 DEF StateInv
    <2>6. OrderInv'
      <3>1. Len(handled) <= Len(sent') BY <2>2, <2>4 DEF OrderInv
      <3>2. \A i \in 1..Len(handled) : handled[i] = sent'[i] BY <2>2, <2>4 DEF OrderInv
      <3>3. Len(sent') = Len(handled) + Len(current) + Len(msg_list')
        BY <1>0, <2>2, <2>3, <2>4 DEF OrderInv
      <3>4. current # <<>> => current[1] = sent'[Len(handled) + 1]
        <4>1. current # <<>> => Len(current) # 0 BY DEF TypeOK
        <4>2. current # <<>> => Len(handled) + 1 \in 1..Len(sent)
          BY <1>0, <2>2, <2>3, <2>4, <4>1 DEF OrderInv
        <4>3. QED BY <1>0, <2>2, <4>2 DEF OrderInv
      <3>5. ASSUME NEW i \in 1..Len(msg_list')
            PROVE  msg_list'[i] = sent'[Len(handled) + Len(current) + i]
        <4>1. CASE i = Len(msg_list) + 1
          BY <4>1, <1>0, <2>2, <2>3, <2>4 DEF OrderInv
        <4>2. CASE i \in 1..Len(msg_list)
          <5>1. Len(handled) + Len(current) + i \in 1..Len(sent)
            BY <4>2, <1>0, <2>2, <2>3, <2>4 DEF OrderInv
          <5>2. QED BY <5>1, <4>2, <1>0, <2>2, <2>3 DEF OrderInv
        <4>3. QED BY <4>1, <4>2, <2>3
      <3>6. QED BY <1>0, <3>1, <3>2, <3>3, <3>4, <3>5 DEF OrderInv
    <2>7. StateInv'
      <3>1. \A i \in 1..Len(sent') : i \in 1..Len(sent) \/ i = Len(sent) + 1 BY <2>2
      <3>2. \A i, j \in 1..Len(sent') : sent'[i] = sent'[j] => i = j
        BY <3>1, <2>2, <2>5 DEF StateInv
      <3>3. \A i \in 1..Len(sent') :
              state'[sent'[i]] = IF i <= Len(handled) \/ "MsgTask" \in freed
                                   THEN "deleted" ELSE "queued"
        BY <3>1, <1>0, <2>1, <2>2, <2>4, <2>5 DEF StateInv, OrderInv, TypeOK
      <3>4. \A k \in Messages : state'[k] \in {"new", "refused"} \/ \E i \in 1..Len(sent') : sent'[i] = k
        <4> SUFFICES ASSUME NEW k \in Messages, state'[k] \notin {"new", "refused"}
                     PROVE  \E i \in 1..Len(sent') : sent'[i] = k
          OBVIOUS
        <4>1. CASE k = m BY <4>1, <2>2
        <4>2. CASE k # m
          <5>1. state[k] \notin {"new", "refused"} BY <4>2, <2>1 DEF TypeOK
          <5>2. PICK i \in 1..Len(sent) : sent[i] = k BY <5>1 DEF StateInv
          <5>3. QED BY <5>2, <2>2
        <4>3. QED BY <4>1, <4>2
      <3>5. QED BY <1>0, <3>2, <3>3, <3>4 DEF StateInv
    <2>8. QED BY <1>1, <2>6, <2>7
  <1>4. QED BY <1>2, <1>3

\* msg_q_rcv() hands out the oldest message.
LEMMA TakeMsgInv == ASSUME IndInv, MsgInv, RcvTakes PROVE MsgInv'
  <1> USE DEF IndInv, MsgInv
  <1>1. /\ msg_list # <<>> /\ current' = <<Head(msg_list)>> /\ msg_list' = Tail(msg_list)
        /\ UNCHANGED <<owner, state, sent, handled, freed>> /\ thread' = "proc"
        /\ thread \in {"rcv", "wait"}
    BY DEF RcvTakes, Uses
  <1>2. current = <<>> /\ "MsgTask" \notin freed BY <1>1 DEF PhaseInv
  <1>3. /\ Len(msg_list) \in Nat \ {0} /\ Len(msg_list') = Len(msg_list) - 1
        /\ \A i \in 1..Len(msg_list') : msg_list'[i] = msg_list[i + 1]
        /\ Len(current') = 1 /\ current'[1] = msg_list[1]
        /\ Len(current) = 0
    BY <1>1, <1>2 DEF TypeOK
  <1>4. Len(handled) \in Nat BY DEF TypeOK
  <1>5. PhaseInv' BY <1>1, <1>2, <1>3 DEF PhaseInv
  <1>6. OrderInv'
    <2>1. Len(sent) = Len(handled) + 1 + Len(msg_list')
      <3>1. Len(sent) = Len(handled) + Len(current) + Len(msg_list) BY <1>2 DEF OrderInv
      <3>2. QED BY <3>1, <1>3, <1>4
    <2>2. current'[1] = sent[Len(handled) + 1]
      BY <1>2, <1>3, <1>4 DEF OrderInv
    <2>3. ASSUME NEW i \in 1..Len(msg_list')
          PROVE  msg_list'[i] = sent[Len(handled) + 1 + i]
      <3>1. msg_list[i + 1] = sent[Len(handled) + Len(current) + (i + 1)]
        BY <1>2, <1>3 DEF OrderInv
      <3>2. QED BY <3>1, <1>3, <1>4
    <2>4. QED BY <1>1, <1>2, <1>3, <2>1, <2>2, <2>3 DEF OrderInv
  <1>7. StateInv' BY <1>1 DEF StateInv
  <1>8. QED BY <1>5, <1>6, <1>7

\* proc() and delete.
LEMMA ProcMsgInv == ASSUME IndInv, MsgInv, Proc PROVE MsgInv'
  <1> USE DEF IndInv, MsgInv
  <1> DEFINE n == Len(handled) + 1  m == current[1]
  <1>1. /\ handled' = Append(handled, m)
        /\ state' = [state EXCEPT ![m] = IF @ = "queued" THEN "deleted" ELSE "deletedTwice"]
        /\ current' = <<>> /\ thread' = "loop" /\ thread = "proc"
        /\ UNCHANGED <<msg_list, owner, sent, freed>>
    BY DEF Proc, queue, Uses
  <1>2. Len(current) = 1 /\ "MsgTask" \notin freed /\ current # <<>>
    <2>1. Len(current) = 1 /\ "MsgTask" \notin freed BY <1>1 DEF PhaseInv
    <2>2. QED BY <2>1
  <1>3. m \in Messages /\ m = sent[n] BY <1>2 DEF OrderInv, TypeOK
  <1>4. /\ Len(handled) \in Nat /\ Len(handled') = n
        /\ \A i \in 1..Len(handled) : handled'[i] = handled[i]
        /\ handled'[n] = m
        /\ Len(sent) \in Nat /\ Len(msg_list) \in Nat
    BY <1>1, <1>3 DEF TypeOK
  <1>5. Len(sent) = n + Len(msg_list) /\ n \in 1..Len(sent)
    BY <1>2, <1>4 DEF OrderInv
  <1>6. Len(current') = 0 BY <1>1
  <1>7. PhaseInv' BY <1>1, <1>2 DEF PhaseInv
  <1>8. OrderInv'
    <2>1. \A i \in 1..Len(handled') : handled'[i] = sent[i] BY <1>3, <1>4 DEF OrderInv
    <2>2. \A i \in 1..Len(msg_list) : msg_list[i] = sent[Len(handled') + 0 + i]
      BY <1>2, <1>4 DEF OrderInv
    <2>3. QED BY <1>1, <1>4, <1>5, <1>6, <2>1, <2>2 DEF OrderInv
  <1>9. StateInv'
    <2>1. state[m] = "queued" BY <1>2, <1>3, <1>4, <1>5 DEF StateInv
    <2>2. state' = [state EXCEPT ![m] = "deleted"] BY <1>1, <2>1
    <2>3. \A i \in 1..Len(sent) : sent[i] \in Messages /\ (sent[i] = m => i = n)
      BY <1>3, <1>5 DEF StateInv, TypeOK
    <2>4. \A i \in 1..Len(sent) :
            state'[sent[i]] = IF i <= n \/ "MsgTask" \in freed THEN "deleted" ELSE "queued"
      BY <1>2, <1>3, <1>4, <2>2, <2>3 DEF StateInv, TypeOK
    <2>5. \A k \in Messages : state'[k] \in {"new", "refused"} \/ \E i \in 1..Len(sent) : sent[i] = k
      BY <1>3, <1>5, <2>2 DEF StateInv, TypeOK
    <2>6. QED BY <1>1, <1>4, <2>4, <2>5 DEF StateInv
  <1>10. QED BY <1>7, <1>8, <1>9

\* msg_q_flush() of ~MsgTask(): what is queued is what was sent and not handled.
LEMMA FlushMsgInv == ASSUME IndInv, MsgInv, ThreadDeletes \/ DestroyOrphan PROVE MsgInv'
  <1> USE DEF IndInv, MsgInv
  <1>1. /\ UNCHANGED <<current, sent, handled>> /\ msg_list' = <<>>
        /\ freed' = freed \cup {"MsgTask"}
        /\ state' = [m \in Messages |->
                      IF \E i \in DOMAIN msg_list : msg_list[i] = m
                        THEN IF state[m] = "queued" THEN "deleted" ELSE "deletedTwice"
                        ELSE state[m]]
    BY DEF ThreadDeletes, DestroyOrphan, DeleteTask
  <1>2. /\ "MsgTask" \notin freed /\ current = <<>>
        /\ \/ thread' = "release"
           \/ thread' = "none" /\ owner' = "done"
    BY DEF ThreadDeletes, DestroyOrphan, PhaseInv, ThreadInv
  <1>3. PhaseInv' BY <1>1, <1>2 DEF PhaseInv
  <1>4. OrderInv' BY <1>1 DEF OrderInv
  <1>5. /\ DOMAIN msg_list = 1..Len(msg_list) /\ Len(msg_list) \in Nat
        /\ Len(handled) \in Nat /\ Len(current) = 0 /\ Len(sent) \in Nat
        /\ \A i \in 1..Len(sent) : sent[i] \in Messages
    BY <1>2 DEF TypeOK
  <1>6. ASSUME NEW i \in 1..Len(sent)
        PROVE  i > Len(handled) <=> \E j \in 1..Len(msg_list) : msg_list[j] = sent[i]
    <2>1. ASSUME i > Len(handled) PROVE \E j \in 1..Len(msg_list) : msg_list[j] = sent[i]
      <3>1. i - Len(handled) \in 1..Len(msg_list)
        BY <1>2, <1>5, <2>1 DEF OrderInv
      <3>2. msg_list[i - Len(handled)] = sent[Len(handled) + Len(current) + (i - Len(handled))]
        BY <1>2, <3>1 DEF OrderInv
      <3>3. QED BY <1>5, <3>1, <3>2
    <2>2. ASSUME NEW j \in 1..Len(msg_list), msg_list[j] = sent[i] PROVE i > Len(handled)
      <3>1. msg_list[j] = sent[Len(handled) + j] /\ Len(handled) + j \in 1..Len(sent)
        BY <1>2, <1>5 DEF OrderInv
      <3>2. i = Len(handled) + j BY <2>2, <3>1 DEF StateInv
      <3>3. QED BY <3>2, <1>5
    <2>3. QED BY <2>1, <2>2
  <1>7. \A i \in 1..Len(sent) : state'[sent[i]] = "deleted"
    <2> SUFFICES ASSUME NEW i \in 1..Len(sent) PROVE state'[sent[i]] = "deleted"
      OBVIOUS
    <2>1. sent[i] \in Messages BY <1>5
    <2>2. CASE i <= Len(handled)
      <3>1. state[sent[i]] = "deleted" BY <2>2 DEF StateInv
      <3>2. ~ \E j \in DOMAIN msg_list : msg_list[j] = sent[i] BY <2>2, <1>5, <1>6
      <3>3. QED BY <1>1, <2>1, <3>1, <3>2
    <2>3. CASE i > Len(handled)
      <3>1. state[sent[i]] = "queued" BY <2>3, <1>2, <1>5 DEF StateInv
      <3>2. \E j \in DOMAIN msg_list : msg_list[j] = sent[i] BY <2>3, <1>5, <1>6
      <3>3. QED BY <1>1, <2>1, <3>1, <3>2
    <2>4. QED BY <2>2, <2>3, <1>5
  <1>8. \A k \in Messages : state'[k] \in {"new", "refused"} \/ \E i \in 1..Len(sent) : sent[i] = k
    <2> SUFFICES ASSUME NEW k \in Messages, ~ \E i \in 1..Len(sent) : sent[i] = k
                 PROVE  state'[k] \in {"new", "refused"}
      OBVIOUS
    <2>1. ~ \E i \in 1..Len(msg_list) : msg_list[i] = k
      BY <1>2, <1>5 DEF OrderInv
    <2>2. QED BY <1>1, <1>5, <2>1 DEF StateInv
  <1>9. StateInv' BY <1>1, <1>7, <1>8 DEF StateInv
  <1>10. QED BY <1>3, <1>4, <1>9

\* The other steps leave the messages where they are.
LEMMA QuietMsgInv ==
  ASSUME IndInv, MsgInv,
         \/ Create \/ ThreadStarts \/ ThreadLoops \/ RcvWaits \/ RcvFails \/ ThreadExits
         \/ ThreadReleases \/ Destroy \/ DestroyUnblocks \/ UNCHANGED vars
  PROVE  MsgInv'
  <1> USE DEF IndInv, MsgInv
  <1>1. UNCHANGED <<msg_list, current, sent, handled, state>>
    BY DEF Create, ThreadStarts, ThreadLoops, RcvWaits, RcvFails, ThreadExits, ThreadReleases,
           Destroy, DestroyForgets, DestroyStops, DestroyJoins, DestroyReleases, DestroyUnblocks,
           vars, queue, history
  <1>2. "MsgTask" \in freed' <=> "MsgTask" \in freed
    BY DEF Create, ThreadStarts, ThreadLoops, RcvWaits, RcvFails, ThreadExits, ThreadReleases,
           Destroy, DestroyForgets, DestroyStops, DestroyJoins, DestroyReleases, DestroyUnblocks,
           vars, history, Uses, Release, PhaseInv, ThreadInv
  <1>3. /\ thread' # "proc" \/ thread' = thread
        /\ thread = "proc" => thread' = "proc"
        /\ "MsgTask" \in freed => \/ thread' \in {"release", "done"}
                                  \/ thread' = "none" /\ owner' = "done"
    BY DEF Create, ThreadStarts, ThreadLoops, RcvWaits, RcvFails, ThreadExits, ThreadReleases,
           Destroy, DestroyForgets, DestroyStops, DestroyJoins, DestroyReleases, DestroyUnblocks,
           vars, pcs, PhaseInv, ThreadInv
  <1>4. PhaseInv' BY <1>1, <1>2, <1>3 DEF PhaseInv
  <1>5. OrderInv' BY <1>1, <1>2 DEF OrderInv
  <1>6. StateInv' BY <1>1, <1>2 DEF StateInv
  <1>7. QED BY <1>4, <1>5, <1>6

\* The index form says what Fifo says with sequences.
LEMMA FifoFromOrder == ASSUME IndInv, MsgInv PROVE Fifo
  <1> USE DEF IndInv, MsgInv
  <1>1. /\ handled \in Seq(Messages) /\ current \in Seq(Messages)
        /\ msg_list \in Seq(Messages) /\ sent \in Seq(Messages)
        /\ Len(handled) \in Nat /\ Len(current) \in Nat /\ Len(msg_list) \in Nat
        /\ Len(sent) \in Nat
    BY DEF TypeOK
  <1>2. CASE "MsgTask" \in freed
    <2> DEFINE n == Len(handled)
    <2>1. n \in 0..Len(sent) BY <1>1 DEF OrderInv
    <2>2. \A i \in 1..n : sent[i] \in Messages BY <1>1, <2>1
    <2>3. /\ SubSeq(sent, 1, n) \in Seq(Messages) /\ Len(SubSeq(sent, 1, n)) = n
          /\ \A i \in 1..n : SubSeq(sent, 1, n)[i] = sent[i]
      <3>1. /\ SubSeq(sent, 1, n) \in Seq(Messages)
            /\ Len(SubSeq(sent, 1, n)) = IF 1 <= n THEN n - 1 + 1 ELSE 0
            /\ \A i \in 1..(n - 1 + 1) : SubSeq(sent, 1, n)[i] = sent[1 + i - 1]
        BY <1>1, <2>2, SubSeqProperties
      <3>2. QED BY <3>1, <1>1
    <2>4. handled = SubSeq(sent, 1, n)
      <3>1. \A i \in 1..n : handled[i] = SubSeq(sent, 1, n)[i] BY <2>3 DEF OrderInv
      <3>2. QED BY <1>1, <2>3, <3>1, SeqEqual
    <2>5. QED BY <1>2, <2>1, <2>4 DEF Fifo
  <1>3. CASE "MsgTask" \notin freed
    <2> DEFINE h == handled \o current  r == h \o msg_list
    <2>1. /\ h \in Seq(Messages) /\ Len(h) = Len(handled) + Len(current)
          /\ \A i \in 1..(Len(handled) + Len(current)) :
               h[i] = IF i <= Len(handled) THEN handled[i] ELSE current[i - Len(handled)]
      BY <1>1, ConcatProperties
    <2> HIDE DEF h
    <2>2. /\ r \in Seq(Messages) /\ Len(r) = Len(h) + Len(msg_list)
          /\ \A i \in 1..(Len(h) + Len(msg_list)) :
               r[i] = IF i <= Len(h) THEN h[i] ELSE msg_list[i - Len(h)]
      <3>1. h \in Seq(Messages) /\ msg_list \in Seq(Messages) BY <1>1, <2>1
      <3>2. QED BY ONLY <3>1, ConcatProperties, Zenon
    <2> HIDE DEF r
    <2>3. Len(current) \in {0, 1} /\ (Len(current) = 1 => current # <<>>)
      <3>1. Len(<<>>) = 0 OBVIOUS
      <3>2. Len(current) = 1 \/ current = <<>> BY DEF PhaseInv
      <3>3. QED BY ONLY <3>1, <3>2
    <2>4. Len(r) = Len(sent)
      <3>1. Len(sent) = Len(handled) + Len(current) + Len(msg_list) BY <1>3 DEF OrderInv
      <3>2. QED BY <3>1, <2>1, <2>2
    <2>5. ASSUME NEW i \in 1..Len(sent) PROVE sent[i] = r[i]
      <3>1. CASE i <= Len(handled)
        <4>1. i \in 1..Len(handled) /\ i <= Len(h) BY <3>1, <1>1, <2>1
        <4>2. r[i] = h[i] BY <4>1, <1>1, <2>1, <2>2
        <4>3. h[i] = handled[i] BY <4>1, <1>1, <2>1
        <4>4. handled[i] = sent[i] BY <4>1 DEF OrderInv
        <4>5. QED BY <4>2, <4>3, <4>4
      <3>2. CASE i = Len(handled) + 1 /\ Len(current) = 1
        <4>1. i - Len(handled) = 1 /\ i <= Len(h) BY <3>2, <1>1, <2>1
        <4>2. r[i] = current[1] BY <3>2, <4>1, <1>1, <2>1, <2>2, <2>4
        <4>3. QED BY <4>2, <3>2, <2>3, <1>3 DEF OrderInv
      <3>3. CASE i > Len(h)
        <4>1. i - Len(h) \in 1..Len(msg_list) BY <3>3, <1>1, <2>1, <2>2, <2>4
        <4>2. msg_list[i - Len(h)] = sent[Len(handled) + Len(current) + (i - Len(h))]
          BY <4>1, <1>3 DEF OrderInv
        <4>3. QED BY <4>1, <4>2, <3>3, <1>1, <2>1, <2>2, <2>4
      <3>4. QED BY <3>1, <3>2, <3>3, <1>1, <2>1, <2>3
    <2>6. sent = r BY <1>1, <2>2, <2>4, <2>5, SeqEqual
    <2>7. QED BY <1>3, <2>6 DEF Fifo, r, h
  <1>4. QED BY <1>2, <1>3

\* Messages are handled in the order of msg_q_snd(), and each one that was accepted is
\* deleted once, by the thread that handled it or by the flush, for any messages.
THEOREM MessagesOnceHolds == Spec => []MessagesOnce
  <1>1. IndInv /\ MsgInv /\ [Next]_vars => MsgInv'
    BY SendMsgInv, TakeMsgInv, ProcMsgInv, FlushMsgInv, QuietMsgInv DEF Next, Thread
  <1>2. IndInv /\ MsgInv => MessagesOnce
    <2> SUFFICES ASSUME IndInv, MsgInv PROVE MessagesOnce
      OBVIOUS
    <2>1. Fifo BY FifoFromOrder
    <2>2. DeletedOnce BY DEF IndInv, TypeOK, MsgInv, StateInv, DeletedOnce
    <2>3. QED BY <2>1, <2>2 DEF MessagesOnce
  <1>3. QED BY InitMsgInv, Inductive, <1>1, <1>2, PTL DEF Spec
=============================================================================
