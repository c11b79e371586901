--------------------------- MODULE LocEngNiProofs ---------------------------
(***************************************************************************)
(* What the NI sessions keep true for any number of requests: the modem is *)
(* answered at most once for each, whatever engine restarts do; and, when  *)
(* the engine is not restarted, one thread at a time works on a slot and   *)
(* every payload is freed at most once.                                    *)
(***************************************************************************)
EXTENDS LocEngNi, TLAPS

\* A message for r: in the local variable of thread t, in the queue, or handled.
Sends(t, r) == msg[t].set /\ msg[t].req = r
In(q, r)    == \E i \in 1..Len(q) : q[i].req = r
Carried(r)  == (\E t \in Requests : Sends(t, r)) \/ In(niMsgs, r) \/ answers[r] # <<>>
Distinct(q) == \A i, j \in 1..Len(q) : q[i].req = q[j].req /\ q[i].req # 0 => i = j

\* tLock is held by the one thread that is in the critical section.
LockInv == \A t \in Requests : pc[t] \in Locked => tLock[slot[t]] = t

\* Requests are numbered in turn; a slot holds a request of its own kind.
FreshInv ==
  /\ \A r \in Requests : r > reqIDCounter => pc[r] = "none" /\ frees[r] = 0
  /\ \A r \in Requests : Carried(r) => r <= reqIDCounter
  /\ \A s \in Slots, r \in Requests : rawRequest[s] = r => slot[r] = s /\ r <= reqIDCounter

\* A message exists once, and only from the moment its thread has taken the request.
OnceInv ==
  /\ \A t \in Requests : msg[t].set => pc[t] \in {"clear", "zero", "send"}
  /\ \A r, t, u \in Requests : Sends(t, r) /\ Sends(u, r) => t = u
  /\ \A r, t \in Requests : Sends(t, r) => ~In(niMsgs, r) /\ answers[r] = <<>>
  /\ \A r \in Requests : In(niMsgs, r) => answers[r] = <<>>
  /\ \A r \in Requests : Len(answers[r]) <= 1
  /\ Distinct(niMsgs)

\* A request that is in a slot and in a message is about to leave the slot.
SlotInv ==
  \A s \in Slots, r \in Requests :
    rawRequest[s] = r /\ Carried(r) =>
      \E t \in Requests : pc[t] = "clear" /\ slot[t] = s /\ Sends(t, r)

\* Until the first restart a thread works on its own request until it leaves the slot.
CalmInv ==
  restarts = 0 =>
    /\ mtAt = "idle"
    /\ \A t \in Requests : pc[t] # "unlock" /\ (Busy(t) => rawRequest[slot[t]] = t)
    /\ \A r \in Requests :
         /\ frees[r] <= 1
         /\ frees[r] = 1 => /\ \A t \in Requests : ~Sends(t, r)
                            /\ ~In(niMsgs, r)
                            /\ \A s \in Slots : rawRequest[s] = r => pc[r] = "clear"

IndInv == TypeOK /\ LockInv /\ FreshInv /\ OnceInv /\ SlotInv /\ CalmInv
-----------------------------------------------------------------------------
(* Queues of messages.                                                     *)

\* Appending a message for a request that the queue does not have.
LEMMA AppendQueue ==
  ASSUME NEW q \in Seq(Messages), NEW m \in Messages
  PROVE  /\ Append(q, m) \in Seq(Messages)
         /\ \A r \in Requests : In(Append(q, m), r) <=> In(q, r) \/ m.req = r
         /\ Distinct(q) /\ (m.req = 0 \/ ~In(q, m.req)) => Distinct(Append(q, m))
  <1>1. /\ Append(q, m) \in Seq(Messages) /\ Len(q) \in Nat
        /\ Len(Append(q, m)) = Len(q) + 1
        /\ \A i \in 1..Len(q) : Append(q, m)[i] = q[i]
        /\ Append(q, m)[Len(q) + 1] = m
    OBVIOUS
  <1>2. 1..Len(Append(q, m)) = 1..Len(q) \cup {Len(q) + 1}
    BY <1>1
  <1> HIDE DEF Messages
  <1>3. \A r \in Requests : In(Append(q, m), r) <=> In(q, r) \/ m.req = r
    BY <1>1, <1>2 DEF In
  <1>4. ASSUME Distinct(q), m.req = 0 \/ ~In(q, m.req) PROVE Distinct(Append(q, m))
    BY <1>1, <1>2, <1>4 DEF Distinct, In
  <1>5. QED BY <1>1, <1>3, <1>4

\* Taking the oldest message.
LEMMA TailQueue ==
  ASSUME NEW q \in Seq(Messages), q # <<>>
  PROVE  /\ Tail(q) \in Seq(Messages) /\ Head(q) \in Messages
         /\ \A r \in Requests : In(Tail(q), r) => In(q, r)
         /\ In(q, Head(q).req)
         /\ Distinct(q) => /\ Distinct(Tail(q))
                           /\ Head(q).req # 0 => ~In(Tail(q), Head(q).req)
  <1>1. /\ Tail(q) \in Seq(Messages) /\ Head(q) \in Messages /\ Head(q) = q[1]
        /\ Len(q) \in Nat \ {0} /\ Len(Tail(q)) = Len(q) - 1
        /\ \A i \in 1..Len(Tail(q)) : Tail(q)[i] = q[i + 1]
    OBVIOUS
  <1>2. \A i \in 1..Len(Tail(q)) : i + 1 \in 1..Len(q) /\ i + 1 # 1
    BY <1>1
  <1>3. \A r \in Requests : In(Tail(q), r) => In(q, r)
    BY <1>1, <1>2 DEF In
  <1>4. In(q, Head(q).req)
    BY <1>1 DEF In
  <1>5. ASSUME Distinct(q)
        PROVE  Distinct(Tail(q)) /\ (Head(q).req # 0 => ~In(Tail(q), Head(q).req))
    <2>1. Distinct(Tail(q))
      BY <1>1, <1>2, <1>5 DEF Distinct
    <2>2. Head(q).req # 0 => ~In(Tail(q), Head(q).req)
      BY <1>1, <1>2, <1>5 DEF Distinct, In
    <2>3. QED BY <2>1, <2>2
  <1>6. QED BY <1>1, <1>3, <1>4, <1>5
-----------------------------------------------------------------------------
(* Types.                                                                  *)

LEMMA InitIndInv == Init => IndInv
  <1> SUFFICES ASSUME Init PROVE IndInv
    OBVIOUS
  <1> USE NiAssumption DEF Init, Slots, Requests, NoMsg, NoCall
  <1>1. TypeOK BY DEF TypeOK, Responses, Messages, Locked
  <1>2. \A r \in Requests : ~Carried(r) BY DEF Carried, Sends, In
  <1>3. LockInv BY DEF LockInv, Locked
  <1>4. FreshInv BY <1>2 DEF FreshInv
  <1>5. OnceInv BY DEF OnceInv, Sends, In, Distinct
  <1>6. SlotInv BY <1>2 DEF SlotInv
  <1>7. CalmInv BY DEF CalmInv, Busy, Locked
  <1>8. QED BY <1>1, <1>3, <1>4, <1>5, <1>6, <1>7 DEF IndInv

\* The request handler.
LEMMA RequestType ==
  ASSUME TypeOK, NEW s \in Slots, NEW o \in BOOLEAN, RequestNi(s, o)
  PROVE  TypeOK'
  <1> USE NiAssumption DEF TypeOK, RequestNi, responder, msgTask, history, Requests
  <1>1. reqIDCounter + 1 \in 0..MaxRequests /\ reqIDCounter' \in 0..MaxRequests
    OBVIOUS
  <1>2. rawRequest' \in [Slots -> 0..MaxRequests] /\ reqID' \in [Slots -> 0..MaxRequests]
    BY <1>1
  <1>3. pc' \in [Requests -> Locked \cup {"none", "lock", "wait", "zero", "send", "done"}]
    OBVIOUS
  <1>4. slot' \in [Requests -> Slots] /\ mute' \in {"NONE", "WAIT", "IN_SESSION"}
    OBVIOUS
  <1>5. QED BY <1>1, <1>2, <1>3, <1>4

\* free() keeps the types.
LEMMA FreedType ==
  ASSUME TypeOK, NEW r \in 0..MaxRequests
  PROVE  /\ Freed(r) \in [Requests -> Nat]
         /\ \A q \in Requests : Freed(r)[q] = IF q = r THEN frees[q] + 1 ELSE frees[q]
  <1>0. frees \in [Requests -> Nat] BY DEF TypeOK
  <1>5. (r = 0 \/ r \in Requests) /\ 0 \notin Requests BY NiAssumption DEF Requests
  <1>1. frees \in [Requests -> Nat] /\ (r = 0 \/ r \in Requests) /\ 0 \notin Requests
    BY <1>0, <1>5
  <1>2. CASE r = 0
    BY <1>1, <1>2 DEF Freed
  <1>3. CASE r # 0
    <2>1. Freed(r) = [frees EXCEPT ![r] = frees[r] + 1] BY <1>3 DEF Freed
    <2>2. frees[r] + 1 \in Nat BY <1>1, <1>3
    <2>3. QED BY <1>1, <1>3, <2>1, <2>2
  <1>4. QED BY <1>2, <1>3

LEMMA ThreadType ==
  ASSUME TypeOK, NEW t \in Requests, NiThread(t)
  PROVE  TypeOK'
  <1> USE NiAssumption DEF slotVars, threads, responder, msgTask, history
  <1>0. t \in 0..MaxRequests /\ slot[t] \in Slots BY DEF TypeOK, Requests
  <1>1. CASE ThreadStarts(t) \/ ThreadChecks(t)
    BY <1>1 DEF TypeOK, ThreadStarts, ThreadChecks, Locked
  <1>2. CASE ThreadResponded(t) \/ ThreadTimesOut(t)
    <2>1. PICK x \in Responses : LeaveLoop(t, x)
      BY <1>0, <1>2 DEF ThreadResponded, ThreadTimesOut, TypeOK, Responses
    <2>2. QED BY <1>0, <2>1 DEF LeaveLoop, TypeOK, Locked
  <1>3. CASE ThreadTakes(t)
    <2>1. rawRequest[slot[t]] \in 0..MaxRequests /\ resp[slot[t]] \in Responses
      BY <1>0 DEF TypeOK
    <2>2. Message(rawRequest[slot[t]], resp[slot[t]]) \in Messages
      BY <2>1 DEF Message, Messages
    <2>3. msg' \in [Requests -> Messages]
      BY <1>3, <2>2 DEF ThreadTakes, TypeOK
    <2>4. frees' \in [Requests -> Nat]
      <3>1. Freed(rawRequest[slot[t]]) \in [Requests -> Nat]
        BY <2>1, FreedType
      <3>2. frees' = frees \/ frees' = Freed(rawRequest[slot[t]])
        BY <1>3 DEF ThreadTakes
      <3>3. QED BY <3>1, <3>2 DEF TypeOK
    <2>5. QED BY <1>3, <2>3, <2>4 DEF ThreadTakes, TypeOK, Locked
  <1>7. 0 \in 0..MaxRequests OBVIOUS
  <1>4. CASE ThreadUnlocks(t)
    <2>1. rawRequest' \in [Slots -> 0..MaxRequests]
      <3>1. (IF pc[t] = "clear" THEN 0 ELSE rawRequest[slot[t]]) \in 0..MaxRequests
        BY <1>0, <1>7 DEF TypeOK
      <3>2. rawRequest' = [rawRequest EXCEPT ![slot[t]] =
                             IF pc[t] = "clear" THEN 0 ELSE rawRequest[slot[t]]]
        BY <1>4 DEF ThreadUnlocks
      <3>3. QED BY <3>1, <3>2 DEF TypeOK
    <2>2. tLock' \in [Slots -> 0..MaxRequests]
      BY <1>0, <1>7, <1>4 DEF ThreadUnlocks, TypeOK
    <2>3. QED BY <1>4, <2>1, <2>2 DEF ThreadUnlocks, TypeOK
  <1>8. CASE ThreadZeroes(t)
    <2>1. reqID' \in [Slots -> 0..MaxRequests]
      BY <1>0, <1>7, <1>8 DEF ThreadZeroes, TypeOK
    <2>2. QED BY <1>8, <2>1 DEF ThreadZeroes, TypeOK
  <1>5. CASE ThreadSends(t)
    <2>1. NoMsg \in Messages BY DEF NoMsg, Messages, Responses
    <2>2. msg[t] \in Messages BY DEF TypeOK
    <2>3. niMsgs' \in Seq(Messages)
      BY <1>5, <2>2, AppendQueue DEF ThreadSends, TypeOK
    <2>4. msg' \in [Requests -> Messages]
      BY <1>5, <2>1 DEF ThreadSends, TypeOK
    <2>5. QED BY <1>5, <2>3, <2>4 DEF ThreadSends, TypeOK
  <1>6. QED BY <1>1, <1>2, <1>3, <1>4, <1>5, <1>8 DEF NiThread

LEMMA ResponderType ==
  ASSUME TypeOK, Framework \/ Responder
  PROVE  TypeOK'
  <1> USE NiAssumption DEF slotVars, threads, responder, msgTask, history
  <1>1. CASE Framework
    <2>1. PICK r \in Requests, x \in UserSays : RespondFinds(r, x) \/ RespondUnknown(r, x)
      BY <1>1 DEF Framework
    <2>2. said' \in [Requests -> UserSays \cup {"none"}]
      BY <2>1 DEF RespondFinds, RespondUnknown, TypeOK
    <2>3. rspAt' \in {"idle", "ignore", "set"} /\ rsp' \in [slot : Slots, resp : Responses]
      <3>0. x \in Responses /\ rspAt \in {"idle", "ignore", "set"} /\ rsp \in [slot : Slots, resp : Responses]
        BY DEF TypeOK, Responses
      <3>1. CASE RespondFinds(r, x)
        <4>1. PICK s \in Slots : /\ rsp' = [slot |-> s, resp |-> x]
                                 /\ rspAt' = "ignore" \/ rspAt' = "set"
          BY <3>1 DEF RespondFinds
        <4>2. QED BY ONLY <3>0, <4>1
      <3>2. CASE RespondUnknown(r, x)
        <4>1. rsp' = rsp /\ rspAt' = rspAt BY <3>2 DEF RespondUnknown
        <4>2. QED BY ONLY <3>0, <4>1
      <3>3. QED BY <2>1, <3>1, <3>2
    <2>4. UNCHANGED <<slotVars, reqIDCounter, mute, threads, msgTask, restarts, answers, frees>>
      BY <2>1 DEF RespondFinds, RespondUnknown
    <2>5. QED BY <2>2, <2>3, <2>4 DEF TypeOK
  <1>2. CASE Responder
    <2>1. rsp.slot \in Slots /\ rsp.resp \in Responses BY DEF TypeOK
    <2>2. resp' \in [Slots -> Responses] /\ respRecvd' \in [Slots -> BOOLEAN]
      <3>1. "session" \in Slots /\ "IGNORE" \in Responses BY DEF Slots, Responses
      <3>2. PICK s \in Slots, x \in Responses : Signal(s, x)
        BY <1>2, <2>1, <3>1 DEF Responder, RespondIgnores, RespondSets
      <3>3. QED BY <3>2 DEF Signal, TypeOK
    <2>3. rsp' \in [slot : Slots, resp : Responses]
      BY <1>2 DEF Responder, RespondIgnores, RespondSets, NoCall, TypeOK, Slots, Responses
    <2>4. rspAt' \in {"idle", "ignore", "set"}
      BY <1>2 DEF Responder, RespondIgnores, RespondSets
    <2>5. QED BY <1>2, <2>2, <2>3, <2>4 DEF Responder, RespondIgnores, RespondSets, TypeOK
  <1>3. QED BY <1>1, <1>2

LEMMA TaskType ==
  ASSUME TypeOK, Task \/ EngineDown \/ \E b \in BOOLEAN : ReportStatus(b)
  PROVE  TypeOK'
  <1> USE NiAssumption DEF slotVars, threads, responder, msgTask, history
  <1>1. CASE InformNiResponse
    <2>1. niMsgs \in Seq(Messages) /\ niMsgs # <<>>
      BY <1>1 DEF InformNiResponse, TypeOK
    <2>2. niMsgs' \in Seq(Messages) /\ Head(niMsgs) \in Messages
      BY <1>1, <2>1, TailQueue DEF InformNiResponse
    <2>3. Head(niMsgs).req \in 0..MaxRequests /\ Head(niMsgs).resp \in Responses
      BY <2>2 DEF Messages
    <2>4. frees' \in [Requests -> Nat]
      BY <1>1, <2>3, FreedType DEF InformNiResponse
    <2>5. Head(niMsgs).req # 0 => Head(niMsgs).req \in Requests
      BY <2>3 DEF Requests
    <2>6. answers' \in [Requests -> Seq(Responses)]
      <3>1. CASE Head(niMsgs).req = 0
        BY <1>1, <3>1 DEF InformNiResponse, TypeOK
      <3>2. CASE Head(niMsgs).req # 0
        <4>1. Append(answers[Head(niMsgs).req], Head(niMsgs).resp) \in Seq(Responses)
          BY <2>3, <2>5, <3>2 DEF TypeOK
        <4>2. QED BY <1>1, <3>2, <4>1 DEF InformNiResponse, TypeOK
      <3>3. QED BY <3>1, <3>2
    <2>7. QED BY <1>1, <2>2, <2>4, <2>6 DEF InformNiResponse, TypeOK
  <1>2. CASE ResetFrees
    <2>1. rawRequest[mtSlot] \in 0..MaxRequests BY DEF TypeOK
    <2>2. frees' \in [Requests -> Nat]
      <3>1. Freed(rawRequest[mtSlot]) \in [Requests -> Nat] BY <2>1, FreedType
      <3>2. frees' = frees \/ frees' = Freed(rawRequest[mtSlot])
        BY <1>2 DEF ResetFrees
      <3>3. QED BY <3>1, <3>2 DEF TypeOK
    <2>3. mtAt' \in {"idle", "free", "null", "signal", "report"} /\ mtSlot' \in Slots
      BY <1>2 DEF ResetFrees, NextSlot, Slots, TypeOK
    <2>4. QED BY <1>2, <2>2, <2>3 DEF ResetFrees, TypeOK
  <1>3. CASE ResetNulls
    <2>1. rawRequest' \in [Slots -> 0..MaxRequests] BY <1>3 DEF ResetNulls, TypeOK
    <2>2. QED BY <1>3, <2>1 DEF ResetNulls, TypeOK
  <1>4. CASE ResetSignals
    <2>1. resp' \in [Slots -> Responses] /\ respRecvd' \in [Slots -> BOOLEAN]
      BY <1>4 DEF ResetSignals, Signal, TypeOK
    <2>2. mtAt' \in {"idle", "free", "null", "signal", "report"} /\ mtSlot' \in Slots
      BY <1>4 DEF ResetSignals, NextSlot, Slots
    <2>3. QED BY <1>4, <2>1, <2>2 DEF ResetSignals, TypeOK
  <1>5. CASE ResetReports \/ \E b \in BOOLEAN : ReportStatus(b)
    <2>1. mute' \in {"NONE", "WAIT", "IN_SESSION"}
      BY <1>5 DEF ResetReports, ReportStatus, Muted, TypeOK
    <2>2. QED BY <1>5, <2>1 DEF ResetReports, ReportStatus, TypeOK
  <1>6. CASE EngineDown
    BY <1>6 DEF EngineDown, TypeOK, Slots
  <1>7. QED BY <1>1, <1>2, <1>3, <1>4, <1>5, <1>6 DEF Task
-----------------------------------------------------------------------------
(* The steps.                                                              *)

\* Steps that leave the requests, the threads and the messages alone.
LEMMA QuietStep ==
  ASSUME IndInv, TypeOK',
         UNCHANGED <<rawRequest, tLock, reqIDCounter, pc, slot, msg, niMsgs, answers, frees>>,
         restarts' = 0 => restarts = 0 /\ mtAt' = "idle"
  PROVE  IndInv'
  <1> USE DEF IndInv
  <1>1. \A r : Carried(r)' <=> Carried(r) BY DEF Carried, Sends, In
  <1>2. LockInv' BY DEF LockInv
  <1>3. FreshInv' BY <1>1 DEF FreshInv
  <1>4. OnceInv' BY DEF OnceInv, Sends, In, Distinct
  <1>5. SlotInv' BY <1>1 DEF SlotInv, Sends
  <1>6. CalmInv' BY DEF CalmInv, Busy, Sends, In
  <1>7. QED BY <1>2, <1>3, <1>4, <1>5, <1>6

\* A thread moves on without touching a request or a message.
LEMMA MoveStep ==
  ASSUME IndInv, TypeOK', LockInv', NEW t \in Requests, NEW p,
         pc' = [pc EXCEPT ![t] = p],
         UNCHANGED <<rawRequest, reqIDCounter, slot, msg, niMsgs, answers, frees, mtAt, restarts>>,
         \/ pc[t] = "zero" /\ p = "send"
         \/ pc[t] \in {"lock", "wait", "check"} /\ p \in {"wait", "check", "take", "unlock"},
         restarts = 0 => p # "unlock"
  PROVE  IndInv'
  <1> USE DEF IndInv
  <1>1. \A r : Carried(r)' <=> Carried(r) BY DEF Carried, Sends, In
  <1>2. /\ pc'[t] = p /\ pc[t] # "clear" /\ p # "clear" /\ pc[t] # "none"
        /\ \A u \in Requests : u # t => pc'[u] = pc[u]
    BY DEF TypeOK
  <1>3. FreshInv' BY <1>1, <1>2 DEF FreshInv
  <1>4. OnceInv' BY <1>2 DEF OnceInv, Sends, In, Distinct
  <1>5. SlotInv' BY <1>1, <1>2 DEF SlotInv, Sends
  <1>6. CalmInv'
    <2> SUFFICES ASSUME restarts = 0, restarts' = 0 PROVE CalmInv'
      BY <1>2 DEF CalmInv
    <2>1. mtAt' = "idle" BY DEF CalmInv
    <2>2. \A u \in Requests : pc'[u] # "unlock"
      BY <1>2 DEF CalmInv
    <2>3. \A u \in Requests : Busy(u)' => Busy(u)
      BY <1>2 DEF Busy, Locked
    <2>4. \A u \in Requests : Busy(u)' => rawRequest'[slot'[u]] = u
      BY <2>3 DEF CalmInv
    <2>5. \A r \in Requests : frees'[r] <= 1
      BY DEF CalmInv
    <2>6. \A r \in Requests : frees'[r] = 1 =>
            /\ \A u \in Requests : ~Sends(u, r)'
            /\ ~In(niMsgs', r)
            /\ \A s \in Slots : rawRequest'[s] = r => pc'[r] = "clear"
      BY <1>2 DEF CalmInv, Sends
    <2>7. QED BY <2>1, <2>2, <2>4, <2>5, <2>6 DEF CalmInv
  <1>7. QED BY <1>3, <1>4, <1>5, <1>6

\* A new request takes its slot.
LEMMA RequestStep ==
  ASSUME IndInv, NEW s \in Slots, NEW o \in BOOLEAN, RequestNi(s, o)
  PROVE  IndInv'
  <1> USE NiAssumption DEF IndInv
  <1> DEFINE n == reqIDCounter + 1
  <1>1. TypeOK' BY RequestType
  <1>2. /\ n \in Requests /\ n > reqIDCounter /\ reqIDCounter' = n /\ reqIDCounter \in Nat
        /\ rawRequest[s] = 0 /\ rawRequest' = [rawRequest EXCEPT ![s] = n]
        /\ slot' = [slot EXCEPT ![n] = s]
        /\ \E p \in {"lock", "none"} : pc' = [pc EXCEPT ![n] = p]
        /\ UNCHANGED <<tLock, msg, niMsgs, answers, frees, mtAt, restarts>>
    <2>1. n \in Requests /\ reqIDCounter' = n /\ reqIDCounter \in Nat
      BY DEF RequestNi, TypeOK
    <2>2. n > reqIDCounter BY <2>1
    <2>3. \E p \in {"lock", "none"} : pc' = [pc EXCEPT ![n] = p]
      <3>1. pc[n] = "none" BY <2>1, <2>2 DEF FreshInv, Requests
      <3>2. pc = [pc EXCEPT ![n] = "none"] BY <3>1, <2>1 DEF TypeOK
      <3>3. pc' = [pc EXCEPT ![n] = "lock"] \/ pc' = pc BY DEF RequestNi
      <3>4. QED BY <3>2, <3>3
    <2>4. QED BY <2>1, <2>2, <2>3 DEF RequestNi, Available, msgTask, history
  <1>3. PICK p \in {"lock", "none"} : pc' = [pc EXCEPT ![n] = p]
    BY <1>2
  <1> HIDE DEF n
  <1>4. /\ pc[n] = "none" /\ ~Carried(n) /\ frees[n] = 0 /\ n \in Nat \ {0}
        /\ \A x \in Slots : rawRequest[x] # n
    BY <1>2 DEF FreshInv, Requests
  <1>5. /\ pc'[n] = p /\ slot'[n] = s /\ rawRequest'[s] = n
        /\ \A u \in Requests : u # n => pc'[u] = pc[u] /\ slot'[u] = slot[u]
        /\ \A x \in Slots : x # s => rawRequest'[x] = rawRequest[x]
    BY <1>2, <1>3 DEF TypeOK
  <1>6. \A r : Carried(r)' <=> Carried(r) BY <1>2 DEF Carried, Sends, In
  <1>7. LockInv' BY <1>2, <1>5 DEF LockInv, Locked
  <1>8. FreshInv'
    BY <1>2, <1>4, <1>5, <1>6 DEF FreshInv, Requests
  <1>9. OnceInv'
    BY <1>2, <1>4, <1>5 DEF OnceInv, Sends, In, Distinct
  <1>10. SlotInv'
    <2> SUFFICES ASSUME NEW x \in Slots, NEW r \in Requests, rawRequest'[x] = r, Carried(r)'
                 PROVE  \E t \in Requests : pc'[t] = "clear" /\ slot'[t] = x /\ Sends(t, r)'
      BY DEF SlotInv
    <2>1. r # n /\ x # s BY <1>4, <1>5, <1>6
    <2>2. PICK t \in Requests : pc[t] = "clear" /\ slot[t] = x /\ Sends(t, r)
      BY <1>5, <1>6, <2>1 DEF SlotInv
    <2>3. t # n BY <1>4, <2>2
    <2>4. QED BY <1>2, <1>5, <2>2, <2>3 DEF Sends
  <1>11. CalmInv'
    <2> SUFFICES ASSUME restarts = 0, restarts' = 0 PROVE CalmInv'
      BY <1>2 DEF CalmInv
    <2>1. mtAt' = "idle" BY <1>2 DEF CalmInv
    <2>2. \A u \in Requests : pc'[u] # "unlock" BY <1>5 DEF CalmInv
    <2>3. \A u \in Requests : u # n /\ Busy(u) => slot[u] # s
      BY <1>2 DEF CalmInv, Requests
    <2>4. \A u \in Requests : Busy(u)' => rawRequest'[slot'[u]] = u
      <3> SUFFICES ASSUME NEW u \in Requests, Busy(u)', u # n
                   PROVE  rawRequest'[slot'[u]] = u
        BY <1>5
      <3>1. Busy(u) BY <1>5 DEF Busy
      <3>2. slot'[u] = slot[u] /\ slot[u] # s /\ slot[u] \in Slots
        BY <1>5, <2>3, <3>1 DEF TypeOK
      <3>3. QED BY <1>5, <3>1, <3>2 DEF CalmInv
    <2>5. \A r \in Requests : frees'[r] <= 1 BY <1>2 DEF CalmInv
    <2>6. \A r \in Requests : frees'[r] = 1 =>
            /\ \A u \in Requests : ~Sends(u, r)'
            /\ ~In(niMsgs', r)
            /\ \A x \in Slots : rawRequest'[x] = r => pc'[r] = "clear"
      <3> TAKE r \in Requests
      <3> HAVE frees'[r] = 1
      <3>1. frees[r] = 1 /\ r # n BY <1>2, <1>4
      <3>2. \A x \in Slots : rawRequest'[x] = r => rawRequest[x] = r
        BY <1>5, <3>1
      <3>3. QED BY <1>2, <1>5, <3>1, <3>2 DEF CalmInv, Sends
    <2>7. QED BY <2>1, <2>2, <2>4, <2>5, <2>6 DEF CalmInv
  <1>12. QED BY <1>1, <1>7, <1>8, <1>9, <1>10, <1>11

\* The thread takes the request that it finds in its slot, into a message or to
\* drop it.
LEMMA TakesStep ==
  ASSUME IndInv, NEW t \in Requests, ThreadTakes(t)
  PROVE  IndInv'
  <1> USE NiAssumption DEF IndInv
  <1> DEFINE s == slot[t]
             n == rawRequest[s]
  <1>1. TypeOK' BY ThreadType DEF NiThread
  <1>2. /\ pc[t] = "take" /\ pc' = [pc EXCEPT ![t] = "clear"]
        /\ UNCHANGED <<rawRequest, tLock, reqIDCounter, slot, niMsgs, answers, mtAt, restarts>>
    BY DEF ThreadTakes, slotVars, msgTask
  <1>3. \/ msg' = [msg EXCEPT ![t] = Message(n, resp[s])] /\ frees' = frees
        \/ msg' = msg /\ frees' = Freed(n)
    BY DEF ThreadTakes
  <1>4. s \in Slots /\ n \in 0..MaxRequests /\ (n = 0 \/ n \in Requests) /\ 0 \notin Requests
    BY DEF TypeOK, Requests
  <1>5. tLock[s] = t BY <1>2 DEF LockInv, Locked
  <1>6. n \in Requests => ~Carried(n)
    <2> SUFFICES ASSUME n \in Requests, Carried(n) PROVE FALSE
      OBVIOUS
    <2>1. PICK u \in Requests : pc[u] = "clear" /\ slot[u] = s
      BY <1>4 DEF SlotInv
    <2>2. tLock[s] = u BY <2>1 DEF LockInv, Locked
    <2>3. QED BY <1>2, <1>5, <2>1, <2>2
  <1>7. n \in Requests => slot[n] = s /\ n <= reqIDCounter
    BY <1>4 DEF FreshInv
  <1> HIDE DEF s, n
  <1>8. /\ pc'[t] = "clear" /\ \A u \in Requests : u # t => pc'[u] = pc[u]
        /\ ~msg[t].set
    BY <1>2 DEF TypeOK, OnceInv
  <1>9. /\ \A u \in Requests : u # t => msg'[u] = msg[u]
        /\ \A r \in Requests : Sends(t, r)' => r = n
        /\ \A u, r \in Requests : Sends(u, r)' => Sends(u, r) \/ (u = t /\ r = n)
        /\ \A u, r \in Requests : Sends(u, r) => Sends(u, r)'
    <2>1. \A u \in Requests : u # t => msg'[u] = msg[u]
      BY <1>3 DEF TypeOK
    <2>2. msg'[t] = msg[t] \/ msg'[t].req = n
      BY <1>3 DEF TypeOK, Message
    <2>3. QED BY <1>8, <2>1, <2>2 DEF Sends
  <1>10. \A r \in Requests : Carried(r)' => Carried(r) \/ (r = n /\ Sends(t, r)')
    BY <1>2, <1>9 DEF Carried, In
  <1>11. \A r \in Requests : frees'[r] = IF msg' = msg /\ frees' # frees /\ r = n
                                         THEN frees[r] + 1 ELSE frees[r]
    <2>1. CASE frees' = frees BY <2>1
    <2>2. CASE msg' = msg /\ frees' = Freed(n) /\ frees' # frees
      BY <1>4, <2>2, FreedType
    <2>3. QED BY <1>3, <2>1, <2>2
  <1>12. LockInv' BY <1>2, <1>5, <1>8 DEF LockInv, Locked, s
  <1>13. FreshInv'
    <2>1. \A r \in Requests : r > reqIDCounter => r # t /\ r # n
      <3>1. t <= reqIDCounter
        <4>1. t \in Int /\ reqIDCounter \in Int BY DEF TypeOK, Requests
        <4>2. ~(t > reqIDCounter) BY <1>2 DEF FreshInv
        <4>3. QED BY <4>1, <4>2
      <3>2. \A r \in Requests : r > reqIDCounter => ~(r <= reqIDCounter)
        BY DEF TypeOK, Requests
      <3>3. QED BY <1>7, <3>1, <3>2
    <2>2. \A r \in Requests : r > reqIDCounter => pc'[r] = "none" /\ frees'[r] = 0
      BY <1>8, <1>11, <2>1 DEF FreshInv
    <2>3. \A r \in Requests : Carried(r)' => r <= reqIDCounter
      BY <1>7, <1>10 DEF FreshInv
    <2>4. QED BY <1>2, <2>2, <2>3 DEF FreshInv
  <1>14. OnceInv'
    <2>1. \A u \in Requests : msg'[u].set => pc'[u] \in {"clear", "zero", "send"}
      BY <1>8, <1>9 DEF OnceInv
    <2>2. ASSUME NEW r \in Requests, NEW u \in Requests, Sends(u, r)', ~Sends(u, r)
          PROVE  u = t /\ r = n /\ ~Carried(r)
      BY <1>6, <1>9, <2>2
    <2>3. \A r, u, v \in Requests : Sends(u, r)' /\ Sends(v, r)' => u = v
      BY <2>2 DEF OnceInv, Carried
    <2>4. \A r, u \in Requests : Sends(u, r)' => ~In(niMsgs', r) /\ answers'[r] = <<>>
      BY <1>2, <2>2 DEF OnceInv, Carried
    <2>5. QED BY <1>2, <2>1, <2>3, <2>4 DEF OnceInv
  <1>15. SlotInv'
    <2> SUFFICES ASSUME NEW x \in Slots, NEW r \in Requests, rawRequest'[x] = r, Carried(r)'
                 PROVE  \E u \in Requests : pc'[u] = "clear" /\ slot'[u] = x /\ Sends(u, r)'
      BY DEF SlotInv
    <2>1. CASE Carried(r)
      <3>1. PICK u \in Requests : pc[u] = "clear" /\ slot[u] = x /\ Sends(u, r)
        BY <1>2, <2>1 DEF SlotInv
      <3>2. QED BY <1>2, <1>8, <1>9, <3>1
    <2>2. CASE r = n /\ Sends(t, r)'
      <3>1. slot[r] = x BY <1>2 DEF FreshInv
      <3>2. slot[t] = x BY <1>7, <2>2, <3>1 DEF s
      <3>3. QED BY <1>2, <1>8, <2>2, <3>2
    <2>3. QED BY <1>10, <2>1, <2>2
  <1>16. CalmInv'
    <2> SUFFICES ASSUME restarts = 0, restarts' = 0 PROVE CalmInv'
      BY <1>2 DEF CalmInv
    <2>1. mtAt' = "idle" /\ n = t
      BY <1>2 DEF CalmInv, Busy, Locked, s, n
    <2>2. \A u \in Requests : pc'[u] # "unlock" BY <1>8 DEF CalmInv
    <2>3. \A u \in Requests : Busy(u)' => rawRequest'[slot'[u]] = u
      BY <1>2, <1>8, <2>1 DEF CalmInv, Busy, Locked, s, n
    <2>4. frees[t] = 0
      <3>1. rawRequest[s] = t /\ s \in Slots BY <1>4, <2>1 DEF n
      <3>2. frees[t] \in Nat BY DEF TypeOK
      <3>3. QED BY <1>2, <3>1, <3>2 DEF CalmInv
    <2>5. \A r \in Requests : frees'[r] <= 1
      BY <1>11, <2>1, <2>4 DEF CalmInv
    <2>6. ASSUME NEW r \in Requests, frees'[r] = 1
          PROVE  /\ \A u \in Requests : ~Sends(u, r)'
                 /\ ~In(niMsgs', r)
                 /\ \A x \in Slots : rawRequest'[x] = r => pc'[r] = "clear"
      <3>1. CASE frees[r] = 1
        <4>1. r # t BY <2>4, <3>1
        <4>2. QED BY <1>2, <1>8, <1>9, <2>1, <3>1, <4>1 DEF CalmInv
      <3>2. CASE frees[r] # 1
        <4>1. r = t /\ msg' = msg BY <1>11, <2>1, <2>6, <3>2
        <4>2. ~Carried(r) BY <1>6, <2>1, <4>1
        <4>3. QED BY <1>2, <1>8, <4>1, <4>2 DEF Carried, Sends
      <3>3. QED BY <3>1, <3>2
    <2>7. QED BY <2>1, <2>2, <2>3, <2>5, <2>6 DEF CalmInv
  <1>17. QED BY <1>1, <1>12, <1>13, <1>14, <1>15, <1>16

\* The slot is emptied, or was found empty, and unlocked.
LEMMA UnlocksStep ==
  ASSUME IndInv, NEW t \in Requests, ThreadUnlocks(t)
  PROVE  IndInv'
  <1> USE NiAssumption DEF IndInv
  <1>1. TypeOK' BY ThreadType DEF NiThread
  <1>2. /\ pc[t] \in {"clear", "unlock"} /\ pc' = [pc EXCEPT ![t] = "zero"]
        /\ tLock' = [tLock EXCEPT ![slot[t]] = 0]
        /\ UNCHANGED <<reqIDCounter, slot, msg, niMsgs, answers, frees, mtAt, restarts>>
    BY DEF ThreadUnlocks, msgTask, history
  <1>3. /\ \A x \in Slots : x # slot[t] => rawRequest'[x] = rawRequest[x] /\ tLock'[x] = tLock[x]
        /\ pc[t] = "clear" => rawRequest'[slot[t]] = 0
        /\ pc[t] = "unlock" => rawRequest'[slot[t]] = rawRequest[slot[t]]
        /\ \A x \in Slots, r \in Requests : rawRequest'[x] = r => rawRequest[x] = r
    BY DEF ThreadUnlocks, TypeOK, Requests
  <1>4. pc'[t] = "zero" /\ \A u \in Requests : u # t => pc'[u] = pc[u]
    BY <1>2 DEF TypeOK
  <1>5. \A u \in Requests : pc[u] \in Locked /\ slot[u] = slot[t] => u = t
    BY <1>2 DEF LockInv, Locked
  <1>6. \A r : Carried(r)' <=> Carried(r) BY <1>2 DEF Carried, Sends, In
  <1>7. LockInv' BY <1>2, <1>3, <1>4, <1>5 DEF LockInv, Locked, TypeOK
  <1>8. FreshInv' BY <1>2, <1>3, <1>4, <1>6 DEF FreshInv
  <1>9. OnceInv' BY <1>2, <1>4 DEF OnceInv, Sends, In, Distinct
  <1>10. SlotInv'
    <2> SUFFICES ASSUME NEW x \in Slots, NEW r \in Requests, rawRequest'[x] = r, Carried(r)'
                 PROVE  \E u \in Requests : pc'[u] = "clear" /\ slot'[u] = x /\ Sends(u, r)'
      BY DEF SlotInv
    <2>1. PICK u \in Requests : pc[u] = "clear" /\ slot[u] = x /\ Sends(u, r)
      BY <1>3, <1>6 DEF SlotInv
    <2>2. u # t BY <1>3, <2>1 DEF Requests
    <2>3. QED BY <1>2, <1>4, <2>1, <2>2 DEF Sends
  <1>11. CalmInv'
    <2> SUFFICES ASSUME restarts = 0, restarts' = 0 PROVE CalmInv'
      BY <1>2 DEF CalmInv
    <2>idle. mtAt' = "idle" /\ pc[t] = "clear" /\ rawRequest[slot[t]] = t
      BY <1>2 DEF CalmInv, Busy, Locked
    <2>unlocked. \A u \in Requests : pc'[u] # "unlock" BY <1>4 DEF CalmInv
    <2>own. ASSUME NEW u \in Requests, Busy(u)' PROVE rawRequest'[slot'[u]] = u
      <3>1. u # t /\ Busy(u) BY <1>4, <2>own DEF Busy, Locked
      <3>2. rawRequest[slot[u]] = u BY <3>1 DEF CalmInv
      <3>3. slot[u] # slot[t] /\ slot[u] \in Slots BY <2>idle, <3>1, <3>2 DEF TypeOK
      <3>4. QED BY <1>2, <1>3, <3>2, <3>3
    <2>once. \A r \in Requests : frees'[r] <= 1 BY <1>2 DEF CalmInv
    <2>freed. ASSUME NEW r \in Requests, frees'[r] = 1
              PROVE  /\ \A u \in Requests : ~Sends(u, r)'
                     /\ ~In(niMsgs', r)
                     /\ \A x \in Slots : rawRequest'[x] = r => pc'[r] = "clear"
      <3>1. /\ \A u \in Requests : ~Sends(u, r)
            /\ ~In(niMsgs, r)
            /\ \A x \in Slots : rawRequest[x] = r => pc[r] = "clear"
        BY <1>2, <2>freed DEF CalmInv
      <3>2. ASSUME NEW x \in Slots, rawRequest'[x] = r PROVE pc'[r] = "clear"
        <4>1. rawRequest[x] = r /\ pc[r] = "clear" BY <1>3, <3>1, <3>2
        <4>2. slot[r] = x BY <4>1 DEF FreshInv
        <4>3. r # t BY <1>3, <2>idle, <3>2, <4>2 DEF Requests
        <4>4. QED BY <1>4, <4>1, <4>3
      <3>3. QED BY <1>2, <3>1, <3>2 DEF Sends
    <2>q. QED BY <2>idle, <2>unlocked, <2>own, <2>once, <2>freed DEF CalmInv
  <1>12. QED BY <1>1, <1>7, <1>8, <1>9, <1>10, <1>11

\* The message goes from the thread to the queue.
LEMMA SendsStep ==
  ASSUME IndInv, NEW t \in Requests, ThreadSends(t)
  PROVE  IndInv'
  <1> USE NiAssumption DEF IndInv
  <1> DEFINE m == msg[t]
  <1>1. TypeOK' BY ThreadType DEF NiThread
  <1>2. /\ pc[t] = "send" /\ pc' = [pc EXCEPT ![t] = "done"]
        /\ niMsgs' = IF m.set THEN Append(niMsgs, m) ELSE niMsgs
        /\ msg' = [msg EXCEPT ![t] = NoMsg]
        /\ UNCHANGED <<rawRequest, tLock, reqIDCounter, slot, answers, frees, mtAt, restarts>>
    BY DEF ThreadSends, slotVars, history
  <1>3. /\ pc'[t] = "done" /\ \A u \in Requests : u # t => pc'[u] = pc[u]
        /\ msg'[t] = NoMsg /\ \A u \in Requests : u # t => msg'[u] = msg[u]
    BY <1>2 DEF TypeOK
  <1>4. ~msg'[t].set BY <1>3 DEF NoMsg
  <1>5. \A u, r \in Requests : Sends(u, r)' <=> u # t /\ Sends(u, r)
    BY <1>3, <1>4 DEF Sends
  <1>6. m \in Messages /\ niMsgs \in Seq(Messages) /\ (m.req = 0 \/ m.req \in Requests)
    <2>1. m \in Messages /\ niMsgs \in Seq(Messages) BY DEF TypeOK
    <2>2. m.req \in 0..MaxRequests BY <2>1 DEF Messages
    <2>3. QED BY <2>1, <2>2 DEF Requests
  <1>7. \A r \in Requests : In(niMsgs', r) <=> In(niMsgs, r) \/ Sends(t, r)
    <2>1. CASE m.set BY <1>2, <1>6, <2>1, AppendQueue DEF Sends
    <2>2. CASE ~m.set BY <1>2, <2>2 DEF Sends
    <2>3. QED BY <2>1, <2>2
  <1>8. Distinct(niMsgs')
    <2>1. CASE m.set
      <3>1. m.req = 0 \/ ~In(niMsgs, m.req) BY <1>6, <2>1 DEF OnceInv, Sends
      <3>2. QED BY <1>2, <1>6, <2>1, <3>1, AppendQueue DEF OnceInv
    <2>2. CASE ~m.set BY <1>2, <2>2 DEF OnceInv
    <2>3. QED BY <2>1, <2>2
  <1>9. \A r \in Requests : Carried(r)' <=> Carried(r)
    BY <1>2, <1>5, <1>7 DEF Carried
  <1>10. LockInv' BY <1>2, <1>3 DEF LockInv, Locked
  <1>11. FreshInv' BY <1>2, <1>3, <1>9 DEF FreshInv
  <1>12. OnceInv'
    <2>1. \A u \in Requests : msg'[u].set => pc'[u] \in {"clear", "zero", "send"}
      BY <1>3, <1>4 DEF OnceInv
    <2>2. \A r, u, v \in Requests : Sends(u, r)' /\ Sends(v, r)' => u = v
      BY <1>5 DEF OnceInv
    <2>3. \A r, u \in Requests : Sends(u, r)' => ~In(niMsgs', r) /\ answers'[r] = <<>>
      BY <1>2, <1>5, <1>7 DEF OnceInv
    <2>4. \A r \in Requests : In(niMsgs', r) => answers'[r] = <<>>
      BY <1>2, <1>7 DEF OnceInv
    <2>5. QED BY <1>2, <1>8, <2>1, <2>2, <2>3, <2>4 DEF OnceInv
  <1>13. SlotInv'
    <2> SUFFICES ASSUME NEW x \in Slots, NEW r \in Requests, rawRequest'[x] = r, Carried(r)'
                 PROVE  \E u \in Requests : pc'[u] = "clear" /\ slot'[u] = x /\ Sends(u, r)'
      BY DEF SlotInv
    <2>1. PICK u \in Requests : pc[u] = "clear" /\ slot[u] = x /\ Sends(u, r)
      BY <1>2, <1>9 DEF SlotInv
    <2>2. u # t BY <1>2, <2>1
    <2>3. QED BY <1>2, <1>3, <1>5, <2>1, <2>2
  <1>14. CalmInv'
    <2> SUFFICES ASSUME restarts = 0, restarts' = 0 PROVE CalmInv'
      BY <1>2 DEF CalmInv
    <2>idle. mtAt' = "idle" BY <1>2 DEF CalmInv
    <2>unlocked. \A u \in Requests : pc'[u] # "unlock" BY <1>3 DEF CalmInv
    <2>own. \A u \in Requests : Busy(u)' => rawRequest'[slot'[u]] = u
      BY <1>2, <1>3 DEF CalmInv, Busy, Locked
    <2>once. \A r \in Requests : frees'[r] <= 1 BY <1>2 DEF CalmInv
    <2>freed. ASSUME NEW r \in Requests, frees'[r] = 1
              PROVE  /\ \A u \in Requests : ~Sends(u, r)'
                     /\ ~In(niMsgs', r)
                     /\ \A x \in Slots : rawRequest'[x] = r => pc'[r] = "clear"
      <3>1. /\ \A u \in Requests : ~Sends(u, r)
            /\ ~In(niMsgs, r)
            /\ \A x \in Slots : rawRequest[x] = r => pc[r] = "clear"
        BY <1>2, <2>freed DEF CalmInv
      <3>2. QED BY <1>2, <1>3, <1>5, <1>7, <3>1
    <2>q. QED BY <2>idle, <2>unlocked, <2>own, <2>once, <2>freed DEF CalmInv
  <1>15. QED BY <1>1, <1>10, <1>11, <1>12, <1>13, <1>14

\* The modem is answered from the oldest message, whose payload is freed.
LEMMA InformStep ==
  ASSUME IndInv, InformNiResponse
  PROVE  IndInv'
  <1> USE NiAssumption DEF IndInv
  <1> DEFINE m == Head(niMsgs)
  <1>1. TypeOK' BY TaskType DEF Task
  <1>2. /\ niMsgs # <<>> /\ niMsgs' = Tail(niMsgs)
        /\ answers' = IF m.req = 0 THEN answers ELSE [answers EXCEPT ![m.req] = Append(@, m.resp)]
        /\ frees' = Freed(m.req)
        /\ UNCHANGED <<rawRequest, tLock, reqIDCounter, pc, slot, msg, mtAt, restarts>>
    BY DEF InformNiResponse, slotVars, threads
  <1>3. /\ m \in Messages /\ In(niMsgs, m.req)
        /\ \A r \in Requests : In(niMsgs', r) => In(niMsgs, r)
        /\ Distinct(niMsgs') /\ (m.req # 0 => ~In(niMsgs', m.req))
    BY <1>2, TailQueue DEF TypeOK, OnceInv
  <1>4. /\ m.req \in 0..MaxRequests /\ m.resp \in Responses
        /\ (m.req = 0 \/ m.req \in Requests) /\ 0 \notin Requests
    BY <1>3 DEF Messages, Requests
  <1>5. \A r \in Requests : frees'[r] = IF r = m.req THEN frees[r] + 1 ELSE frees[r]
    BY <1>2, <1>4, FreedType
  <1>6. \A r \in Requests : r # m.req => answers'[r] = answers[r]
    BY <1>2, <1>4 DEF TypeOK
  <1>7. m.req \in Requests =>
          /\ answers[m.req] = <<>> /\ Carried(m.req) /\ m.req <= reqIDCounter
          /\ \A u \in Requests : ~Sends(u, m.req)
    BY <1>3 DEF OnceInv, Carried, FreshInv
  <1>8. m.req \in Requests => Len(answers'[m.req]) = 1
    <2> SUFFICES ASSUME m.req \in Requests PROVE Len(answers'[m.req]) = 1
      OBVIOUS
    <2>1. answers'[m.req] = Append(answers[m.req], m.resp)
      BY <1>2, <1>4 DEF TypeOK
    <2>2. QED BY <1>4, <1>7, <2>1
  <1> HIDE DEF m
  <1>9. \A u, r : Sends(u, r)' <=> Sends(u, r) BY <1>2 DEF Sends
  <1>10. \A r \in Requests : Carried(r)' => Carried(r)
    BY <1>3, <1>6, <1>7, <1>9 DEF Carried
  <1>11. LockInv' BY <1>2 DEF LockInv
  <1>12. FreshInv'
    <2>1. \A r \in Requests : r > reqIDCounter => r # m.req
      <3>1. \A r \in Requests : r > reqIDCounter => ~(r <= reqIDCounter)
        BY DEF TypeOK, Requests
      <3>2. QED BY <1>7, <3>1
    <2>2. QED BY <1>2, <1>5, <1>10, <2>1 DEF FreshInv
  <1>13. OnceInv'
    <2>1. \A r, u \in Requests : Sends(u, r)' => ~In(niMsgs', r) /\ answers'[r] = <<>>
      BY <1>3, <1>6, <1>7, <1>9 DEF OnceInv
    <2>2. \A r \in Requests : In(niMsgs', r) => answers'[r] = <<>>
      BY <1>3, <1>4, <1>6 DEF OnceInv
    <2>3. \A r \in Requests : Len(answers'[r]) <= 1
      <3> TAKE r \in Requests
      <3>1. CASE r = m.req
        <4>1. Len(answers'[r]) = 1 BY <1>8, <3>1
        <4>2. QED BY <4>1
      <3>2. CASE r # m.req
        <4>1. answers'[r] = answers[r] BY <1>6, <3>2
        <4>2. QED BY <4>1 DEF OnceInv
      <3>3. QED BY <3>1, <3>2
    <2>4. QED BY <1>2, <1>3, <1>9, <2>1, <2>2, <2>3 DEF OnceInv
  <1>14. SlotInv' BY <1>2, <1>9, <1>10 DEF SlotInv
  <1>15. CalmInv'
    <2> SUFFICES ASSUME restarts = 0, restarts' = 0 PROVE CalmInv'
      BY <1>2 DEF CalmInv
    <2>1. /\ mtAt' = "idle"
          /\ \A u \in Requests : pc'[u] # "unlock" /\ (Busy(u)' => rawRequest'[slot'[u]] = u)
      BY <1>2 DEF CalmInv, Busy
    <2>2. \A r \in Requests : r = m.req => frees[r] = 0
      <3>1. \A r \in Requests : frees[r] \in Nat /\ frees[r] <= 1 BY DEF CalmInv, TypeOK
      <3>2. \A r \in Requests : r = m.req => frees[r] # 1 BY <1>3 DEF CalmInv
      <3>3. QED BY <3>1, <3>2
    <2>3. \A r \in Requests : frees'[r] <= 1 BY <1>5, <2>2 DEF CalmInv
    <2>4. ASSUME NEW r \in Requests, frees'[r] = 1
          PROVE  /\ \A u \in Requests : ~Sends(u, r)'
                 /\ ~In(niMsgs', r)
                 /\ \A x \in Slots : rawRequest'[x] = r => pc'[r] = "clear"
      <3>1. CASE r = m.req
        <4>1. \A x \in Slots : rawRequest[x] # r BY <1>7, <3>1 DEF SlotInv
        <4>2. QED BY <1>2, <1>3, <1>4, <1>7, <1>9, <3>1, <4>1
      <3>2. CASE r # m.req
        BY <1>2, <1>3, <1>5, <1>9, <2>4, <3>2 DEF CalmInv
      <3>3. QED BY <3>1, <3>2
    <2>5. QED BY <2>1, <2>3, <2>4 DEF CalmInv
  <1>16. QED BY <1>1, <1>11, <1>12, <1>13, <1>14, <1>15

\* An engine restart frees the request of a slot and empties the slot.
LEMMA ResetStep ==
  ASSUME IndInv, ResetFrees \/ ResetNulls
  PROVE  IndInv'
  <1> USE NiAssumption DEF IndInv
  <1>1. TypeOK' BY TaskType DEF Task
  <1>2. /\ mtAt # "idle"
        /\ UNCHANGED <<tLock, reqIDCounter, pc, slot, msg, niMsgs, answers, restarts>>
    BY DEF ResetFrees, ResetNulls, slotVars, threads, history
  <1>3. mtSlot \in Slots /\ rawRequest[mtSlot] \in 0..MaxRequests BY DEF TypeOK
  <1>4. \A x \in Slots, r \in Requests : rawRequest'[x] = r => rawRequest[x] = r
    <2>1. rawRequest' = rawRequest \/ rawRequest' = [rawRequest EXCEPT ![mtSlot] = 0]
      BY DEF ResetFrees, ResetNulls, slotVars
    <2>2. 0 \notin Requests BY DEF Requests
    <2>3. rawRequest \in [Slots -> 0..MaxRequests] BY DEF TypeOK
    <2>4. QED BY <1>3, <2>1, <2>2, <2>3
  <1>5. \A r \in Requests : r # rawRequest[mtSlot] => frees'[r] = frees[r]
    BY <1>3, FreedType DEF ResetFrees, ResetNulls, history
  <1>6. \A r \in Requests : r > reqIDCounter => r # rawRequest[mtSlot]
    <2>1. \A r \in Requests : r > reqIDCounter => ~(r <= reqIDCounter)
      BY DEF TypeOK, Requests
    <2>2. QED BY <1>3, <2>1 DEF FreshInv
  <1>7. \A r : Carried(r)' <=> Carried(r) BY <1>2 DEF Carried, Sends, In
  <1>8. LockInv' BY <1>2 DEF LockInv
  <1>9. FreshInv' BY <1>2, <1>4, <1>5, <1>6, <1>7 DEF FreshInv
  <1>10. OnceInv' BY <1>2 DEF OnceInv, Sends, In, Distinct
  <1>11. SlotInv' BY <1>2, <1>4, <1>7 DEF SlotInv, Sends
  <1>12. restarts' # 0 BY <1>2 DEF CalmInv
  <1>13. CalmInv' BY <1>12 DEF CalmInv
  <1>14. QED BY <1>1, <1>8, <1>9, <1>10, <1>11, <1>13

\* Every step of an NI thread.
LEMMA ThreadStep ==
  ASSUME IndInv, NEW t \in Requests, NiThread(t)
  PROVE  IndInv'
  <1> USE NiAssumption
  <1>1. TypeOK' /\ TypeOK /\ LockInv BY ThreadType DEF IndInv
  <1>2. CASE ThreadStarts(t)
    <2>1. /\ pc[t] = "lock" /\ pc' = [pc EXCEPT ![t] = "wait"]
          /\ UNCHANGED <<rawRequest, tLock, reqIDCounter, slot, msg, niMsgs, answers, frees, mtAt, restarts>>
      BY <1>2 DEF ThreadStarts, slotVars, msgTask, history
    <2>2. LockInv' BY <1>1, <2>1 DEF LockInv, Locked, TypeOK
    <2>3. QED BY <1>1, <2>1, <2>2, MoveStep
  <1>3. CASE ThreadResponded(t) \/ ThreadTimesOut(t)
    <2>1. /\ pc[t] \in {"lock", "wait"} /\ pc' = [pc EXCEPT ![t] = "check"]
          /\ tLock[slot[t]] = 0 /\ tLock' = [tLock EXCEPT ![slot[t]] = t]
          /\ UNCHANGED <<rawRequest, reqIDCounter, slot, msg, niMsgs, answers, frees, mtAt, restarts>>
      BY <1>3 DEF ThreadResponded, ThreadTimesOut, LeaveLoop, msgTask, history
    <2>2. LockInv'
      <3>1. \A u \in Requests : pc[u] \in Locked => slot[u] # slot[t]
        BY <1>1, <2>1 DEF LockInv, Requests
      <3>2. QED BY <1>1, <2>1, <3>1 DEF LockInv, TypeOK
    <2>3. QED BY <1>1, <2>1, <2>2, MoveStep
  <1>4. CASE ThreadChecks(t)
    <2>1. PICK p \in {"take", "unlock"} :
            /\ p = "unlock" => rawRequest[slot[t]] = 0
            /\ pc' = [pc EXCEPT ![t] = p]
      BY <1>4 DEF ThreadChecks
    <2>2. /\ pc[t] = "check"
          /\ UNCHANGED <<rawRequest, tLock, reqIDCounter, slot, msg, niMsgs, answers, frees, mtAt, restarts>>
      BY <1>4 DEF ThreadChecks, slotVars, msgTask, history
    <2>3. LockInv' BY <1>1, <2>1, <2>2 DEF LockInv, Locked, TypeOK
    <2>4. restarts = 0 => p # "unlock"
      BY <2>1, <2>2 DEF IndInv, CalmInv, Busy, Locked, Requests
    <2>5. QED BY <1>1, <2>1, <2>2, <2>3, <2>4, MoveStep
  <1>5. CASE ThreadZeroes(t)
    <2>1. /\ pc[t] = "zero" /\ pc' = [pc EXCEPT ![t] = "send"]
          /\ UNCHANGED <<rawRequest, tLock, reqIDCounter, slot, msg, niMsgs, answers, frees, mtAt, restarts>>
      BY <1>5 DEF ThreadZeroes, msgTask, history
    <2>2. LockInv' BY <1>1, <2>1 DEF LockInv, Locked, TypeOK
    <2>3. QED BY <1>1, <2>1, <2>2, MoveStep
  <1>6. QED BY <1>2, <1>3, <1>4, <1>5, TakesStep, UnlocksStep, SendsStep DEF NiThread
-----------------------------------------------------------------------------
(* The theorems.                                                           *)

\* Every step of the requests, the NI threads, the framework and MsgTask keeps
\* the invariant.
THEOREM Inductive == IndInv /\ [Next]_vars => IndInv'
  <1> SUFFICES ASSUME IndInv, [Next]_vars PROVE IndInv'
    OBVIOUS
  <1> USE NiAssumption
  <1>0. TypeOK /\ (restarts = 0 => mtAt = "idle") BY DEF IndInv, CalmInv
  <1>1. CASE \E r \in Requests : NiThread(r)
    BY <1>1, ThreadStep
  <1>2. CASE Framework \/ Responder
    <2>1. TypeOK' BY <1>0, <1>2, ResponderType
    <2>2. UNCHANGED <<rawRequest, tLock, reqIDCounter, pc, slot, msg, niMsgs, answers, frees, mtAt, restarts>>
      BY <1>2 DEF Framework, Responder, RespondFinds, RespondUnknown, RespondIgnores, RespondSets,
                  slotVars, threads, msgTask, history
    <2>3. QED BY <1>0, <2>1, <2>2, QuietStep
  <1>3. CASE \E s \in Slots, o \in Overrides : RequestNi(s, o)
    BY <1>3, RequestStep
  <1>4. CASE EngineDown \/ (\E b \in BOOLEAN : ReportStatus(b)) \/ ResetSignals \/ ResetReports
    <2>1. TypeOK' BY <1>0, <1>4, TaskType DEF Task
    <2>2. UNCHANGED <<rawRequest, tLock, reqIDCounter, pc, slot, msg, niMsgs, answers, frees>>
      BY <1>4 DEF EngineDown, ReportStatus, ResetSignals, ResetReports,
                  slotVars, threads, msgTask, history
    <2>3. restarts' = 0 => restarts = 0 /\ mtAt' = "idle"
      <3>1. CASE EngineDown
        <4>1. restarts \in Nat BY <1>0 DEF TypeOK
        <4>2. restarts' # 0 BY <3>1, <4>1 DEF EngineDown
        <4>3. QED BY <4>2
      <3>2. CASE \E b \in BOOLEAN : ReportStatus(b)
        BY <3>2 DEF ReportStatus, msgTask, history
      <3>3. CASE ResetSignals \/ ResetReports
        <4>1. mtAt # "idle" /\ restarts' = restarts
          BY <3>3 DEF ResetSignals, ResetReports, history
        <4>2. QED BY <1>0, <4>1
      <3>4. QED BY <1>4, <3>1, <3>2, <3>3
    <2>4. QED BY <2>1, <2>2, <2>3, QuietStep
  <1>5. CASE InformNiResponse \/ ResetFrees \/ ResetNulls
    BY <1>5, InformStep, ResetStep
  <1>6. CASE UNCHANGED vars
    <2>1. TypeOK' BY <1>0, <1>6 DEF vars, slotVars, threads, responder, msgTask, history, TypeOK
    <2>2. UNCHANGED <<rawRequest, tLock, reqIDCounter, pc, slot, msg, niMsgs, answers, frees, mtAt, restarts>>
      BY <1>6 DEF vars, slotVars, threads, msgTask, history
    <2>3. QED BY <1>0, <2>1, <2>2, QuietStep
  <1>7. QED BY <1>1, <1>2, <1>3, <1>4, <1>5, <1>6 DEF Next, Modem, Task

LEMMA Always == Spec => []IndInv
  BY InitIndInv, Inductive, PTL DEF Spec

\* The slots, the threads and the messages keep their types: the ID of a request
\* never runs past the counter's bound and a message names a request or NULL.
THEOREM TypeCorrect == Spec => []TypeOK
  <1>1. IndInv => TypeOK BY DEF IndInv
  <1>2. QED BY <1>1, Always, PTL

\* loc_eng_ni_respond(), the timeout of ni_thread_proc() and any number of engine
\* restarts never make MsgTask answer the modem twice for one request.
THEOREM OneAnswerHolds == Spec => []OneAnswer
  <1>1. IndInv => OneAnswer BY DEF IndInv, OnceInv, OneAnswer
  <1>2. QED BY <1>1, Always, PTL

\* As long as the engine is not restarted a slot has at most one NI thread.
THEOREM OneThreadHolds == Spec => []OneThread
  <1>1. IndInv => OneThread BY DEF IndInv, CalmInv, OneThread
  <1>2. QED BY <1>1, Always, PTL

\* As long as the engine is not restarted no payload is freed twice, whichever of
\* the thread and the message's destructor frees it.
THEOREM FreedOnceHolds == Spec => []FreedOnce
  <1>1. IndInv => FreedOnce BY DEF IndInv, CalmInv, FreedOnce
  <1>2. QED BY <1>1, Always, PTL

\* Until the first restart a slot has one thread and a payload is freed once, for any
\* number of requests (loc_eng_ni.cpp).
THEOREM OnceUntilRestartHolds == Spec => []OnceUntilRestart
  BY OneThreadHolds, FreedOnceHolds, PTL DEF OnceUntilRestart
=============================================================================
