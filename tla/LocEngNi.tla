------------------------------ MODULE LocEngNi ------------------------------
(***************************************************************************)
(* Network-initiated (NI) location requests                                *)
(* (gps/loc_api/libloc_api_50001/loc_eng_ni.cpp): the modem asks, the user *)
(* is notified, and a thread per request waits for the user's response or  *)
(* a timeout and answers the modem.                                        *)
(*                                                                         *)
(* There are two slots, "session" and "sessionEs" (emergency SUPL), each   *)
(* with its mutex tLock and condition variable.  Three kinds of threads    *)
(* meet there: MsgTask (requests, answers, engine restarts), the framework *)
(* (loc_eng_ni_respond) and the NI threads.  rawRequest and reqID are read *)
(* and written outside tLock, so those accesses are steps of their own.    *)
(*                                                                         *)
(* A request is numbered by the reqID it is given, and its NI thread and   *)
(* its payload (rawRequest) have the same number; 0 is NULL.  A request    *)
(* that is ignored because its slot is taken changes nothing.              *)
(***************************************************************************)
EXTENDS Integers, Sequences

CONSTANTS
  MaxRequests,  \* bound on accepted requests
  MaxRestarts,  \* bound on engine restarts
  MayFailCreate, \* pthread_create() may fail
  UserSays,     \* what the user may say: GPS_NI_RESPONSE_ACCEPT, GPS_NI_RESPONSE_DENY
  Overrides     \* whether a request has GPS_NI_PRIVACY_OVERRIDE: subset of BOOLEAN

ASSUME NiAssumption ==
  /\ MaxRequests \in Nat /\ MaxRestarts \in Nat /\ MayFailCreate \in BOOLEAN
  /\ Overrides \subseteq BOOLEAN

VARIABLES
  \* the two slots (loc_eng_ni_session_s_type)
  rawRequest, reqID, respRecvd, resp,
  tLock,        \* the NI thread that holds tLock, or 0
  reqIDCounter, \* loc_eng_ni_data_s_type::reqIDCounter
  mute,         \* loc_eng_data_s_type::mute_session_state
  \* the NI threads
  pc, slot,
  msg,          \* the local variable msg: NoMsg or what it answers
  \* the framework thread, in loc_eng_ni_respond()
  rspAt, rsp,
  \* MsgTask
  mtAt, mtSlot, \* where in loc_eng_handle_engine_down() it is
  niMsgs,       \* LocEngInformNiResponse messages in its queue
  \* history
  restarts,
  said,         \* what the user answered to each notification
  answers,      \* informNiResponse() calls for each request
  frees         \* free() calls for each request

slotVars == <<rawRequest, reqID, respRecvd, resp, tLock>>
threads  == <<pc, slot, msg>>
responder == <<rspAt, rsp>>
msgTask  == <<mtAt, mtSlot, niMsgs>>
history  == <<restarts, said, answers, frees>>
vars     == <<slotVars, reqIDCounter, mute, threads, responder, msgTask, history>>

Slots     == {"session", "sessionEs"}
Requests  == 1..MaxRequests
Responses == UserSays \cup {"NORESP", "IGNORE", "none"}
NoMsg     == [req |-> 0, resp |-> "none", set |-> FALSE]
Message(r, x) == [req |-> r, resp |-> x, set |-> TRUE]
NoCall    == [slot |-> "session", resp |-> "none"]
Messages  == [req : 0..MaxRequests, resp : Responses, set : BOOLEAN]

\* loc_eng_ni_init(); resp is static data that nothing has written.
Init ==
  /\ rawRequest = [s \in Slots |-> 0] /\ reqID = [s \in Slots |-> 0]
  /\ respRecvd = [s \in Slots |-> FALSE] /\ resp = [s \in Slots |-> "none"]
  /\ tLock = [s \in Slots |-> 0]
  /\ reqIDCounter = 0 /\ mute = "NONE"
  /\ pc = [r \in Requests |-> "none"] /\ slot = [r \in Requests |-> "session"]
  /\ msg = [r \in Requests |-> NoMsg]
  /\ rspAt = "idle" /\ rsp = NoCall
  /\ mtAt = "idle" /\ mtSlot = "session" /\ niMsgs = <<>>
  /\ restarts = 0
  /\ said = [r \in Requests |-> "none"]
  /\ answers = [r \in Requests |-> <<>>]
  /\ frees = [r \in Requests |-> 0]

-----------------------------------------------------------------------------
(* loc_eng_ni_request_handler(), in MsgTask.                               *)

\* The slot a request of the kind s may take.  An ordinary request also waits for
\* the emergency one.
Available(s) ==
  /\ rawRequest[s] = 0
  /\ s = "session" => rawRequest["sessionEs"] = 0

\* A request takes its slot and its NI thread is created, or not: the result of
\* pthread_create() is only logged.  The handler runs without tLock, but nothing it
\* writes is looked at while rawRequest is NULL, so it is one step.  override: the request has GPS_NI_PRIVACY_OVERRIDE.
RequestNi(s, override) ==
  LET r == reqIDCounter + 1 IN
  /\ mtAt = "idle" /\ r \in Requests
  /\ Available(s)
  /\ rawRequest' = [rawRequest EXCEPT ![s] = r]
  /\ reqIDCounter' = r
  /\ reqID' = [reqID EXCEPT ![s] = r]
  /\ mute' = IF override THEN "WAIT" ELSE mute
  /\ slot' = [slot EXCEPT ![r] = s]
  /\ \/ pc' = [pc EXCEPT ![r] = "lock"]
     \/ MayFailCreate /\ UNCHANGED pc
  /\ UNCHANGED <<respRecvd, resp, tLock, msg, responder, msgTask, history>>

-----------------------------------------------------------------------------
(* ni_thread_proc()                                                        *)

\* The thread leaves its loop with tLock held: for a response or, with the
\* response recorded, for a timeout.
LeaveLoop(r, x) ==
  /\ tLock[slot[r]] = 0
  /\ tLock' = [tLock EXCEPT ![slot[r]] = r]
  /\ resp' = [resp EXCEPT ![slot[r]] = x]
  /\ respRecvd' = [respRecvd EXCEPT ![slot[r]] = FALSE]
  /\ pc' = [pc EXCEPT ![r] = "check"]
  /\ UNCHANGED <<rawRequest, reqID, reqIDCounter, mute, slot, msg, responder, msgTask, history>>

\* pthread_mutex_lock() and the first test of respRecvd.
ThreadStarts(r) ==
  /\ pc[r] = "lock" /\ ~respRecvd[slot[r]] /\ tLock[slot[r]] = 0
  /\ pc' = [pc EXCEPT ![r] = "wait"]
  /\ UNCHANGED <<slotVars, reqIDCounter, mute, slot, msg, responder, msgTask, history>>

\* The response is there, before the wait or in it.
ThreadResponded(r) ==
  /\ pc[r] \in {"lock", "wait"} /\ respRecvd[slot[r]]
  /\ LeaveLoop(r, resp[slot[r]])

\* Mutant of ThreadTimesOut: a wait without a deadline.
ThreadNeverTimesOut(r) ==
  /\ pc[r] = "wait" /\ respRecvd[slot[r]]
  /\ LeaveLoop(r, "NORESP")

\* ETIMEDOUT, which a response that comes before the mutex is back does not undo.
ThreadTimesOut(r) ==
  /\ pc[r] = "wait"
  /\ LeaveLoop(r, "NORESP")

\* The test of rawRequest.
ThreadChecks(r) ==
  /\ pc[r] = "check"
  /\ pc' = [pc EXCEPT ![r] = IF rawRequest[slot[r]] # 0 THEN "take" ELSE "unlock"]
  /\ UNCHANGED <<slotVars, reqIDCounter, mute, slot, msg, responder, msgTask, history>>

\* free(NULL) does nothing.
Freed(r) == IF r = 0 THEN frees ELSE [frees EXCEPT ![r] = @ + 1]

\* Mutant of ThreadTakes: the request is freed whether or not a message has it.
ThreadTakesAndFrees(r) ==
  LET s == slot[r] IN
  /\ pc[r] = "take"
  /\ pc' = [pc EXCEPT ![r] = "clear"]
  /\ msg' = [msg EXCEPT ![r] = IF resp[s] # "IGNORE" THEN Message(rawRequest[s], resp[s]) ELSE @]
  /\ frees' = Freed(rawRequest[s])
  /\ UNCHANGED <<slotVars, reqIDCounter, mute, slot, responder, msgTask, restarts, said, answers>>

\* The message is built from rawRequest, or the request is dropped.
ThreadTakes(r) ==
  LET s == slot[r] IN
  /\ pc[r] = "take"
  /\ pc' = [pc EXCEPT ![r] = "clear"]
  /\ IF resp[s] # "IGNORE"
       THEN /\ msg' = [msg EXCEPT ![r] = Message(rawRequest[s], resp[s])]
            /\ UNCHANGED frees
       ELSE /\ frees' = Freed(rawRequest[s])
            /\ UNCHANGED msg
  /\ UNCHANGED <<slotVars, reqIDCounter, mute, slot, responder, msgTask, restarts, said, answers>>

\* Mutant of ThreadUnlocks: rawRequest is kept.
ThreadUnlocksKept(r) ==
  /\ pc[r] \in {"clear", "unlock"}
  /\ tLock' = [tLock EXCEPT ![slot[r]] = 0]
  /\ pc' = [pc EXCEPT ![r] = "zero"]
  /\ UNCHANGED <<rawRequest, reqID, respRecvd, resp, reqIDCounter, mute, slot, msg, responder,
                 msgTask, history>>

\* rawRequest = NULL and pthread_mutex_unlock().
ThreadUnlocks(r) ==
  /\ pc[r] \in {"clear", "unlock"}
  /\ rawRequest' = [rawRequest EXCEPT ![slot[r]] = IF pc[r] = "clear" THEN 0 ELSE @]
  /\ tLock' = [tLock EXCEPT ![slot[r]] = 0]
  /\ pc' = [pc EXCEPT ![r] = "zero"]
  /\ UNCHANGED <<reqID, respRecvd, resp, reqIDCounter, mute, slot, msg, responder, msgTask, history>>

\* reqID = 0, after the unlock.
ThreadZeroes(r) ==
  /\ pc[r] = "zero"
  /\ reqID' = [reqID EXCEPT ![slot[r]] = 0]
  /\ pc' = [pc EXCEPT ![r] = "send"]
  /\ UNCHANGED <<rawRequest, respRecvd, resp, tLock, reqIDCounter, mute, slot, msg, responder,
                 msgTask, history>>

\* sendMsg(), if there is a message, and the thread ends.
ThreadSends(r) ==
  /\ pc[r] = "send"
  /\ niMsgs' = IF msg[r].set THEN Append(niMsgs, msg[r]) ELSE niMsgs
  /\ msg' = [msg EXCEPT ![r] = NoMsg]
  /\ pc' = [pc EXCEPT ![r] = "done"]
  /\ UNCHANGED <<slotVars, reqIDCounter, mute, slot, responder, mtAt, mtSlot, history>>

-----------------------------------------------------------------------------
(* loc_eng_ni_respond(), in the framework's thread.                        *)

\* The notification is looked up by its ID, without tLock.  Each notification is
\* answered once.
RespondFinds(r, x) ==
  /\ rspAt = "idle"
  /\ r \in 1..reqIDCounter /\ said[r] = "none"
  /\ said' = [said EXCEPT ![r] = x]
  /\ \E s \in Slots :
       /\ reqID[s] = r /\ rawRequest[s] # 0
       /\ rsp' = [slot |-> s, resp |-> x]
       /\ rspAt' = IF s = "sessionEs" /\ x = "ACCEPT" /\ rawRequest["session"] # 0
                   THEN "ignore" ELSE "set"
  /\ UNCHANGED <<slotVars, reqIDCounter, mute, threads, msgTask, restarts, answers, frees>>

\* "notif_id %d not an active session"
RespondUnknown(r, x) ==
  /\ rspAt = "idle"
  /\ r \in 1..reqIDCounter /\ said[r] = "none"
  /\ said' = [said EXCEPT ![r] = x]
  /\ \A s \in Slots : reqID[s] # r \/ rawRequest[s] = 0
  /\ UNCHANGED <<slotVars, reqIDCounter, mute, threads, responder, msgTask, restarts, answers, frees>>

\* Under the tLock of s: resp and respRecvd, and the condition is signalled.
Signal(s, x) ==
  /\ tLock[s] = 0
  /\ resp' = [resp EXCEPT ![s] = x]
  /\ respRecvd' = [respRecvd EXCEPT ![s] = TRUE]

\* The ordinary session gives way to an accepted emergency one.
RespondIgnores ==
  /\ rspAt = "ignore"
  /\ Signal("session", "IGNORE")
  /\ rspAt' = "set"
  /\ UNCHANGED <<rawRequest, reqID, tLock, reqIDCounter, mute, threads, rsp, msgTask, history>>

RespondSets ==
  /\ rspAt = "set"
  /\ Signal(rsp.slot, rsp.resp)
  /\ rspAt' = "idle" /\ rsp' = NoCall
  /\ UNCHANGED <<rawRequest, reqID, tLock, reqIDCounter, mute, threads, msgTask, history>>

-----------------------------------------------------------------------------
(* MsgTask: answers, status reports and engine restarts.                   *)

\* LocEngInformNiResponse: proc() and the destructor, which frees the payload.
InformNiResponse ==
  LET m == Head(niMsgs) IN
  /\ mtAt = "idle" /\ niMsgs # <<>>
  /\ niMsgs' = Tail(niMsgs)
  /\ answers' = IF m.req = 0 THEN answers ELSE [answers EXCEPT ![m.req] = Append(@, m.resp)]
  /\ frees' = Freed(m.req)
  /\ UNCHANGED <<slotVars, reqIDCounter, mute, threads, responder, mtAt, mtSlot, restarts, said>>

\* loc_eng_report_status(): begins when the status is SESSION_BEGIN or ENGINE_ON,
\* otherwise it is SESSION_END or ENGINE_OFF.
Muted(begins) ==
  CASE begins /\ mute = "WAIT" -> "IN_SESSION"
    [] ~begins /\ mute = "IN_SESSION" -> "NONE"
    [] OTHER -> mute

ReportStatus(begins) ==
  /\ mtAt = "idle"
  /\ mute' = Muted(begins) /\ mute' # mute
  /\ UNCHANGED <<slotVars, reqIDCounter, threads, responder, msgTask, history>>

\* loc_eng_handle_engine_down(): loc_eng_ni_reset_on_engine_restart() for the
\* emergency slot and then the ordinary one, and the status report.
EngineDown ==
  /\ mtAt = "idle" /\ restarts < MaxRestarts
  /\ restarts' = restarts + 1
  /\ mtAt' = "free" /\ mtSlot' = "sessionEs"
  /\ UNCHANGED <<slotVars, reqIDCounter, mute, threads, responder, niMsgs, said, answers, frees>>

\* After slot s: the ordinary slot is next, or the report.
NextSlot(s) ==
  /\ mtSlot' = "session"
  /\ mtAt' = IF s = "sessionEs" THEN "free" ELSE "report"

\* The test of rawRequest and free(), without tLock.
ResetFrees ==
  /\ mtAt = "free"
  /\ IF rawRequest[mtSlot] = 0
       THEN NextSlot(mtSlot) /\ UNCHANGED frees
       ELSE mtAt' = "null" /\ frees' = Freed(rawRequest[mtSlot]) /\ UNCHANGED mtSlot
  /\ UNCHANGED <<slotVars, reqIDCounter, mute, threads, responder, niMsgs, restarts, said, answers>>

\* rawRequest = NULL, without tLock.
ResetNulls ==
  /\ mtAt = "null"
  /\ rawRequest' = [rawRequest EXCEPT ![mtSlot] = 0]
  /\ mtAt' = "signal"
  /\ UNCHANGED <<reqID, respRecvd, resp, tLock, reqIDCounter, mute, threads, responder, mtSlot,
                 niMsgs, history>>

\* respRecvd is set and the thread woken, under tLock.
ResetSignals ==
  /\ mtAt = "signal"
  /\ Signal(mtSlot, resp[mtSlot])
  /\ NextSlot(mtSlot)
  /\ UNCHANGED <<rawRequest, reqID, tLock, reqIDCounter, mute, threads, responder, niMsgs, history>>

ResetReports ==
  /\ mtAt = "report"
  /\ mute' = Muted(FALSE)
  /\ mtAt' = "idle"
  /\ UNCHANGED <<slotVars, reqIDCounter, threads, responder, mtSlot, niMsgs, history>>
-----------------------------------------------------------------------------
NiThread(r) == \/ ThreadStarts(r) \/ ThreadResponded(r) \/ ThreadTimesOut(r) \/ ThreadChecks(r)
               \/ ThreadTakes(r) \/ ThreadUnlocks(r) \/ ThreadZeroes(r) \/ ThreadSends(r)
Framework == \E r \in Requests, x \in UserSays : RespondFinds(r, x) \/ RespondUnknown(r, x)
Responder == RespondIgnores \/ RespondSets
Modem     == \/ \E s \in Slots, o \in Overrides : RequestNi(s, o)
             \/ \E b \in BOOLEAN : ReportStatus(b)
             \/ EngineDown
Task      == InformNiResponse \/ ResetFrees \/ ResetNulls \/ ResetSignals \/ ResetReports

Next == \/ \E r \in Requests : NiThread(r)
        \/ Framework \/ Responder \/ Modem \/ Task

Spec == Init /\ [][Next]_vars

\* Every thread that can run does, and waits end (the timed wait has a deadline);
\* the modem and the user promise nothing.
FairSpec ==
  /\ Spec
  /\ \A r \in Requests : WF_vars(NiThread(r))
  /\ WF_vars(Responder) /\ WF_vars(Task)
-----------------------------------------------------------------------------
(* Properties.                                                             *)

\* Where an NI thread is inside ni_thread_proc()'s critical section.
Locked == {"check", "take", "clear", "unlock"}

TypeOK ==
  /\ rawRequest \in [Slots -> 0..MaxRequests] /\ reqID \in [Slots -> 0..MaxRequests]
  /\ respRecvd \in [Slots -> BOOLEAN] /\ resp \in [Slots -> Responses]
  /\ tLock \in [Slots -> 0..MaxRequests]
  /\ reqIDCounter \in 0..MaxRequests /\ mute \in {"NONE", "WAIT", "IN_SESSION"}
  /\ pc \in [Requests -> Locked \cup {"none", "lock", "wait", "zero", "send", "done"}]
  /\ slot \in [Requests -> Slots] /\ msg \in [Requests -> Messages]
  /\ rspAt \in {"idle", "ignore", "set"} /\ rsp \in [slot : Slots, resp : Responses]
  /\ mtAt \in {"idle", "free", "null", "signal", "report"} /\ mtSlot \in Slots
  /\ niMsgs \in Seq(Messages)
  /\ restarts \in 0..MaxRestarts
  /\ said \in [Requests -> UserSays \cup {"none"}]
  /\ answers \in [Requests -> Seq(Responses)]
  /\ frees \in [Requests -> Nat]

\* The modem is answered at most once for each request, however user, timeout and
\* engine restarts race.
OneAnswer == \A r \in Requests : Len(answers[r]) <= 1

\* As long as the engine was not restarted the payload of a request is freed at
\* most once: by the thread or by the message's destructor.  (A restart frees it
\* without tLock, while the thread may have taken it: loc_eng_ni.cpp:283.)
FreedOnce == restarts = 0 => \A r \in Requests : frees[r] <= 1

\* "the goal is to wake up ni_thread_proc and let it exit" (loc_eng_ni.cpp:287):
\* until a restart, which only wakes the thread up, at most one NI thread at a time
\* waits on a slot or looks at its request.
Busy(r) == pc[r] \in Locked \cup {"lock", "wait"}
OneThread ==
  restarts = 0 => \A r, q \in Requests : Busy(r) /\ Busy(q) /\ slot[r] = slot[q] => r = q

\* "spawn a thread at this point to timeout to clear up the notification status"
\* (loc_eng_ni.cpp:173): every request for which the thread could be created is
\* answered or dropped in the end and leaves its slot, with restarts or without.
EveryRequestFreed ==
  \A r \in Requests :
    pc[r] # "none" ~> frees[r] > 0 /\ \A s \in Slots : rawRequest[s] # r

\* Until a restart resets the slots, a slot has one thread and a payload is freed once.
OnceUntilRestart == OneThread /\ FreedOnce
=============================================================================
