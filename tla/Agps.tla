-------------------------------- MODULE Agps --------------------------------
(***************************************************************************)
(* The AGPS data-connection state machines of the GPS HAL                  *)
(* (gps/loc_api/libloc_api_50001/loc_eng_agps.cpp): the clients of one     *)
(* network interface (NIF) subscribe to it, the machine asks the provider  *)
(* for the NIF and tells the clients what became of it.                    *)
(*                                                                         *)
(* kind says which machine: "ATL" is agnss_nif and internet_nif, "WIFI"   *)
(* is wifi_nif, "DS" is ds_nif (DSStateMachine, emergency SUPL).  All the  *)
(* handlers run in the adapter's MsgTask, one at a time; the provider (the *)
(* Android connectivity service, or the data service client for "DS") is   *)
(* external: it answers what it is asked in order, but later.              *)
(***************************************************************************)
EXTENDS Integers, Sequences

CONSTANTS
  Kinds,        \* the kinds of machine: "ATL", "WIFI" and "DS", or some of them
  Subscribers,  \* subscriber IDs (connection handles, sender IDs)
  MaxRetries,   \* DSStateMachine::MAX_START_DATA_CALL_RETRIES
  MaxMsgs,      \* bound on messages to and from the provider
  MaxTimers     \* bound on running retry timers and their messages

ASSUME AgpsAssumption ==
  /\ Kinds \subseteq {"ATL", "WIFI", "DS"}
  /\ MaxRetries \in Nat /\ MaxMsgs \in Nat /\ MaxTimers \in Nat

VARIABLES
  kind,         \* the class of the machine and of its subscribers; never changes
  mStatePtr,    \* AgpsStateMachine::mStatePtr
  mSubscribers, \* AgpsStateMachine::mSubscribers
  mIsInactive,  \* the subscribers in the list whose mIsInactive is set
  mRetries,     \* DSStateMachine::mRetries
  timers,       \* retry timers that are running
  retryMsgs,    \* LocEngRequestSuplEs messages posted by retryCallback()
  client,       \* what each client believes, from the answers it got
  requests,     \* callbacks to the provider that it has not handled
  events,       \* the provider's answers in the MsgTask queue
  nif           \* external: the provider holds the NIF open or not

dsVars   == <<mRetries, timers, retryMsgs>>
listVars == <<mSubscribers, mIsInactive>>
vars     == <<kind, mStatePtr, listVars, dsVars, client, requests, events, nif>>

States == {"Released", "Pending", "Acquired", "Releasing"}
Views  == {"idle", "waiting", "granted", "closing", "fallback"}

Init ==
  /\ kind \in Kinds
  /\ mStatePtr = "Released"
  /\ mSubscribers = {} /\ mIsInactive = {}
  /\ mRetries = 0 /\ timers = 0 /\ retryMsgs = <<>>
  /\ client = [c \in Subscribers |-> "idle"]
  /\ requests = <<>> /\ events = <<>>
  /\ nif = "closed"

-----------------------------------------------------------------------------
(* Subscriber.                                                             *)

\* waitForCloseComplete(), and mEnforceSingleSubscriber of loc_eng_agps_init().
WaitForCloseComplete    == kind # "ATL"
EnforceSingleSubscriber == kind = "WIFI"

ActiveSubscribers == mSubscribers \ mIsInactive

\* notifyRsrcStatus(): what a client believes once told of a status.  The DS
\* client that is denied is handed to agnss_nif (informStatus() and requestATL());
\* on a release it is told nothing, only the data call is closed.
Told(view, status) ==
  CASE status = "GRANTED"     -> "granted"
    [] status = "UNSUBSCRIBE" -> IF kind = "WIFI" THEN "closing" ELSE "idle"
    [] status = "DENIED"      -> IF kind = "DS" THEN "fallback" ELSE "idle"
    [] status = "RELEASED"    -> IF kind = "DS" THEN view ELSE "idle"

\* notifySubscribers() to the subscribers in S, starting from the views v.
Notify(v, S, status) == [c \in Subscribers |-> IF c \in S THEN Told(v[c], status) ELSE v[c]]

\* informStatus(RSRC_DENIED) resets mRetries.
NotifyDenied(v, S) ==
  /\ client' = Notify(v, S, "DENIED")
  /\ mRetries' = IF S = {} THEN mRetries ELSE 0

-----------------------------------------------------------------------------
(* Requests to the provider.                                               *)

\* sendRsrcRequest(GPS_RELEASE_AGPS_DATA_CONN)
SendRelease(active) ==
  requests' = IF active = {} \/ kind = "DS" THEN Append(requests, "RELEASE") ELSE requests

\* Mutant of SendRequest: it asks only when nobody is active.
SendRequestIfNone(active, v, ok) ==
  /\ ok
  /\ requests' = IF active = {} THEN Append(requests, "REQUEST") ELSE requests
  /\ client' = v
  /\ UNCHANGED <<mRetries, timers>>

\* sendRsrcRequest(GPS_REQUEST_AGPS_DATA_CONN) with the subscribers in active and
\* the clients' views v: ok when it returns 0.  A data call that cannot be started
\* is retried after a delay as long as the engine is only busy, unless the timer
\* cannot be started; a return value nobody expected is logged and nobody is told;
\* otherwise one active subscriber (the first in the list, whose order is left out)
\* is denied and falls back.
SendRequest(active, v, ok) ==
  \/ /\ ok
     /\ requests' = IF active # {} \/ kind = "DS" THEN Append(requests, "REQUEST") ELSE requests
     /\ client' = v
     /\ UNCHANGED <<mRetries, timers>>
  \/ /\ kind = "DS" /\ ~ok
     /\ mRetries < MaxRetries
     /\ mRetries' = mRetries + 1
     /\ \/ timers + Len(retryMsgs) < MaxTimers /\ timers' = timers + 1
        \/ UNCHANGED timers
     /\ client' = v
     /\ UNCHANGED requests
  \/ /\ kind = "DS" /\ ~ok
     /\ client' = v
     /\ UNCHANGED <<requests, mRetries, timers>>
  \/ /\ kind = "DS" /\ ~ok
     /\ \E s \in active : NotifyDenied(v, {s})
     /\ UNCHANGED <<requests, timers>>

-----------------------------------------------------------------------------
(* subscribeRsrc()                                                         *)

\* A client asks for the NIF: the first half of every Subscribe action.
Asks(c) ==
  /\ client[c] \in {"idle", "closing"}
  /\ Len(requests) < MaxMsgs
  /\ UNCHANGED retryMsgs
Asked(c) == [client EXCEPT ![c] = "waiting"]

\* DSStateMachine's retry asks again on behalf of a client.
AsksAgain(c) ==
  /\ retryMsgs # <<>> /\ Head(retryMsgs) = c
  /\ Len(requests) < MaxMsgs
  /\ retryMsgs' = Tail(retryMsgs)

\* mEnforceSingleSubscriber: the new subscriber is denied on the spot.
SubscribeSingle(c) ==
  /\ Asks(c)
  /\ EnforceSingleSubscriber /\ mSubscribers # {}
  /\ UNCHANGED <<mStatePtr, listVars, mRetries, timers, client, requests, events, nif, kind>>

\* onRsrcEvent(RSRC_SUBSCRIBE) in the current state; v are the clients' views.
OnSubscribe(c, v) ==
  /\ ~(EnforceSingleSubscriber /\ mSubscribers # {})
  /\ mSubscribers' = mSubscribers \cup {c}
  /\ \/ /\ mStatePtr = "Released"
        /\ \E ok \in BOOLEAN :
             /\ SendRequest((mSubscribers \cup {c}) \ mIsInactive, v, ok)
             /\ mStatePtr' = IF ok THEN "Pending" ELSE "Released"
     \/ /\ mStatePtr \in {"Pending", "Releasing"}
        /\ client' = v
        /\ UNCHANGED <<mStatePtr, mRetries, timers, requests>>
     \/ /\ mStatePtr = "Acquired"
        /\ client' = Notify(v, {c}, "GRANTED")
        /\ UNCHANGED <<mStatePtr, mRetries, timers, requests>>
  /\ UNCHANGED <<mIsInactive, events, nif, kind>>

Subscribe(c) == Asks(c) /\ OnSubscribe(c, Asked(c))

\* LocEngRequestSuplEs::proc() for the message of a retry.
Resubscribe(c) == AsksAgain(c) /\ OnSubscribe(c, client)

-----------------------------------------------------------------------------
(* unsubscribeRsrc()                                                       *)

\* LocEngReleaseATL::proc() when no machine knows the client: atlCloseStatus().
UnsubscribeUnknown(c) ==
  /\ client[c] \in {"waiting", "granted"}
  /\ c \notin mSubscribers
  /\ client' = [client EXCEPT ![c] = "idle"]
  /\ UNCHANGED <<mStatePtr, listVars, dsVars, requests, events, nif, kind>>

\* onRsrcEvent(RSRC_UNSUBSCRIBE) in the released state: the list is left alone.
UnsubscribeReleased(c) ==
  /\ client[c] \in {"waiting", "granted"}
  /\ c \in mSubscribers
  /\ mStatePtr = "Released"
  /\ client' = Notify(client, {c}, "UNSUBSCRIBE")
  /\ UNCHANGED <<mStatePtr, listVars, dsVars, requests, events, nif, kind>>

\* onRsrcEvent(RSRC_UNSUBSCRIBE) in the other states: the subscriber turns
\* inactive or leaves, and the NIF is released when nobody active is left.
Unsubscribe(c) ==
  /\ client[c] \in {"waiting", "granted"}
  /\ c \in mSubscribers
  /\ mStatePtr # "Released"
  /\ Len(requests) < MaxMsgs
  /\ IF WaitForCloseComplete
       THEN mIsInactive' = mIsInactive \cup {c} /\ UNCHANGED mSubscribers
       ELSE mSubscribers' = mSubscribers \ {c} /\ UNCHANGED mIsInactive
  /\ client' = Notify(client, {c}, "UNSUBSCRIBE")
  /\ LET active == mSubscribers' \ mIsInactive' IN
     /\ mStatePtr' = CASE mSubscribers' = {} -> "Released"
                       [] mSubscribers' # {} /\ active = {} -> "Releasing"
                       [] OTHER -> mStatePtr
     /\ IF active = {} /\ mStatePtr # "Releasing"
          THEN SendRelease(active)
          ELSE UNCHANGED requests
  /\ UNCHANGED <<dsVars, events, nif, kind>>

-----------------------------------------------------------------------------
(* onRsrcEvent() of the provider's answers.                                *)

\* The next answer in the MsgTask queue is e.
Receives(e) == events # <<>> /\ Head(events) = e /\ events' = Tail(events)

\* Mutant of OnGranted: nobody is told.
OnGrantedSilent ==
  /\ Receives("GRANTED")
  /\ mStatePtr' = IF mStatePtr = "Pending" THEN "Acquired" ELSE mStatePtr
  /\ UNCHANGED <<listVars, dsVars, client, requests, nif, kind>>

OnGranted ==
  /\ Receives("GRANTED")
  /\ IF mStatePtr = "Pending"
       THEN /\ mStatePtr' = "Acquired"
            /\ client' = Notify(client, ActiveSubscribers, "GRANTED")
       ELSE UNCHANGED <<mStatePtr, client>>
  /\ UNCHANGED <<listVars, dsVars, requests, nif, kind>>

\* Mutant of DenyAll: postNotifyDelete is false.
DenyAllKept ==
  /\ mStatePtr = "Pending"
  /\ mStatePtr' = "Released"
  /\ NotifyDenied(client, mSubscribers)
  /\ UNCHANGED <<listVars, timers, retryMsgs, requests>>

\* RSRC_DENIED in the pending state, also DSStateMachine's reading of RSRC_RELEASED.
DenyAll ==
  /\ mStatePtr = "Pending"
  /\ mStatePtr' = "Released"
  /\ mSubscribers' = {} /\ mIsInactive' = {}
  /\ NotifyDenied(client, mSubscribers)
  /\ UNCHANGED <<timers, retryMsgs, requests>>

\* RSRC_RELEASED or RSRC_DENIED in the releasing state: the inactive leave; what
\* became of the request for those who are active is not looked at.
OnReleasing(status) ==
  /\ mStatePtr = "Releasing"
  /\ Len(requests) < MaxMsgs
  /\ mSubscribers' = ActiveSubscribers /\ mIsInactive' = {}
  /\ LET v == Notify(client, mIsInactive, status) IN
     IF ActiveSubscribers = {}
       THEN /\ mStatePtr' = "Released"
            /\ client' = v
            /\ UNCHANGED <<requests, mRetries, timers>>
       ELSE /\ mStatePtr' = "Pending"
            /\ \E ok \in BOOLEAN : SendRequest(ActiveSubscribers, v, ok)
  /\ UNCHANGED retryMsgs

OnReleased ==
  /\ Receives("RELEASED")
  /\ \/ /\ mStatePtr = "Acquired"
        /\ mStatePtr' = "Released"
        /\ mSubscribers' = {} /\ mIsInactive' = {}
        /\ client' = Notify(client, mSubscribers, "RELEASED")
        /\ UNCHANGED <<dsVars, requests>>
     \/ OnReleasing("RELEASED")
     \/ kind = "DS" /\ DenyAll
     \/ /\ mStatePtr = "Released" \/ (mStatePtr = "Pending" /\ kind # "DS")
        /\ UNCHANGED <<mStatePtr, listVars, dsVars, client, requests>>
  /\ UNCHANGED <<nif, kind>>

OnDenied ==
  /\ Receives("DENIED")
  /\ \/ DenyAll
     \/ OnReleasing("DENIED")
     \/ /\ mStatePtr \in {"Released", "Acquired"}
        /\ UNCHANGED <<mStatePtr, listVars, dsVars, client, requests>>
  /\ UNCHANGED <<nif, kind>>

-----------------------------------------------------------------------------
(* DSStateMachine::retryCallback(), in the timer thread.                   *)

RetryCallback ==
  /\ timers > 0
  /\ timers' = timers - 1
  /\ \/ \E s \in ActiveSubscribers : retryMsgs' = Append(retryMsgs, s)
     \/ ActiveSubscribers = {} /\ UNCHANGED retryMsgs
  /\ UNCHANGED <<mStatePtr, listVars, mRetries, client, requests, events, nif, kind>>

\* A client that fell back is done with agnss_nif, which finds it first.
FallbackDone(c) ==
  /\ client[c] = "fallback"
  /\ client' = [client EXCEPT ![c] = "idle"]
  /\ UNCHANGED <<mStatePtr, listVars, dsVars, requests, events, nif, kind>>

\* loc_eng_handle_engine_up(): the modem, and the ATL clients in it, start over;
\* the list is emptied and the state is kept.
EngineUp ==
  /\ kind = "ATL"
  /\ mSubscribers # {}
  /\ mSubscribers' = {} /\ mIsInactive' = {}
  /\ client' = [c \in Subscribers |-> "idle"]
  /\ UNCHANGED <<mStatePtr, dsVars, requests, events, nif, kind>>

-----------------------------------------------------------------------------
(* External: the provider.                                                 *)

\* What the provider answers when it cannot open the NIF; one that is open stays so.
Failure == IF kind = "DS" THEN "RELEASED" ELSE "DENIED"

ProviderOpens ==
  /\ requests # <<>> /\ Head(requests) = "REQUEST" /\ Len(events) < MaxMsgs
  /\ requests' = Tail(requests)
  /\ \/ nif' = "open" /\ events' = Append(events, "GRANTED")
     \/ UNCHANGED nif /\ events' = Append(events, Failure)
  /\ UNCHANGED <<mStatePtr, listVars, dsVars, client, kind>>

\* The release of a NIF that is not open, which was reported as denied or released
\* before, is confirmed or not.
ProviderCloses ==
  /\ requests # <<>> /\ Head(requests) = "RELEASE" /\ Len(events) < MaxMsgs
  /\ requests' = Tail(requests)
  /\ nif' = "closed"
  /\ \/ events' = Append(events, "RELEASED")
     \/ nif = "closed" /\ UNCHANGED events
  /\ UNCHANGED <<mStatePtr, listVars, dsVars, client, kind>>

\* The connection is lost.
ProviderLoses ==
  /\ nif = "open" /\ Len(events) < MaxMsgs
  /\ nif' = "closed"
  /\ events' = Append(events, "RELEASED")
  /\ UNCHANGED <<mStatePtr, listVars, dsVars, client, requests, kind>>

Clients  == \E c \in Subscribers : \/ Subscribe(c) \/ SubscribeSingle(c) \/ Unsubscribe(c)
                                   \/ UnsubscribeUnknown(c) \/ UnsubscribeReleased(c)
                                   \/ FallbackDone(c)
MsgTask  == \/ OnGranted \/ OnReleased \/ OnDenied
            \/ \E c \in Subscribers : Resubscribe(c)
Provider == ProviderOpens \/ ProviderCloses

Next == Clients \/ MsgTask \/ RetryCallback \/ Provider \/ ProviderLoses \/ EngineUp

Spec == Init /\ [][Next]_vars

\* The MsgTask thread, the retry timer and the provider keep working; clients
\* promise nothing.
FairSpec == Spec /\ WF_vars(MsgTask) /\ WF_vars(RetryCallback) /\ WF_vars(Provider)
-----------------------------------------------------------------------------
(* Properties.                                                             *)

TypeOK ==
  /\ kind \in Kinds
  /\ mStatePtr \in States
  /\ mSubscribers \subseteq Subscribers /\ mIsInactive \subseteq mSubscribers
  /\ mRetries \in 0..MaxRetries /\ timers \in 0..MaxTimers
  /\ retryMsgs \in Seq(Subscribers)
  /\ client \in [Subscribers -> Views]
  /\ requests \in Seq({"REQUEST", "RELEASE"})
  /\ events \in Seq({"GRANTED", "RELEASED", "DENIED"})
  /\ nif \in {"open", "closed"}

\* The list and what the clients were told agree, over any interleaving of
\* subscriptions, late answers and engine restarts: a client is in the list as
\* long as it waits for, holds or is closing the NIF, and inactive exactly while
\* it closes.
ListMatchesClients ==
  kind # "DS" => \A c \in Subscribers :
    /\ c \in mSubscribers <=> client[c] # "idle"
    /\ c \in mIsInactive <=> client[c] = "closing"

\* A client holds the NIF only in the acquired state, and nobody is kept waiting
\* there.
GrantedOnlyWhenAcquired ==
  kind # "DS" => \A c \in Subscribers :
    /\ client[c] = "granted" => mStatePtr = "Acquired"
    /\ client[c] = "waiting" => mStatePtr # "Acquired"

\* "Error: %s subscriber list not empty!!!" (loc_eng_agps.cpp:262): nobody is
\* left in the list of a released machine, where no event would ever reach it.
ReleasedIsEmpty == kind # "DS" /\ mStatePtr = "Released" => mSubscribers = {}

\* A grant comes with an interface: when the NIF of an acquired machine has gone, the
\* release that will tell so is under way, also if grants and releases of earlier
\* requests are late.
GrantHasInterface ==
  mStatePtr = "Acquired" /\ nif = "closed" => \E i \in DOMAIN events : events[i] = "RELEASED"

\* Nothing is under way between the machine and its provider.
AtRest == requests = <<>> /\ events = <<>>

\* The machine waits for its provider, and neither a request nor an answer is under
\* way.
Stuck == AtRest /\ mStatePtr \in {"Pending", "Releasing"}

\* agnss_nif and internet_nif never wait for nothing, whatever was subscribed, given
\* up or restarted while the answers were late.
NoStuckMachine == kind = "ATL" => ~Stuck

\* "no more subscribers, move to RELEASED state" (loc_eng_agps.cpp:354): wifi_nif and
\* ds_nif, which an engine restart leaves alone, request or hold the NIF for an
\* active subscriber, and release it for an inactive one.
StateMatchesList ==
  kind # "ATL" =>
    /\ mStatePtr \in {"Pending", "Acquired"} => ActiveSubscribers # {}
    /\ mStatePtr = "Releasing" => mIsInactive # {}
    /\ mStatePtr = "Released" => mIsInactive = {}

\* A client of agnss_nif, internet_nif or wifi_nif that asked for the NIF is
\* answered, or gives up.
EveryoneIsAnswered ==
  \A c \in Subscribers : kind # "DS" /\ client[c] = "waiting" ~> client[c] # "waiting"

\* The machine agrees with its clients and its interface: for ATL and WIFI the list with
\* what each client was told, for WIFI and DS the state with the list, and for all
\* three the acquired state with an interface that is there or about to be reported lost.
MachineAgrees ==
  /\ ListMatchesClients /\ GrantedOnlyWhenAcquired /\ ReleasedIsEmpty
  /\ StateMatchesList /\ GrantHasInterface
=============================================================================
