----------------------------- MODULE AgpsProofs -----------------------------
(***************************************************************************)
(* What the AGPS state machines keep true for any set of subscribers and   *)
(* any bounds: for the two kinds that talk to the connectivity service,    *)
(* the list agrees with what the clients were told; for the two kinds that *)
(* wait for a close to complete, the state agrees with the list; the ATL   *)
(* machines never wait for an answer that is not on its way; and no        *)
(* machine keeps a grant whose interface has gone.                         *)
(***************************************************************************)
EXTENDS Agps, TLAPS

\* e is in the queue q.
Has(q, e) == \E i \in 1..Len(q) : q[i] = e

\* Machines of the connectivity service: nobody falls back, nothing is retried.
ClientInv ==
  kind # "DS" =>
    /\ ListMatchesClients /\ GrantedOnlyWhenAcquired /\ ReleasedIsEmpty
    /\ retryMsgs = <<>> /\ timers = 0
    /\ \A c \in Subscribers : client[c] # "fallback"

\* The ATL subscribers do not wait for a close.
AtlInv == kind = "ATL" => mIsInactive = {} /\ mStatePtr # "Releasing"

\* A pending machine's request, or an answer that ends the wait, is under way.
PendingInv ==
  kind # "DS" /\ mStatePtr = "Pending" =>
    Has(requests, "REQUEST") \/ Has(events, "GRANTED") \/ Has(events, "DENIED")

\* Every grant in the queue is followed by a release.
ReleasedLater(q) ==
  \A i \in 1..Len(q) : q[i] = "GRANTED" => \E j \in 1..Len(q) : j > i /\ q[j] = "RELEASED"

\* What the queue says last of a NIF that has gone is that it was released, so that no
\* grant makes a machine believe in it for good.
NifInv ==
  nif = "closed" => /\ ReleasedLater(events)
                    /\ mStatePtr = "Acquired" => Has(events, "RELEASED")

IndInv ==
  /\ TypeOK
  /\ ClientInv
  /\ AtlInv
  /\ StateMatchesList
  /\ PendingInv
-----------------------------------------------------------------------------
\* Appending keeps what was there and adds the new element.
LEMMA AppendHas ==
  ASSUME NEW S, NEW q \in Seq(S), NEW m \in S
  PROVE  /\ Append(q, m) \in Seq(S)
         /\ Has(Append(q, m), m)
         /\ \A e \in S : Has(q, e) => Has(Append(q, m), e)
  <1>1. /\ Append(q, m) \in Seq(S) /\ Len(q) \in Nat
        /\ Len(Append(q, m)) = Len(q) + 1
        /\ \A i \in 1..Len(q) : Append(q, m)[i] = q[i]
        /\ Append(q, m)[Len(q) + 1] = m
    OBVIOUS
  <1>2. QED BY <1>1 DEF Has

\* Taking the head keeps everything else.
LEMMA TailHas ==
  ASSUME NEW S, NEW q \in Seq(S), q # <<>>
  PROVE  /\ Tail(q) \in Seq(S) /\ Head(q) \in S
         /\ \A e \in S : Has(q, e) /\ Head(q) # e => Has(Tail(q), e)
  <1>1. /\ Tail(q) \in Seq(S) /\ Head(q) \in S /\ Head(q) = q[1]
        /\ Len(q) \in Nat \ {0} /\ Len(Tail(q)) = Len(q) - 1
        /\ \A i \in 1..Len(Tail(q)) : Tail(q)[i] = q[i + 1]
    OBVIOUS
  <1>2. ASSUME NEW e \in S, NEW i \in 1..Len(q), q[i] = e, q[1] # e
        PROVE  Has(Tail(q), e)
    <2>1. i # 1 /\ i - 1 \in 1..Len(Tail(q)) /\ Tail(q)[i - 1] = q[i]
      BY <1>1, <1>2
    <2>2. QED BY <2>1, <1>2 DEF Has
  <1>3. QED BY <1>1, <1>2 DEF Has

\* Notifications map views to views and touch only those notified.
LEMMA NotifyFacts ==
  ASSUME NEW v \in [Subscribers -> Views], NEW S \in SUBSET Subscribers,
         NEW status \in {"GRANTED", "UNSUBSCRIBE", "DENIED", "RELEASED"}
  PROVE  /\ Notify(v, S, status) \in [Subscribers -> Views]
         /\ \A c \in Subscribers : c \notin S => Notify(v, S, status)[c] = v[c]
         /\ \A c \in S : Notify(v, S, status)[c] = Told(v[c], status)
  <1>1. \A c \in Subscribers : Told(v[c], status) \in Views
    BY DEF Told, Views
  <1>2. QED BY <1>1 DEF Notify

LEMMA InitIndInv == Init => IndInv
  <1> SUFFICES ASSUME Init PROVE IndInv
    OBVIOUS
  <1> USE AgpsAssumption DEF Init
  <1>1. client \in [Subscribers -> Views] BY DEF Views
  <1>2. TypeOK BY <1>1 DEF TypeOK, States
  <1>3. ClientInv
    BY DEF ClientInv, ListMatchesClients, GrantedOnlyWhenAcquired, ReleasedIsEmpty
  <1>4. AtlInv /\ StateMatchesList /\ PendingInv
    BY DEF AtlInv, StateMatchesList, PendingInv
  <1>5. QED BY <1>2, <1>3, <1>4 DEF IndInv

\* sendRsrcRequest() keeps the types, whatever it returns; for the machines of the
\* connectivity service it returns 0 and puts the request under way.
LEMMA SendRequestFacts ==
  ASSUME TypeOK, NEW active \in SUBSET Subscribers, NEW v \in [Subscribers -> Views],
         NEW ok \in BOOLEAN, SendRequest(active, v, ok)
  PROVE  /\ requests' \in Seq({"REQUEST", "RELEASE"})
         /\ client' \in [Subscribers -> Views]
         /\ mRetries' \in 0..MaxRetries
         /\ timers' \in 0..MaxTimers
         /\ kind # "DS" => ok /\ client' = v /\ timers' = timers
         /\ kind # "DS" /\ active # {} => Has(requests', "REQUEST")
  <1> USE AgpsAssumption
  <1>1. CASE /\ ok
             /\ requests' = IF active # {} \/ kind = "DS" THEN Append(requests, "REQUEST")
                            ELSE requests
             /\ client' = v
             /\ UNCHANGED <<mRetries, timers>>
    <2>1. requests \in Seq({"REQUEST", "RELEASE"}) BY DEF TypeOK
    <2>2. /\ Append(requests, "REQUEST") \in Seq({"REQUEST", "RELEASE"})
          /\ Has(Append(requests, "REQUEST"), "REQUEST")
      BY <2>1, AppendHas
    <2>3. QED BY <1>1, <2>1, <2>2 DEF TypeOK
  <1>2. CASE /\ kind = "DS" /\ ~ok
             /\ mRetries < MaxRetries
             /\ mRetries' = mRetries + 1
             /\ \/ timers + Len(retryMsgs) < MaxTimers /\ timers' = timers + 1
                \/ UNCHANGED timers
             /\ client' = v
             /\ UNCHANGED requests
    <2>1. Len(retryMsgs) \in Nat BY DEF TypeOK
    <2>2. mRetries' \in 0..MaxRetries /\ timers' \in 0..MaxTimers
      BY <1>2, <2>1 DEF TypeOK
    <2>3. QED BY <1>2, <2>2 DEF TypeOK
  <1>3. CASE /\ kind = "DS" /\ ~ok
             /\ \E s \in active : NotifyDenied(v, {s})
             /\ UNCHANGED <<requests, timers>>
    <2>1. PICK s \in active : NotifyDenied(v, {s})
      BY <1>3
    <2>2. client' \in [Subscribers -> Views]
      BY <2>1, NotifyFacts DEF NotifyDenied
    <2>3. mRetries' \in 0..MaxRetries
      BY <2>1 DEF NotifyDenied, TypeOK
    <2>4. QED BY <1>3, <2>2, <2>3 DEF TypeOK
  <1>4. CASE /\ kind = "DS" /\ ~ok
             /\ client' = v
             /\ UNCHANGED <<requests, mRetries, timers>>
    BY <1>4 DEF TypeOK
  <1>5. QED BY <1>1, <1>2, <1>3, <1>4 DEF SendRequest
-----------------------------------------------------------------------------
(* The steps.                                                              *)

\* A new subscriber, or the retry of an old one.
LEMMA SubscribeStep ==
  ASSUME IndInv, NEW c \in Subscribers, Subscribe(c) \/ Resubscribe(c)
  PROVE  IndInv'
  <1> USE AgpsAssumption DEF IndInv
  <1>1. PICK v \in [Subscribers -> Views] :
          /\ OnSubscribe(c, v)
          /\ kind # "DS" => /\ client[c] \in {"idle", "closing"}
                            /\ v = Asked(c)
                            /\ retryMsgs' = <<>>
          /\ retryMsgs' \in Seq(Subscribers)
    <2>1. CASE Subscribe(c)
      <3>1. Asked(c) \in [Subscribers -> Views]
        BY DEF Asked, TypeOK, Views
      <3>2. QED BY <2>1, <3>1 DEF Subscribe, Asks, TypeOK, ClientInv
    <2>2. CASE Resubscribe(c)
      <3>1. client \in [Subscribers -> Views] /\ retryMsgs # <<>> /\ retryMsgs' = Tail(retryMsgs)
        BY <2>2 DEF Resubscribe, AsksAgain, TypeOK
      <3>2. retryMsgs' \in Seq(Subscribers)
        BY <3>1, TailHas DEF TypeOK
      <3>3. QED BY <2>2, <3>1, <3>2 DEF Resubscribe, ClientInv
    <2>3. QED BY <2>1, <2>2
  <1> USE <1>1 DEF OnSubscribe
  <1>2. /\ mSubscribers' = mSubscribers \cup {c} /\ mSubscribers' \in SUBSET Subscribers
        /\ mIsInactive' = mIsInactive /\ mIsInactive' \subseteq mSubscribers'
        /\ UNCHANGED <<events, nif>>
    BY DEF TypeOK
  <1>3. kind # "DS" => client[c] = "idle" /\ v[c] = "waiting"
                       /\ \A d \in Subscribers : d # c => v[d] = client[d]
    BY DEF ClientInv, ListMatchesClients, AtlInv, EnforceSingleSubscriber, Asked, TypeOK
  <1>4. CASE mStatePtr = "Released"
    <2>1. PICK ok \in BOOLEAN :
            /\ SendRequest((mSubscribers \cup {c}) \ mIsInactive, v, ok)
            /\ mStatePtr' = IF ok THEN "Pending" ELSE "Released"
      BY <1>4
    <2>2. (mSubscribers \cup {c}) \ mIsInactive \in SUBSET Subscribers
      BY <1>2
    <2>3. /\ requests' \in Seq({"REQUEST", "RELEASE"})
          /\ client' \in [Subscribers -> Views]
          /\ mRetries' \in 0..MaxRetries
          /\ timers' \in 0..MaxTimers
          /\ kind # "DS" => ok /\ client' = v /\ timers' = timers
          /\ kind # "DS" /\ (mSubscribers \cup {c}) \ mIsInactive # {} => Has(requests', "REQUEST")
      BY <2>1, <2>2, SendRequestFacts
    <2>4. TypeOK' BY <1>2, <2>1, <2>3 DEF TypeOK, States
    <2>5. kind # "DS" => mIsInactive = {} /\ mSubscribers = {}
      BY <1>4, <1>2 DEF ClientInv, ReleasedIsEmpty, TypeOK
    <2>6. ClientInv'
      BY <1>2, <1>3, <1>4, <2>1, <2>3, <2>5
      DEF ClientInv, ListMatchesClients, GrantedOnlyWhenAcquired, ReleasedIsEmpty
    <2>7. AtlInv' BY <1>2, <2>1 DEF AtlInv
    <2>8. StateMatchesList'
      BY <1>2, <1>4, <2>1 DEF StateMatchesList, ActiveSubscribers
    <2>9. PendingInv' BY <2>3, <2>5 DEF PendingInv
    <2>10. QED BY <2>4, <2>6, <2>7, <2>8, <2>9
  <1>5. CASE /\ mStatePtr \in {"Pending", "Releasing"}
             /\ client' = v
             /\ UNCHANGED <<mStatePtr, mRetries, timers, requests>>
    <2>types. TypeOK' BY <1>2, <1>5 DEF TypeOK
    <2>clients. ClientInv'
      BY <1>2, <1>3, <1>5
      DEF ClientInv, ListMatchesClients, GrantedOnlyWhenAcquired, ReleasedIsEmpty, TypeOK
    <2>atl. AtlInv' BY <1>2, <1>5 DEF AtlInv
    <2>list. StateMatchesList'
      BY <1>2, <1>5 DEF StateMatchesList, ActiveSubscribers
    <2>pending. PendingInv' BY <1>2, <1>5 DEF PendingInv
    <2>q. QED BY <2>types, <2>clients, <2>atl, <2>list, <2>pending
  <1>6. CASE /\ mStatePtr = "Acquired"
             /\ client' = Notify(v, {c}, "GRANTED")
             /\ UNCHANGED <<mStatePtr, mRetries, timers, requests>>
    <2>1. /\ client' \in [Subscribers -> Views]
          /\ client'[c] = "granted"
          /\ \A d \in Subscribers : d # c => client'[d] = v[d]
      BY <1>6, NotifyFacts DEF Told
    <2>2. TypeOK' BY <1>2, <1>6, <2>1 DEF TypeOK
    <2>3. ClientInv'
      BY <1>2, <1>3, <1>6, <2>1
      DEF ClientInv, ListMatchesClients, GrantedOnlyWhenAcquired, ReleasedIsEmpty, TypeOK
    <2>4. AtlInv' BY <1>2, <1>6 DEF AtlInv
    <2>5. StateMatchesList'
      BY <1>2, <1>6 DEF StateMatchesList, ActiveSubscribers
    <2>6. PendingInv' BY <1>6 DEF PendingInv
    <2>7. QED BY <2>2, <2>3, <2>4, <2>5, <2>6
  <1>7. QED BY <1>4, <1>5, <1>6

\* A step that leaves everything but one client's view: the view of a client that
\* is in no list, of a DS machine, or none at all.
LEMMA ViewStep ==
  ASSUME IndInv, UNCHANGED <<mStatePtr, listVars, dsVars, requests, events, nif, kind>>,
         client' \in [Subscribers -> Views],
         kind # "DS" => client' = client
  PROVE  IndInv'
  <1> USE DEF IndInv, listVars, dsVars
  <1>1. TypeOK' BY DEF TypeOK
  <1>2. ClientInv'
    BY DEF ClientInv, ListMatchesClients, GrantedOnlyWhenAcquired, ReleasedIsEmpty
  <1>3. AtlInv' /\ PendingInv' BY DEF AtlInv, PendingInv
  <1>4. StateMatchesList' BY DEF StateMatchesList, ActiveSubscribers
  <1>5. QED BY <1>1, <1>2, <1>3, <1>4

\* What a client does that asks nothing of the provider.
LEMMA ClientViewStep ==
  ASSUME IndInv, NEW c \in Subscribers,
         \/ SubscribeSingle(c) \/ UnsubscribeUnknown(c)
         \/ UnsubscribeReleased(c) \/ FallbackDone(c)
  PROVE  IndInv'
  <1> USE DEF IndInv
  <1>1. UNCHANGED <<mStatePtr, listVars, dsVars, requests, events, nif, kind>>
    BY DEF SubscribeSingle, UnsubscribeUnknown, UnsubscribeReleased, FallbackDone, Asks, dsVars
  <1>2. client' \in [Subscribers -> Views]
    <2>1. CASE UnsubscribeReleased(c)
      BY <2>1, NotifyFacts DEF UnsubscribeReleased, TypeOK
    <2>2. CASE SubscribeSingle(c) \/ UnsubscribeUnknown(c) \/ FallbackDone(c)
      BY <2>2 DEF SubscribeSingle, UnsubscribeUnknown, FallbackDone, TypeOK, Views
    <2>3. QED BY <2>1, <2>2
  <1>3. kind # "DS" => client' = client
    <2> SUFFICES ASSUME kind # "DS" PROVE client' = client
      OBVIOUS
    <2>1. CASE SubscribeSingle(c) BY <2>1 DEF SubscribeSingle
    <2>2. CASE UnsubscribeUnknown(c)
      BY <2>2 DEF UnsubscribeUnknown, ClientInv, ListMatchesClients
    <2>3. CASE UnsubscribeReleased(c)
      BY <2>3 DEF UnsubscribeReleased, ClientInv, ReleasedIsEmpty
    <2>4. CASE FallbackDone(c)
      BY <2>4 DEF FallbackDone, ClientInv
    <2>5. QED BY <2>1, <2>2, <2>3, <2>4
  <1>4. QED BY <1>1, <1>2, <1>3, ViewStep

\* A subscriber leaves or turns inactive.
LEMMA UnsubscribeStep ==
  ASSUME IndInv, NEW c \in Subscribers, Unsubscribe(c)
  PROVE  IndInv'
  <1> USE AgpsAssumption DEF IndInv, Unsubscribe
  <1>1. /\ IF kind # "ATL"
             THEN mIsInactive' = mIsInactive \cup {c} /\ mSubscribers' = mSubscribers
             ELSE mSubscribers' = mSubscribers \ {c} /\ mIsInactive' = mIsInactive
        /\ mSubscribers' \in SUBSET Subscribers /\ mIsInactive' \in SUBSET Subscribers
        /\ mIsInactive' \subseteq mSubscribers'
    BY DEF WaitForCloseComplete, TypeOK, AtlInv
  <1>2. /\ client' \in [Subscribers -> Views]
        /\ client'[c] = Told(client[c], "UNSUBSCRIBE")
        /\ \A d \in Subscribers : d # c => client'[d] = client[d]
    <2>1. {c} \in SUBSET Subscribers /\ client \in [Subscribers -> Views]
      BY DEF TypeOK
    <2>2. client' = Notify(client, {c}, "UNSUBSCRIBE")
      OBVIOUS
    <2>3. "UNSUBSCRIBE" \in {"GRANTED", "UNSUBSCRIBE", "DENIED", "RELEASED"}
      OBVIOUS
    <2> HIDE DEF Unsubscribe
    <2>4. QED BY ONLY <2>1, <2>2, <2>3, NotifyFacts, c \in Subscribers
  <1>3. /\ mStatePtr' \in States
        /\ mStatePtr' = "Released" <=> mSubscribers' = {}
        /\ mSubscribers' # {} /\ mSubscribers' \ mIsInactive' = {} => mStatePtr' = "Releasing"
        /\ mSubscribers' \ mIsInactive' # {} => mStatePtr' = mStatePtr
    BY DEF TypeOK, States
  <1>4. /\ requests' \in Seq({"REQUEST", "RELEASE"})
        /\ Has(requests, "REQUEST") => Has(requests', "REQUEST")
    <2>1. requests \in Seq({"REQUEST", "RELEASE"}) BY DEF TypeOK
    <2>2. /\ Append(requests, "RELEASE") \in Seq({"REQUEST", "RELEASE"})
          /\ Has(requests, "REQUEST") => Has(Append(requests, "RELEASE"), "REQUEST")
      BY <2>1, AppendHas
    <2>3. QED BY <2>1, <2>2 DEF SendRelease
  <1>5. TypeOK' BY <1>1, <1>2, <1>3, <1>4 DEF TypeOK, dsVars
  <1>6. ClientInv'
    <2> SUFFICES ASSUME kind # "DS", kind' = kind PROVE ClientInv'
      BY DEF ClientInv
    <2>1. client'[c] = IF kind = "WIFI" THEN "closing" ELSE "idle"
      BY <1>2 DEF Told
    <2>0. kind # "ATL" <=> kind = "WIFI"
      BY DEF TypeOK
    <2>2. ListMatchesClients'
      BY <1>1, <1>2, <2>0, <2>1 DEF ClientInv, ListMatchesClients
    <2>3. GrantedOnlyWhenAcquired'
      <3> SUFFICES ASSUME NEW d \in Subscribers, client'[d] \in {"granted", "waiting"}
                   PROVE  /\ client'[d] = "granted" => mStatePtr' = "Acquired"
                          /\ client'[d] = "waiting" => mStatePtr' # "Acquired"
        BY DEF GrantedOnlyWhenAcquired
      <3>1. d # c BY <2>1
      <3>2. d \in mSubscribers' /\ d \notin mIsInactive'
        BY <2>2 DEF ListMatchesClients
      <3>3. mStatePtr' = mStatePtr
        BY <1>3, <3>2
      <3>4. QED BY <1>2, <3>1, <3>3 DEF ClientInv, GrantedOnlyWhenAcquired
    <2>4. ReleasedIsEmpty' BY <1>3 DEF ReleasedIsEmpty
    <2>5. QED BY <1>2, <2>1, <2>2, <2>3, <2>4 DEF ClientInv, dsVars
  <1>7. AtlInv' BY <1>1, <1>3 DEF AtlInv, TypeOK
  <1>8. StateMatchesList'
    BY <1>1, <1>3 DEF StateMatchesList, ActiveSubscribers
  <1>9. PendingInv'
    BY <1>1, <1>3, <1>4 DEF PendingInv, States
  <1>10. QED BY <1>5, <1>6, <1>7, <1>8, <1>9

\* Taking an answer from the queue.
LEMMA ReceivesFacts ==
  ASSUME TypeOK, NEW e \in {"GRANTED", "RELEASED", "DENIED"}, Receives(e)
  PROVE  /\ events' \in Seq({"GRANTED", "RELEASED", "DENIED"})
         /\ \A f \in {"GRANTED", "RELEASED", "DENIED"} :
              f # e /\ Has(events, f) => Has(events', f)
  <1>1. events \in Seq({"GRANTED", "RELEASED", "DENIED"})
    BY DEF TypeOK
  <1>2. events # <<>> /\ Head(events) = e /\ events' = Tail(events)
    BY DEF Receives
  <1>3. Tail(events) \in Seq({"GRANTED", "RELEASED", "DENIED"})
    BY <1>1, <1>2
  <1>4. QED BY <1>1, <1>2, <1>3, TailHas

LEMMA OnGrantedStep == ASSUME IndInv, OnGranted PROVE IndInv'
  <1> USE AgpsAssumption DEF IndInv, OnGranted, listVars, dsVars
  <1>1. events' \in Seq({"GRANTED", "RELEASED", "DENIED"})
        /\ (Has(events, "DENIED") => Has(events', "DENIED"))
    BY ReceivesFacts
  <1>2. CASE mStatePtr = "Pending"
    <2>1. ActiveSubscribers \in SUBSET Subscribers /\ client \in [Subscribers -> Views]
      BY DEF TypeOK, ActiveSubscribers
    <2>2. /\ client' \in [Subscribers -> Views]
          /\ \A c \in ActiveSubscribers : client'[c] = "granted"
          /\ \A c \in Subscribers : c \notin ActiveSubscribers => client'[c] = client[c]
      BY <1>2, <2>1, NotifyFacts DEF Told
    <2>3. TypeOK' BY <1>1, <1>2, <2>2 DEF TypeOK, States
    <2>4. ClientInv'
      BY <1>2, <2>2 DEF ClientInv, ListMatchesClients, GrantedOnlyWhenAcquired, ReleasedIsEmpty,
                        ActiveSubscribers
    <2>5. AtlInv' /\ PendingInv' BY <1>2 DEF AtlInv, PendingInv
    <2>6. StateMatchesList'
      BY <1>2 DEF StateMatchesList, ActiveSubscribers
    <2>7. QED BY <2>3, <2>4, <2>5, <2>6
  <1>3. CASE mStatePtr # "Pending"
    <2>1. TypeOK' BY <1>1, <1>3 DEF TypeOK
    <2>2. ClientInv'
      BY <1>3 DEF ClientInv, ListMatchesClients, GrantedOnlyWhenAcquired, ReleasedIsEmpty
    <2>3. AtlInv' /\ PendingInv' BY <1>3 DEF AtlInv, PendingInv
    <2>4. StateMatchesList'
      BY <1>3 DEF StateMatchesList, ActiveSubscribers
    <2>5. QED BY <2>1, <2>2, <2>3, <2>4
  <1>4. QED BY <1>2, <1>3

\* Everyone leaves the list: denied, or released by force.
LEMMA EveryoneLeaves ==
  ASSUME IndInv, NEW status \in {"DENIED", "RELEASED"},
         mStatePtr' = "Released", mSubscribers' = {}, mIsInactive' = {},
         client' = Notify(client, mSubscribers, status),
         mRetries' \in {0, mRetries}, UNCHANGED <<timers, retryMsgs, requests, nif, kind>>,
         events' \in Seq({"GRANTED", "RELEASED", "DENIED"})
  PROVE  IndInv'
  <1> USE AgpsAssumption DEF IndInv
  <1>1. /\ client' \in [Subscribers -> Views]
        /\ \A c \in mSubscribers : client'[c] = Told(client[c], status)
        /\ \A c \in Subscribers : c \notin mSubscribers => client'[c] = client[c]
    BY NotifyFacts DEF TypeOK
  <1>2. TypeOK' BY <1>1 DEF TypeOK, States
  <1>3. kind # "DS" => \A c \in Subscribers : client'[c] = "idle"
    BY <1>1 DEF Told, ClientInv, ListMatchesClients
  <1>4. ClientInv'
    BY <1>3 DEF ClientInv, ListMatchesClients, GrantedOnlyWhenAcquired, ReleasedIsEmpty
  <1>5. AtlInv' /\ PendingInv' BY DEF AtlInv, PendingInv
  <1>6. StateMatchesList' BY DEF StateMatchesList
  <1>7. QED BY <1>2, <1>4, <1>5, <1>6

\* The releasing state, which only subscribers that wait for a close reach.
LEMMA OnReleasingStep ==
  ASSUME IndInv, NEW status \in {"DENIED", "RELEASED"}, OnReleasing(status), UNCHANGED <<nif, kind>>,
         events' \in Seq({"GRANTED", "RELEASED", "DENIED"})
  PROVE  IndInv'
  <1> USE AgpsAssumption DEF IndInv, OnReleasing
  <1> DEFINE v == Notify(client, mIsInactive, status)
  <1>1. kind # "ATL" BY DEF AtlInv
  <1>2. /\ ActiveSubscribers \in SUBSET Subscribers
        /\ mSubscribers' = ActiveSubscribers /\ mIsInactive' = {}
        /\ retryMsgs' = retryMsgs
    BY DEF TypeOK, ActiveSubscribers
  <1>3. /\ v \in [Subscribers -> Views]
        /\ \A c \in mIsInactive : v[c] = Told(client[c], status)
        /\ \A c \in Subscribers : c \notin mIsInactive => v[c] = client[c]
    BY NotifyFacts DEF TypeOK
  <1>4. kind # "DS" => \A c \in Subscribers : v[c] = IF c \in mIsInactive THEN "idle" ELSE client[c]
    BY <1>3 DEF Told
  <1> HIDE DEF v
  <1>5. CASE ActiveSubscribers = {}
    <2>1. mStatePtr' = "Released" /\ client' = v /\ UNCHANGED <<requests, mRetries, timers>>
      BY <1>5 DEF v
    <2>2. TypeOK' BY <1>2, <1>3, <1>5, <2>1 DEF TypeOK, States
    <2>3. ClientInv'
      BY <1>2, <1>4, <1>5, <2>1 DEF ClientInv, ListMatchesClients, GrantedOnlyWhenAcquired,
                                    ReleasedIsEmpty, ActiveSubscribers
    <2>4. AtlInv' /\ PendingInv' BY <1>1, <2>1 DEF AtlInv, PendingInv
    <2>5. StateMatchesList' BY <1>2, <2>1 DEF StateMatchesList
    <2>6. QED BY <2>2, <2>3, <2>4, <2>5
  <1>6. CASE ActiveSubscribers # {}
    <2>1. PICK ok \in BOOLEAN : SendRequest(ActiveSubscribers, v, ok)
      BY <1>6 DEF v
    <2>2. mStatePtr' = "Pending"
      BY <1>6
    <2>3. /\ requests' \in Seq({"REQUEST", "RELEASE"})
          /\ client' \in [Subscribers -> Views]
          /\ mRetries' \in 0..MaxRetries
          /\ timers' \in 0..MaxTimers
          /\ kind # "DS" => ok /\ client' = v /\ timers' = timers
          /\ kind # "DS" => Has(requests', "REQUEST")
      BY <1>2, <1>3, <1>6, <2>1, SendRequestFacts
    <2>4. TypeOK' BY <1>2, <2>2, <2>3 DEF TypeOK, States
    <2>5. ClientInv'
      BY <1>2, <1>4, <2>2, <2>3 DEF ClientInv, ListMatchesClients, GrantedOnlyWhenAcquired,
                                    ReleasedIsEmpty, ActiveSubscribers
    <2>6. AtlInv' /\ PendingInv' BY <1>1, <2>3 DEF AtlInv, PendingInv
    <2>7. StateMatchesList' BY <1>2, <1>6, <2>2 DEF StateMatchesList, ActiveSubscribers
    <2>8. QED BY <2>4, <2>5, <2>6, <2>7
  <1>7. QED BY <1>5, <1>6

LEMMA OnReleasedStep == ASSUME IndInv, OnReleased PROVE IndInv'
  <1> USE AgpsAssumption DEF IndInv, OnReleased, listVars, dsVars
  <1>1. /\ events' \in Seq({"GRANTED", "RELEASED", "DENIED"})
        /\ Has(events, "GRANTED") => Has(events', "GRANTED")
        /\ Has(events, "DENIED") => Has(events', "DENIED")
    BY ReceivesFacts
  <1>2. CASE /\ mStatePtr = "Acquired"
             /\ mStatePtr' = "Released"
             /\ mSubscribers' = {} /\ mIsInactive' = {}
             /\ client' = Notify(client, mSubscribers, "RELEASED")
             /\ UNCHANGED <<dsVars, requests>>
    BY <1>1, <1>2, EveryoneLeaves
  <1>3. CASE OnReleasing("RELEASED")
    BY <1>1, <1>3, OnReleasingStep
  <1>4. CASE kind = "DS" /\ DenyAll
    BY <1>1, <1>4, EveryoneLeaves DEF DenyAll, NotifyDenied
  <1>5. CASE UNCHANGED <<mStatePtr, listVars, dsVars, client, requests>>
    <2>1. TypeOK' BY <1>1, <1>5 DEF TypeOK
    <2>2. ClientInv'
      BY <1>5 DEF ClientInv, ListMatchesClients, GrantedOnlyWhenAcquired, ReleasedIsEmpty
    <2>3. AtlInv' /\ PendingInv' BY <1>1, <1>5 DEF AtlInv, PendingInv
    <2>4. StateMatchesList'
      BY <1>5 DEF StateMatchesList, ActiveSubscribers
    <2>5. QED BY <2>1, <2>2, <2>3, <2>4
  <1>6. QED BY <1>2, <1>3, <1>4, <1>5

LEMMA OnDeniedStep == ASSUME IndInv, OnDenied PROVE IndInv'
  <1> USE AgpsAssumption DEF IndInv, OnDenied, listVars, dsVars
  <1>1. events' \in Seq({"GRANTED", "RELEASED", "DENIED"})
    BY ReceivesFacts
  <1>2. CASE DenyAll
    BY <1>1, <1>2, EveryoneLeaves DEF DenyAll, NotifyDenied
  <1>3. CASE OnReleasing("DENIED")
    BY <1>1, <1>3, OnReleasingStep
  <1>4. CASE /\ mStatePtr \in {"Released", "Acquired"}
             /\ UNCHANGED <<mStatePtr, listVars, dsVars, client, requests>>
    <2>1. TypeOK' BY <1>1, <1>4 DEF TypeOK
    <2>2. ClientInv'
      BY <1>4 DEF ClientInv, ListMatchesClients, GrantedOnlyWhenAcquired, ReleasedIsEmpty
    <2>3. AtlInv' /\ PendingInv' BY <1>4 DEF AtlInv, PendingInv
    <2>4. StateMatchesList'
      BY <1>4 DEF StateMatchesList, ActiveSubscribers
    <2>5. QED BY <2>1, <2>2, <2>3, <2>4
  <1>5. QED BY <1>2, <1>3, <1>4

\* The retry timer, the engine restart and the provider.
LEMMA RetryCallbackStep == ASSUME IndInv, RetryCallback PROVE IndInv'
  <1> USE AgpsAssumption DEF IndInv, RetryCallback, listVars
  <1>1. timers' \in 0..MaxTimers BY DEF TypeOK
  <1>2. retryMsgs' \in Seq(Subscribers)
    <2>1. CASE \E s \in ActiveSubscribers : retryMsgs' = Append(retryMsgs, s)
      BY <2>1 DEF TypeOK, ActiveSubscribers
    <2>2. CASE UNCHANGED retryMsgs
      BY <2>2 DEF TypeOK
    <2>3. QED BY <2>1, <2>2
  <1>3. kind = "DS" BY DEF ClientInv, TypeOK
  <1>4. TypeOK' BY <1>1, <1>2 DEF TypeOK
  <1>5. ClientInv' /\ AtlInv' /\ PendingInv' BY <1>3 DEF ClientInv, AtlInv, PendingInv
  <1>6. StateMatchesList' BY DEF StateMatchesList, ActiveSubscribers
  <1>7. QED BY <1>4, <1>5, <1>6

LEMMA EngineUpStep == ASSUME IndInv, EngineUp PROVE IndInv'
  <1> USE AgpsAssumption DEF IndInv, EngineUp, dsVars
  <1>1. client' \in [Subscribers -> Views] BY DEF Views
  <1>2. TypeOK' BY <1>1 DEF TypeOK
  <1>3. ClientInv'
    BY DEF ClientInv, ListMatchesClients, GrantedOnlyWhenAcquired, ReleasedIsEmpty
  <1>4. AtlInv' /\ PendingInv' BY DEF AtlInv, PendingInv
  <1>5. StateMatchesList' BY DEF StateMatchesList
  <1>6. QED BY <1>2, <1>3, <1>4, <1>5

LEMMA ProviderStep ==
  ASSUME IndInv, ProviderOpens \/ ProviderCloses \/ ProviderLoses
  PROVE  IndInv'
  <1> USE AgpsAssumption DEF IndInv, listVars, dsVars
  <1>1. /\ UNCHANGED <<kind, mStatePtr, mSubscribers, mIsInactive, mRetries, timers, retryMsgs, client>>
        /\ nif' \in {"open", "closed"}
    BY DEF ProviderOpens, ProviderCloses, ProviderLoses, TypeOK
  <1>2. /\ requests \in Seq({"REQUEST", "RELEASE"})
        /\ events \in Seq({"GRANTED", "RELEASED", "DENIED"})
    BY DEF TypeOK
  <1>3. \A e \in {"GRANTED", "RELEASED", "DENIED"} :
          /\ Append(events, e) \in Seq({"GRANTED", "RELEASED", "DENIED"})
          /\ Has(Append(events, e), e)
          /\ \A f \in {"GRANTED", "RELEASED", "DENIED"} : Has(events, f) => Has(Append(events, e), f)
    BY <1>2, AppendHas
  <1>4. requests # <<>> => /\ Tail(requests) \in Seq({"REQUEST", "RELEASE"})
                           /\ Head(requests) # "REQUEST" /\ Has(requests, "REQUEST")
                                => Has(Tail(requests), "REQUEST")
    BY <1>2, TailHas
  <1>5. /\ requests' \in Seq({"REQUEST", "RELEASE"})
        /\ events' \in Seq({"GRANTED", "RELEASED", "DENIED"})
        /\ \A f \in {"GRANTED", "RELEASED", "DENIED"} : Has(events, f) => Has(events', f)
        /\ kind # "DS" /\ Has(requests, "REQUEST") /\ ~Has(requests', "REQUEST")
             => Has(events', "GRANTED") \/ Has(events', "DENIED")
    <2>1. CASE ProviderOpens
      BY <1>2, <1>3, <1>4, <2>1 DEF ProviderOpens, Failure
    <2>2. CASE ProviderCloses
      BY <1>2, <1>3, <1>4, <2>2 DEF ProviderCloses
    <2>3. CASE ProviderLoses
      BY <1>2, <1>3, <2>3 DEF ProviderLoses
    <2>4. QED BY <2>1, <2>2, <2>3
  <1>6. TypeOK' BY <1>1, <1>5 DEF TypeOK
  <1>7. ClientInv'
    BY <1>1 DEF ClientInv, ListMatchesClients, GrantedOnlyWhenAcquired, ReleasedIsEmpty
  <1>8. AtlInv' /\ PendingInv' BY <1>1, <1>5 DEF AtlInv, PendingInv
  <1>9. StateMatchesList' BY <1>1 DEF StateMatchesList, ActiveSubscribers
  <1>10. QED BY <1>6, <1>7, <1>8, <1>9

-----------------------------------------------------------------------------
(* The theorems.                                                           *)

\* Every reachable state of a machine of any kind satisfies the invariant.
THEOREM Inductive == Spec => []IndInv
  <1>1. ASSUME IndInv, [Next]_vars PROVE IndInv'
    <2>1. CASE Clients
      BY <1>1, <2>1, SubscribeStep, UnsubscribeStep, ClientViewStep DEF Clients
    <2>2. CASE MsgTask
      BY <1>1, <2>2, SubscribeStep, OnGrantedStep, OnReleasedStep, OnDeniedStep DEF MsgTask
    <2>3. CASE RetryCallback \/ EngineUp
      BY <1>1, <2>3, RetryCallbackStep, EngineUpStep
    <2>4. CASE Provider \/ ProviderLoses
      BY <1>1, <2>4, ProviderStep DEF Provider
    <2>5. CASE UNCHANGED vars
      BY <1>1, <2>5, ViewStep DEF vars, IndInv, TypeOK
    <2>6. QED BY <1>1, <2>1, <2>2, <2>3, <2>4, <2>5 DEF Next
  <1>2. QED BY InitIndInv, <1>1, PTL DEF Spec

\* Every machine keeps its types; in particular DSStateMachine never counts past
\* MAX_START_DATA_CALL_RETRIES.
THEOREM TypeCorrect == Spec => []TypeOK
  <1>1. IndInv => TypeOK BY DEF IndInv
  <1>2. QED BY Inductive, <1>1, PTL

\* The list of agnss_nif, internet_nif and wifi_nif agrees with what the clients
\* were told, for any number of subscribers and however late the answers are.
THEOREM ListMatchesClientsHolds == Spec => []ListMatchesClients
  <1>1. IndInv => ListMatchesClients BY DEF IndInv, ClientInv, ListMatchesClients
  <1>2. QED BY Inductive, <1>1, PTL

\* In those machines a client holds the NIF only in the acquired state.
THEOREM GrantedOnlyWhenAcquiredHolds == Spec => []GrantedOnlyWhenAcquired
  <1>1. IndInv => GrantedOnlyWhenAcquired BY DEF IndInv, ClientInv, GrantedOnlyWhenAcquired
  <1>2. QED BY Inductive, <1>1, PTL

\* And nobody is left in the list of a released one.
THEOREM ReleasedIsEmptyHolds == Spec => []ReleasedIsEmpty
  <1>1. IndInv => ReleasedIsEmpty BY DEF IndInv, ClientInv, ReleasedIsEmpty
  <1>2. QED BY Inductive, <1>1, PTL

\* The state of wifi_nif and ds_nif agrees with the list.
THEOREM StateMatchesListHolds == Spec => []StateMatchesList
  <1>1. IndInv => StateMatchesList BY DEF IndInv
  <1>2. QED BY Inductive, <1>1, PTL

\* agnss_nif and internet_nif never wait for an answer that is not under way.
THEOREM NoStuckMachineHolds == Spec => []NoStuckMachine
  <1>1. IndInv => NoStuckMachine
    BY DEF IndInv, TypeOK, States, AtlInv, PendingInv, NoStuckMachine, Stuck, AtRest, Has
  <1>2. QED BY Inductive, <1>1, PTL

\* A step of a machine or its clients that takes no answer, and acquires nothing.
LEMMA NifKept ==
  ASSUME NifInv, UNCHANGED <<events, nif>>, mStatePtr' = "Acquired" => mStatePtr = "Acquired"
  PROVE  NifInv'
  BY DEF NifInv, ReleasedLater, Has

\* A step that takes the answer e: only a grant acquires, and a release ends it.
LEMMA NifReceives ==
  ASSUME TypeOK, NifInv, NEW e \in {"GRANTED", "RELEASED", "DENIED"}, Receives(e), nif' = nif,
         mStatePtr' = "Acquired" => \/ e = "GRANTED"
                                    \/ e # "RELEASED" /\ mStatePtr = "Acquired"
  PROVE  NifInv'
  <1> SUFFICES ASSUME nif = "closed"
               PROVE  /\ ReleasedLater(events')
                      /\ mStatePtr' = "Acquired" => Has(events', "RELEASED")
    BY DEF NifInv
  <1>1. /\ events \in Seq({"GRANTED", "RELEASED", "DENIED"}) /\ events # <<>>
        /\ events[1] = e /\ events' = Tail(events)
    BY DEF TypeOK, Receives
  <1>2. /\ Len(events) \in Nat /\ Len(events') = Len(events) - 1
        /\ \A i \in 1..Len(events') : events'[i] = events[i + 1]
    BY <1>1
  <1>3. ReleasedLater(events)
    BY DEF NifInv
  <1>4. ReleasedLater(events')
    <2>1. SUFFICES ASSUME NEW i \in 1..Len(events'), events'[i] = "GRANTED"
                   PROVE  \E j \in 1..Len(events') : j > i /\ events'[j] = "RELEASED"
      BY DEF ReleasedLater
    <2>2. i + 1 \in 1..Len(events) /\ events[i + 1] = "GRANTED"
      BY <1>2, <2>1
    <2>3. PICK j \in 1..Len(events) : j > i + 1 /\ events[j] = "RELEASED"
      BY <1>3, <2>2 DEF ReleasedLater
    <2>4. j - 1 \in 1..Len(events') /\ j - 1 > i /\ events'[j - 1] = "RELEASED"
      BY <1>2, <2>3
    <2>5. QED BY <2>4
  <1>5. ASSUME mStatePtr' = "Acquired" PROVE Has(events', "RELEASED")
    <2>1. PICK j \in 1..Len(events) : events[j] = "RELEASED"
      <3>1. CASE e = "GRANTED"
        BY <1>1, <1>2, <1>3, <3>1 DEF ReleasedLater
      <3>2. CASE e # "GRANTED"
        BY <1>5, <3>2 DEF NifInv, Has
      <3>3. QED BY <3>1, <3>2
    <2>2. e # "RELEASED"
      BY <1>5
    <2>3. j - 1 \in 1..Len(events') /\ events'[j - 1] = "RELEASED"
      BY <1>1, <1>2, <2>1, <2>2
    <2>4. QED BY <2>3 DEF Has
  <1>6. QED BY <1>4, <1>5

\* The provider appends a grant only when it has opened the NIF.
LEMMA NifProvider ==
  ASSUME TypeOK, NifInv, ProviderOpens \/ ProviderCloses \/ ProviderLoses
  PROVE  NifInv'
  <1> SUFFICES ASSUME nif' = "closed"
               PROVE  /\ ReleasedLater(events')
                      /\ mStatePtr' = "Acquired" => Has(events', "RELEASED")
    BY DEF NifInv
  <1>0. mStatePtr' = mStatePtr /\ events \in Seq({"GRANTED", "RELEASED", "DENIED"})
    BY DEF ProviderOpens, ProviderCloses, ProviderLoses, TypeOK
  <1>1. \A e \in {"RELEASED", "DENIED"} :
          /\ Len(Append(events, e)) = Len(events) + 1 /\ Len(events) \in Nat
          /\ Append(events, e)[Len(events) + 1] = e
          /\ \A i \in 1..Len(events) : Append(events, e)[i] = events[i]
    BY <1>0
  <1>2. CASE nif = "closed" /\ events' = Append(events, "DENIED")
    BY <1>0, <1>1, <1>2 DEF NifInv, ReleasedLater, Has
  <1>3. CASE events' = Append(events, "RELEASED")
    <2>1. /\ Len(events') = Len(events) + 1 /\ events'[Len(events) + 1] = "RELEASED"
          /\ Len(events) + 1 \in 1..Len(events')
      BY <1>1, <1>3
    <2>2. ASSUME NEW i \in 1..Len(events'), events'[i] = "GRANTED"
          PROVE  Len(events) + 1 > i
      BY <1>1, <2>1, <2>2
    <2>3. QED BY <2>1, <2>2 DEF ReleasedLater, Has
  <1>4. CASE nif = "closed" /\ events' = events
    BY <1>0, <1>4 DEF NifInv
  <1>5. nif = "closed" \/ events' = Append(events, "RELEASED")
    BY DEF ProviderOpens, ProviderCloses, ProviderLoses, TypeOK
  <1>6. events' \in {events, Append(events, "RELEASED"), Append(events, "DENIED")}
    BY DEF ProviderOpens, ProviderCloses, ProviderLoses, Failure
  <1>7. QED BY <1>2, <1>3, <1>4, <1>5, <1>6

\* Every grant in a late queue is still withdrawn when its interface has gone.
THEOREM NifInductive == Spec => []NifInv
  <1>1. Init => NifInv
    BY DEF Init, NifInv, ReleasedLater, Has
  <1>2. ASSUME TypeOK, NifInv, [Next]_vars PROVE NifInv'
    <2>1. CASE Clients
      BY <1>2, <2>1, NifKept
         DEF Clients, Subscribe, OnSubscribe, SubscribeSingle, Unsubscribe, UnsubscribeUnknown,
             UnsubscribeReleased, FallbackDone
    <2>2. CASE MsgTask
      <3>1. CASE OnGranted
        BY <1>2, <3>1, NifReceives DEF OnGranted
      <3>2. CASE OnReleased
        <4>1. Receives("RELEASED") /\ nif' = nif /\ mStatePtr' # "Acquired"
          BY <3>2 DEF OnReleased, OnReleasing, DenyAll
        <4>2. QED BY <1>2, <4>1, NifReceives
      <3>3. CASE OnDenied
        <4>1. /\ Receives("DENIED") /\ nif' = nif
              /\ mStatePtr' = "Acquired" => mStatePtr = "Acquired"
          BY <3>3 DEF OnDenied, OnReleasing, DenyAll
        <4>2. QED BY <1>2, <4>1, NifReceives
      <3>4. CASE \E c \in Subscribers : Resubscribe(c)
        BY <1>2, <3>4, NifKept DEF Resubscribe, OnSubscribe
      <3>5. QED BY <2>2, <3>1, <3>2, <3>3, <3>4 DEF MsgTask
    <2>3. CASE RetryCallback \/ EngineUp
      BY <1>2, <2>3, NifKept DEF RetryCallback, EngineUp
    <2>4. CASE Provider \/ ProviderLoses
      BY <1>2, <2>4, NifProvider DEF Provider
    <2>5. CASE UNCHANGED vars
      BY <1>2, <2>5, NifKept DEF vars
    <2>6. QED BY <1>2, <2>1, <2>2, <2>3, <2>4, <2>5 DEF Next
  <1>3. QED BY TypeCorrect, <1>1, <1>2, PTL DEF Spec

\* An acquired machine has its interface, or will be told that it has gone.
THEOREM GrantHasInterfaceHolds == Spec => []GrantHasInterface
  <1>1. TypeOK /\ NifInv => GrantHasInterface
    <2> SUFFICES ASSUME TypeOK, NifInv, mStatePtr = "Acquired", nif = "closed"
                 PROVE  \E i \in DOMAIN events : events[i] = "RELEASED"
      BY DEF GrantHasInterface
    <2>1. Has(events, "RELEASED") /\ DOMAIN events = 1..Len(events)
      BY DEF NifInv, TypeOK
    <2>2. QED BY <2>1 DEF Has
  <1>2. QED BY TypeCorrect, NifInductive, <1>1, PTL

\* The machine agrees with its clients and its interface, for any number of subscribers,
\* calls and retries: the list with what each client was told (ATL and WIFI), the state
\* with the list (WIFI and DS), and a grant with the NIF (all three).
THEOREM MachineAgreesHolds == Spec => []MachineAgrees
  <1>1. MachineAgrees <=> /\ ListMatchesClients /\ GrantedOnlyWhenAcquired /\ ReleasedIsEmpty
                          /\ StateMatchesList /\ GrantHasInterface
    BY DEF MachineAgrees
  <1>2. QED BY ListMatchesClientsHolds, GrantedOnlyWhenAcquiredHolds, ReleasedIsEmptyHolds,
               StateMatchesListHolds, GrantHasInterfaceHolds, <1>1, PTL
=============================================================================
