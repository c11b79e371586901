---------------------------- MODULE Camera3Device ----------------------------
(***************************************************************************)
(* One open camera device of the camera service: Camera3Device with its    *)
(* output streams, its RequestThread and its StatusTracker, between the    *)
(* client that calls it and the HAL that answers.                          *)
(*                                                                         *)
(* Four threads take part: the client's (mInterfaceLock makes the calls    *)
(* one at a time), the request thread, the tracker's thread and those of   *)
(* the HAL's callbacks.  What a thread does under one lock is one step;    *)
(* a wait for a status gives mLock up, so a call that waits is two steps.  *)
(*                                                                         *)
(* The HAL keeps its contract: the shutters and the metadata of frames     *)
(* come in order, one of each for a frame or an error in their place, and  *)
(* one buffer for each stream.  The HAL does not manage buffers, there is  *)
(* no input stream, no batch, no session key and no partial result; the    *)
(* fences of returned buffers have signalled.                              *)
(***************************************************************************)
EXTENDS Integers, Sequences, FiniteSets, SequencesExt, FiniteSetsExt

CONSTANTS
  MaxStreams,   \* bound on the streams that are created
  MaxBuffers,   \* camera_stream::max_buffers: what the HAL may hold of a stream
  Burst,        \* the number of requests of a repeating burst
  MaxFrames,    \* bound on the frame numbers
  MaxCalls,     \* bound on the client's calls
  Calls,        \* the calls that the client makes
  MaxFaults,    \* bound on what goes wrong outside the device
  None

ASSUME DeviceAssumption ==
  {MaxStreams, MaxBuffers, Burst, MaxFrames, MaxCalls} \subseteq Nat \ {0} /\ MaxFaults \in Nat

VARIABLES
  dev,      \* the members of Camera3Device and what its threads share with it
  thr,      \* the request thread
  trk,      \* the tracker's thread
  owes,     \* external: what the HAL owes for each frame
  gone,     \* external: the streams whose consumer is gone
  hist      \* history: what the properties speak of

vars == <<dev, thr, trk, owes, gone, hist>>

Streams == 1..MaxStreams
Frames  == 0..(MaxFrames - 1)
NoId    == -1
InFlightId == 0      \* the components of the tracker that are always there
RequestId  == 1

NoStream == [state |-> "none", id |-> NoId, out |-> 0]
NoEntry  == [left |-> -1, shutter |-> FALSE, meta |-> FALSE, skip |-> FALSE, pendingMeta |-> FALSE,
             pending |-> {}, strategy |-> "CACHE"]
Nothing  == [shutter |-> FALSE, meta |-> FALSE, bufs |-> {}, error |-> FALSE]
Untold   == [of |-> 0, answers |-> <<>>, bad |-> {}, lost |-> {}]

\* The states after initialize() has started the threads.
Init ==
  /\ dev = [status |-> "UNCONFIGURED", needConfig |-> TRUE, fake |-> FALSE, stream |-> [s \in Streams |-> NoStream],
            inflight |-> [f \in Frames |-> NoEntry], nextShutter |-> 0, nextResult |-> 0,
            queue |-> <<>>, repeating |-> <<>>, repeatingLast |-> None, frame |-> 0,
            doPause |-> FALSE, paused |-> TRUE, exit |-> FALSE,
            states |-> [i \in {InFlightId, RequestId} |-> "IDLE"], nextId |-> 2, changes |-> <<>>,
            pc |-> "idle", seen |-> {}, cause |-> None, told |-> [f \in Frames |-> Untold]]
  /\ thr = [pc |-> "top", next |-> None, frame |-> 0, got |-> {}]
  /\ trk = [device |-> "IDLE", transitions |-> <<>>, refused |-> FALSE, ended |-> FALSE]
  /\ owes = [f \in Frames |-> Nothing] /\ gone = {}
  /\ hist = [calls |-> 0, faults |-> 0, promised |-> <<>>, ended |-> <<>>, odd |-> {}, busy |-> {}]

Fault  == hist.faults < MaxFaults
Failed == [hist EXCEPT !.faults = @ + 1]

-----------------------------------------------------------------------------
(* The status of the device and the tracker's queue                         *)

UpdateStatus(d, st) == [d EXCEPT !.status = st, !.seen = IF d.pc = "idle" THEN @ ELSE @ \cup {st}]

\* setErrorStateLockedV: once; the request thread is paused and the client told.
SetErr(d, why) ==
  IF d.status \in {"ERROR", "UNINITIALIZED"} THEN d
  ELSE [UpdateStatus(d, "ERROR") EXCEPT !.doPause = TRUE, !.cause = why]

\* StatusTracker::markComponent.
Mark(d, id, st) ==
  IF id = NoId \/ d.status = "UNINITIALIZED" THEN d ELSE [d EXCEPT !.changes = Append(@, [id |-> id, state |-> st])]

AddComponent(d, s)    == [d EXCEPT !.states = [i \in DOMAIN @ \cup {d.nextId} |-> IF i = d.nextId THEN "IDLE" ELSE @[i]],
                                   !.stream[s].id = d.nextId, !.nextId = @ + 1]
\* A stream that is deleted keeps its component until the next configuration.
RemoveComponent(d, s) == [d EXCEPT !.states = [i \in DOMAIN @ \ {d.stream[s].id} |-> @[i]], !.stream[s].id = NoId]

DeviceState(states) == IF \E i \in DOMAIN states : states[i] = "ACTIVE" THEN "ACTIVE" ELSE "IDLE"

\* The states of the components after the first n changes of the queue.
After(d, n) == [i \in DOMAIN d.states |->
                  LET of == {k \in 1..n : d.changes[k].id = i} IN IF of = {} THEN d.states[i] ELSE d.changes[Max(of)].state]

\* The transitions of the device that a batch of changes goes through.
Replay(d, device) ==
  LET states == <<device>> \o [k \in 1..(Len(d.changes) + 1) |-> DeviceState(After(d, k - 1))]
  IN  FoldLeft(LAMBDA seq, k : IF states[k] = states[k - 1] THEN seq ELSE Append(seq, states[k]), <<>>,
               [k \in 1..(Len(states) - 1) |-> k + 1])

TrackerRead ==
  /\ ~trk.ended /\ trk.transitions = <<>> /\ ~trk.refused
  /\ dev.changes # <<>> \/ DeviceState(dev.states) # trk.device
  /\ LET after == After(dev, Len(dev.changes)) IN
       /\ trk' = [trk EXCEPT !.transitions = Replay(dev, trk.device), !.device = DeviceState(after)]
       /\ dev' = [dev EXCEPT !.states = after, !.changes = <<>>]
  /\ UNCHANGED <<thr, owes, gone, hist>>

\* notifyStatus: one transition.
TrackerNotify ==
  /\ trk.transitions # <<>> /\ ~trk.refused
  /\ LET st == IF Head(trk.transitions) = "IDLE" THEN "CONFIGURED" ELSE "ACTIVE" IN
       dev' = IF dev.status \in {"ACTIVE", "CONFIGURED"} THEN UpdateStatus(dev, st) ELSE dev
  /\ trk' = [trk EXCEPT !.transitions = Tail(@)]
  /\ UNCHANGED <<thr, owes, gone, hist>>

\* The listener refuses to become active.
TrackerNotifyRefused ==
  /\ trk.transitions # <<>> /\ Head(trk.transitions) = "ACTIVE" /\ ~trk.refused
  /\ Fault /\ dev.status \in {"ACTIVE", "CONFIGURED"}
  /\ dev' = UpdateStatus(dev, "ACTIVE") /\ hist' = Failed
  /\ trk' = [trk EXCEPT !.transitions = Tail(@), !.refused = TRUE]
  /\ UNCHANGED <<thr, owes, gone>>

TrackerRefused ==
  /\ trk.refused
  /\ dev' = SetErr(dev, "refused") /\ trk' = [trk EXCEPT !.refused = FALSE]
  /\ UNCHANGED <<thr, owes, gone, hist>>

TrackerEnd ==
  /\ dev.exit /\ ~trk.ended /\ trk.transitions = <<>> /\ ~trk.refused
  /\ trk' = [trk EXCEPT !.ended = TRUE]
  /\ UNCHANGED <<dev, thr, owes, gone, hist>>

-----------------------------------------------------------------------------
(* Buffers and requests in flight                                           *)

\* handoutBufferLocked: the first buffer makes the stream busy.
Handout(d, s) ==
  LET d1 == IF d.stream[s].out = 0 THEN Mark(d, d.stream[s].id, "ACTIVE") ELSE d
  IN  [d1 EXCEPT !.stream[s].out = @ + 1]

\* returnBuffer, returnAnyBufferLocked: the last buffer makes it idle; a
\* stream whose consumer is gone finds out when it queues the buffer.
ReturnBuffer(d, s, f, ok) ==
  IF d.stream[s].out = 0 \/ d.stream[s].state = "CONSTRUCTED" THEN d
  ELSE LET d1 == [d EXCEPT !.stream[s].out = @ - 1,
                           !.stream[s].state = IF ok /\ s \in gone /\ @ = "CONFIGURED" THEN "ABANDONED" ELSE @,
                           !.told[f].bad = IF ok THEN @ ELSE @ \cup {s}]
       IN  IF d1.stream[s].out = 0 THEN Mark(d1, d1.stream[s].id, "IDLE") ELSE d1

Returnable(bufs, strategy) == {b \in bufs : b.ok \/ strategy # "CACHE"}

ReturnOutputBuffers(d, f, bufs, strategy) ==
  LET lost == {b.stream : b \in {b \in bufs : ~b.ok /\ strategy = "RETURN_NOTIFY"}}
  IN  FoldSet(LAMBDA b, d1 : ReturnBuffer(d1, b.stream, f, b.ok), [d EXCEPT !.told[f].lost = @ \cup lost],
              Returnable(bufs, strategy))

ReturnAndRemovePending(d, f) ==
  LET r == d.inflight[f]
  IN  [ReturnOutputBuffers(d, f, r.pending, r.strategy)
         EXCEPT !.inflight[f].pending = @ \ Returnable(r.pending, r.strategy)]

InFlight(d) == {f \in Frames : d.inflight[f] # NoEntry}

\* removeInFlightMapEntryLocked, onInflightEntryRemovedLocked.
RemoveEntry(d, f) ==
  LET d1 == [d EXCEPT !.inflight[f] = NoEntry]
  IN  IF InFlight(d1) = {} THEN Mark(d1, InFlightId, "IDLE") ELSE d1

\* Mutant of Ready: a frame is done without its shutter.
ReadyNoShutter(r) == r.left = 0 /\ (r.skip \/ r.meta)

Ready(r) == r.left = 0 /\ (r.skip \/ (r.meta /\ r.shutter))

RemoveIfReady(d, f) ==
  LET r == d.inflight[f]
  IN  IF Ready(r) THEN RemoveEntry(ReturnOutputBuffers(d, f, r.pending, r.strategy), f) ELSE d

Tell(d, f, what) == [d EXCEPT !.told[f].answers = Append(@, what)]

SendCaptureResult(d, f) ==
  IF f < d.nextResult THEN SetErr(d, "result order") ELSE Tell([d EXCEPT !.nextResult = f + 1], f, "result")

-----------------------------------------------------------------------------
(* The callbacks of the HAL                                                 *)

NotifyShutter(d, f) ==
  IF d.inflight[f] = NoEntry THEN SetErr(d, "unknown frame")
  ELSE IF f < d.nextShutter THEN SetErr(d, "shutter order")
  ELSE LET d1 == [d EXCEPT !.nextShutter = f + 1, !.inflight[f].shutter = TRUE]
           d2 == IF d1.inflight[f].pendingMeta THEN SendCaptureResult(d1, f) ELSE d1
       IN  RemoveIfReady(ReturnAndRemovePending(d2, f), f)

\* processCaptureResult with metadata.
ProcessMetadata(d, f) ==
  IF d.inflight[f] = NoEntry THEN SetErr(d, "unknown frame")
  ELSE IF d.inflight[f].meta THEN SetErr(d, "metadata twice")
  ELSE LET d1 == [d EXCEPT !.inflight[f].meta = TRUE, !.inflight[f].strategy = "RETURN_NOTIFY"]
           d2 == IF d1.inflight[f].shutter THEN SendCaptureResult(ReturnAndRemovePending(d1, f), f)
                 ELSE [d1 EXCEPT !.inflight[f].pendingMeta = TRUE]
       IN  RemoveIfReady(d2, f)

\* processCaptureResult with a buffer; one of a stream that is gone is ignored.
ProcessBuffer(d, f, s, ok) ==
  IF d.stream[s].state = "deleted" THEN d
  ELSE IF d.inflight[f] = NoEntry THEN SetErr(d, "unknown frame")
  ELSE IF d.inflight[f].left = 0 THEN SetErr(d, "too many buffers")
  ELSE LET d1 == [d EXCEPT !.inflight[f].left = @ - 1, !.inflight[f].pending = @ \cup {[stream |-> s, ok |-> ok]}]
       IN  RemoveIfReady(IF d1.inflight[f].shutter THEN ReturnAndRemovePending(d1, f) ELSE d1, f)

\* notifyError for a request or for its result.
NotifyError(d, f, what) ==
  IF d.inflight[f] = NoEntry THEN Tell(d, f, what)
  ELSE Tell(RemoveIfReady([d EXCEPT !.inflight[f].skip = TRUE,
                                    !.inflight[f].strategy = IF what = "no result" THEN "RETURN_NOTIFY" ELSE "RETURN"], f),
            f, what)

HalShutter(f) ==
  /\ owes[f].shutter /\ \A g \in Frames : owes[g].shutter => f <= g
  /\ owes' = [owes EXCEPT ![f].shutter = FALSE] /\ dev' = NotifyShutter(dev, f)
  /\ UNCHANGED <<thr, trk, gone, hist>>

HalMetadata(f) ==
  /\ owes[f].meta /\ \A g \in Frames : owes[g].meta => f <= g
  /\ owes' = [owes EXCEPT ![f].meta = FALSE] /\ dev' = ProcessMetadata(dev, f)
  /\ UNCHANGED <<thr, trk, gone, hist>>

HalBuffer(f) ==
  /\ \E s \in owes[f].bufs, ok \in BOOLEAN :
       /\ IF owes[f].error THEN ~ok ELSE ok \/ Fault
       /\ owes' = [owes EXCEPT ![f].bufs = @ \ {s}] /\ dev' = ProcessBuffer(dev, f, s, ok)
       /\ hist' = IF ok \/ owes[f].error THEN hist ELSE Failed
  /\ UNCHANGED <<thr, trk, gone>>

HalRequestError(f) ==
  /\ Fault /\ owes[f].shutter /\ owes[f].meta
  /\ owes' = [owes EXCEPT ![f].shutter = FALSE, ![f].meta = FALSE, ![f].error = TRUE]
  /\ dev' = NotifyError(dev, f, "no request") /\ hist' = Failed
  /\ UNCHANGED <<thr, trk, gone>>

HalResultError(f) ==
  /\ Fault /\ ~owes[f].shutter /\ owes[f].meta /\ \A g \in Frames : owes[g].meta => f <= g
  /\ owes' = [owes EXCEPT ![f].meta = FALSE] /\ dev' = NotifyError(dev, f, "no result")
  /\ hist' = Failed
  /\ UNCHANGED <<thr, trk, gone>>

HalDeviceError ==
  /\ Fault /\ dev.status \notin {"ERROR", "UNINITIALIZED"}
  /\ dev' = SetErr(dev, "hal") /\ hist' = Failed
  /\ UNCHANGED <<thr, trk, owes, gone>>

\* external: the consumer of a stream goes away.
ConsumerGone(s) ==
  /\ Fault /\ s \notin gone /\ dev.stream[s].state \notin {"none", "deleted"}
  /\ gone' = gone \cup {s} /\ hist' = Failed
  /\ UNCHANGED <<dev, thr, trk, owes>>

-----------------------------------------------------------------------------
(* The request thread                                                       *)

FallIdle(d) == IF d.paused THEN d ELSE Mark([d EXCEPT !.paused = TRUE], RequestId, "IDLE")
Wake(d)     == IF d.paused THEN Mark([d EXCEPT !.paused = FALSE], RequestId, "ACTIVE") ELSE d

\* waitIfPaused.
ThreadPause ==
  /\ thr.pc = "top" /\ dev.doPause /\ ~dev.exit /\ ~dev.paused
  /\ dev' = FallIdle(dev)
  /\ UNCHANGED <<thr, trk, owes, gone, hist>>

ThreadPass ==
  /\ thr.pc = "top" /\ ~dev.doPause /\ ~dev.exit
  /\ thr' = [thr EXCEPT !.pc = "wait"]
  /\ UNCHANGED <<dev, trk, owes, gone, hist>>

ThreadEnd ==
  /\ thr.pc = "top" /\ dev.exit
  /\ thr' = [thr EXCEPT !.pc = "ended"]
  /\ UNCHANGED <<dev, trk, owes, gone, hist>>

\* The bound leaves a repeating request fewer frames than the client's calls may need.
FramesLeft == dev.frame + Burst + MaxCalls - hist.calls <= MaxFrames

\* waitForNextRequestLocked finds nothing for kRequestTimeout; a round of the
\* loop that would come back to the same wait is left out.  (A repeating
\* request at the bound does not keep the thread from its exit.)
ThreadIdle ==
  /\ thr.pc = "wait" /\ dev.queue = <<>> /\ (dev.repeating = <<>> \/ (dev.exit /\ ~FramesLeft))
  /\ ~dev.paused \/ dev.doPause \/ dev.exit
  /\ dev' = FallIdle(dev) /\ thr' = [thr EXCEPT !.pc = "top"]
  /\ UNCHANGED <<trk, owes, gone, hist>>

Numbered(d, r) == [d EXCEPT !.told[d.frame].of = r.id, !.frame = @ + 1]

Take(d, r) == Numbered(Wake(d), r)

ThreadTake ==
  /\ thr.pc = "wait" /\ dev.queue # <<>> /\ dev.frame < MaxFrames
  /\ dev' = Take([dev EXCEPT !.queue = Tail(@)], Head(dev.queue))
  /\ thr' = [thr EXCEPT !.pc = "get", !.next = Head(dev.queue), !.frame = dev.frame, !.got = {}]
  /\ UNCHANGED <<trk, owes, gone, hist>>

ThreadRepeat ==
  /\ thr.pc = "wait" /\ dev.queue = <<>> /\ dev.repeating # <<>> /\ FramesLeft
  /\ dev' = Take([dev EXCEPT !.queue = Tail(dev.repeating), !.repeatingLast = dev.frame + Len(dev.repeating) - 1],
                 Head(dev.repeating))
  /\ thr' = [thr EXCEPT !.pc = "get", !.next = Head(dev.repeating), !.frame = dev.frame, !.got = {}]
  /\ UNCHANGED <<trk, owes, gone, hist>>

Missing == thr.next.streams \ thr.got

\* getBuffer for the next stream of the request.
ThreadGetBuffer ==
  /\ thr.pc = "get" /\ Missing # {}
  /\ LET s == Min(Missing) IN
       /\ dev.stream[s].state = "CONFIGURED" /\ dev.stream[s].out < MaxBuffers /\ s \notin gone
       /\ dev' = Handout(dev, s) /\ thr' = [thr EXCEPT !.got = @ \cup {s}]
  /\ UNCHANGED <<trk, owes, gone, hist>>

\* cleanUpFailedRequests.
CleanUpFailed(d, f, got, tell) ==
  LET d1 == FoldSet(LAMBDA s, d0 : ReturnBuffer(d0, s, f, FALSE), d, got)
      d2 == IF tell THEN Tell(d1, f, "no request") ELSE d1
  IN  IF d2.inflight[f] = NoEntry THEN d2 ELSE RemoveEntry(d2, f)

\* What the client is told of a repeating request that ends.
Ended(h, d) == IF d.repeating = <<>> THEN h
               ELSE [h EXCEPT !.ended = Append(@, [of |-> d.repeating[1].id, last |-> d.repeatingLast])]

ClearRepeating(d) == [d EXCEPT !.repeating = <<>>, !.repeatingLast = None]

\* The stream has no consumer, or the HAL holds all it may for too long; a
\* repeating request with an abandoned stream is stopped.
ThreadGetBufferFails ==
  /\ thr.pc = "get" /\ Missing # {}
  /\ LET s    == Min(Missing)
         lost == s \in gone /\ dev.stream[s].state = "CONFIGURED" /\ dev.stream[s].out < MaxBuffers
         d1   == CleanUpFailed(IF lost THEN [dev EXCEPT !.stream[s].state = "ABANDONED"] ELSE dev, thr.frame, thr.got, TRUE)
         stop == \E k \in DOMAIN d1.repeating : \E t \in d1.repeating[k].streams : d1.stream[t].state = "ABANDONED"
         late == dev.stream[s].state = "CONFIGURED" /\ ~lost
         h    == IF late THEN Failed ELSE hist
     IN  /\ late => Fault /\ dev.stream[s].out >= MaxBuffers
         /\ dev' = IF stop THEN ClearRepeating(d1) ELSE d1
         /\ hist' = IF stop THEN Ended(h, d1) ELSE h
  /\ thr' = [thr EXCEPT !.pc = "top", !.next = None, !.frame = 0, !.got = {}]
  /\ UNCHANGED <<trk, owes, gone>>

\* Mutant of Register: the tracker hears of every second request only.
RegisterLate(d, f, n) ==
  LET d1 == [d EXCEPT !.inflight[f] = [NoEntry EXCEPT !.left = n]]
  IN  IF Cardinality(InFlight(d1)) = 2 THEN Mark(d1, InFlightId, "ACTIVE") ELSE d1

\* registerInFlight.
Register(d, f, n) ==
  LET d1 == [d EXCEPT !.inflight[f] = [NoEntry EXCEPT !.left = n]]
  IN  IF Cardinality(InFlight(d1)) = 1 THEN Mark(d1, InFlightId, "ACTIVE") ELSE d1

ThreadRegister ==
  /\ thr.pc = "get" /\ Missing = {}
  /\ dev' = Register(dev, thr.frame, Cardinality(thr.got)) /\ thr' = [thr EXCEPT !.pc = "send"]
  /\ UNCHANGED <<trk, owes, gone, hist>>

\* sendRequestsBatch: the HAL takes the request.
ThreadSend ==
  /\ thr.pc = "send" /\ dev.status # "UNINITIALIZED"
  /\ owes' = [owes EXCEPT ![thr.frame] = [shutter |-> TRUE, meta |-> TRUE, bufs |-> thr.got, error |-> FALSE]]
  /\ thr' = [thr EXCEPT !.pc = "top", !.next = None, !.frame = 0, !.got = {}]
  /\ UNCHANGED <<dev, trk, gone, hist>>

\* The HAL refuses the request, or is closed.
ThreadSendFails ==
  /\ thr.pc = "send" /\ (Fault \/ dev.status = "UNINITIALIZED")
  /\ dev' = CleanUpFailed(SetErr(dev, "hal"), thr.frame, thr.got, FALSE)
  /\ thr' = [thr EXCEPT !.pc = "ended", !.next = None, !.frame = 0, !.got = {}]
  /\ hist' = IF dev.status = "UNINITIALIZED" THEN hist ELSE Failed
  /\ UNCHANGED <<trk, owes, gone>>

-----------------------------------------------------------------------------
(* Configuring the streams                                                  *)

Outputs(d) == {s \in Streams : d.stream[s].state \notin {"none", "deleted"}}

\* Nothing is in flight and no buffer is out.
Quiet(d) == InFlight(d) = {} /\ thr.next = None /\ \A s \in Outputs(d) : d.stream[s].out = 0

Cancel(d) == [UpdateStatus(d, "UNCONFIGURED") EXCEPT !.needConfig = TRUE]

\* startConfiguration refuses.
StartFails(d, s) ==
  d.stream[s].state \notin {"CONSTRUCTED", "CONFIGURED"} \/ d.stream[s].out > 0 \/ s \in gone

\* configureStreamsLocked when the HAL answers res; called is whether it was asked.
Configure(d, res) ==
  LET d1      == [d EXCEPT !.fake = Outputs(d) = {}]
      bad     == {s \in Outputs(d) : StartFails(d, s)}
      started == {s \in Outputs(d) : \A b \in bad : s < b}
      d2      == FoldSet(LAMBDA s, d0 : RemoveComponent(d0, s), d1, started)
      d3      == FoldSet(LAMBDA s, d0 : AddComponent([d0 EXCEPT !.stream[s].state = "CONFIGURED"], s), d2, started)
      dead    == {s \in Streams : d3.stream[s].state = "deleted" /\ d3.stream[s].out = 0}
      d4      == [UpdateStatus(FoldSet(LAMBDA s, d0 : RemoveComponent(d0, s), d3, dead), IF d1.fake THEN "UNCONFIGURED" ELSE "CONFIGURED")
                    EXCEPT !.needConfig = FALSE]
  IN  IF d.status \notin {"UNCONFIGURED", "CONFIGURED"} THEN [d |-> d, ok |-> FALSE, called |-> FALSE]
      ELSE IF ~d.needConfig THEN [d |-> d, ok |-> TRUE, called |-> FALSE]
      ELSE IF bad # {}      THEN [d |-> Cancel(d2), ok |-> FALSE, called |-> FALSE]
      ELSE IF res = "BAD_VALUE" THEN [d |-> Cancel(d2), ok |-> FALSE, called |-> TRUE]
      ELSE IF res = "ERROR"     THEN [d |-> SetErr(d2, "hal"), ok |-> FALSE, called |-> TRUE]
      ELSE [d |-> d4, ok |-> TRUE, called |-> TRUE]

Answers == {"OK"} \cup IF Fault THEN {"BAD_VALUE", "ERROR"} ELSE {}

Noted(h, d, c) == [h EXCEPT !.busy = IF c.called /\ ~Quiet(d) THEN @ \cup {"configured"} ELSE @,
                            !.faults = IF c.called /\ ~c.ok THEN @ + 1 ELSE @]

-----------------------------------------------------------------------------
(* The client's calls                                                       *)

\* A call that would change nothing is left out.
Call(c) == dev.pc = "idle" /\ c \in Calls /\ hist.calls < MaxCalls
Counted == [hist EXCEPT !.calls = @ + 1]
Usable  == dev.status \notin {"ERROR", "UNINITIALIZED"}

\* waitUntilStateThenRelock returns at once, or waits at pc.
Begin(d, pc, active) ==
  IF active = (d.status = "ACTIVE") THEN [d EXCEPT !.pc = "idle", !.seen = {}] ELSE [d EXCEPT !.pc = pc, !.seen = {}]
Matches(active) == \/ active = (dev.status = "ACTIVE")
                   \/ \E st \in dev.seen : active = (st = "ACTIVE")
Return(d) == [d EXCEPT !.pc = "idle", !.seen = {}]

\* The tracker has yet to report that the device was idle.
IdleToCome == "IDLE" \in Range(trk.transitions) \/ "IDLE" \in Range(Replay(dev, trk.device))

Request(repeating) == [id |-> hist.calls + 1, streams |-> Outputs(dev), repeating |-> repeating]

\* Mutant of Unpause: the tracker is not told.
UnpauseSilent(d) == IF d.doPause THEN d ELSE [d EXCEPT !.paused = FALSE]

\* unpauseForNewRequests.
Unpause(d) == IF d.doPause THEN d ELSE Wake(d)

\* Submit: the requests are queued once the streams are configured.
Submit(queue, repeating, last, h) ==
  \E res \in Answers :
    LET need == dev.status = "UNCONFIGURED" \/ dev.needConfig
        c    == IF need THEN Configure(dev, res) ELSE [d |-> dev, ok |-> TRUE, called |-> FALSE]
        h1   == IF IdleToCome THEN [h EXCEPT !.odd = @ \cup {"stale"}] ELSE h
    IN  IF c.ok /\ c.d.status # "UNCONFIGURED"
        THEN dev' = Begin(Unpause([c.d EXCEPT !.queue = queue, !.repeating = repeating, !.repeatingLast = last]), "submit", TRUE) /\ hist' = Noted(h1, dev, c)
        ELSE dev' = c.d /\ hist' = Noted(Counted, dev, c)

\* capture: the client is told the frame number that the request will have.
Capture ==
  /\ Call("capture") /\ Usable
  /\ Submit(Append(dev.queue, Request(FALSE)), dev.repeating, dev.repeatingLast,
            [Counted EXCEPT !.promised = Append(@, [of |-> hist.calls + 1, last |-> dev.frame + Len(dev.queue)])])
  /\ UNCHANGED <<thr, trk, owes, gone>>

SetRepeating ==
  /\ Call("repeat") /\ Usable
  /\ Submit(dev.queue, [k \in 1..Burst |-> Request(TRUE)], None, Ended(Counted, dev))
  /\ UNCHANGED <<thr, trk, owes, gone>>

\* The end of capture and of setStreamingRequest.
Submitted ==
  /\ dev.pc = "submit" /\ Matches(TRUE)
  /\ dev' = Return(dev)
  /\ UNCHANGED <<thr, trk, owes, gone, hist>>

ClearStreamingRequest ==
  /\ Call("clear") /\ Usable /\ dev.repeating # <<>>
  /\ dev' = ClearRepeating(dev) /\ hist' = Ended(Counted, dev)
  /\ UNCHANGED <<thr, trk, owes, gone>>

\* RequestThread::clear: what waits is numbered and given up.
ClearQueue(d) ==
  [FoldLeft(LAMBDA d1, r : Tell(Numbered(d1, r), d1.frame, "no request"), d, d.queue)
     EXCEPT !.queue = <<>>, !.repeating = <<>>, !.repeatingLast = None]

Flush ==
  /\ Call("flush") /\ dev.status # "UNINITIALIZED" /\ dev.frame + Len(dev.queue) <= MaxFrames
  /\ dev.queue # <<>> \/ dev.repeating # <<>> \/ InFlight(dev) # {}
  /\ dev' = [ClearQueue(dev) EXCEPT !.pc = "flush"] /\ hist' = Ended(Counted, dev)
  /\ UNCHANGED <<thr, trk, owes, gone>>

\* The HAL's flush() returns when it has nothing left.
Flushed ==
  /\ dev.pc = "flush" /\ \A f \in Frames : owes[f].bufs = {} /\ ~owes[f].shutter /\ ~owes[f].meta
  /\ dev' = Return(dev)
  /\ UNCHANGED <<thr, trk, owes, gone, hist>>

Drained(d, h) == IF Quiet(d) /\ d.queue = <<>> THEN h ELSE [h EXCEPT !.busy = @ \cup {"drained"}]

\* waitUntilDrained.
Drain ==
  /\ Call("drain") /\ dev.status \in {"CONFIGURED", "ACTIVE"}
  /\ dev' = Begin(dev, "drain", FALSE)
  /\ hist' = IF dev.status = "CONFIGURED" THEN Drained(dev, Counted) ELSE Counted
  /\ UNCHANGED <<thr, trk, owes, gone>>

DrainReturns ==
  /\ dev.pc = "drain" /\ Matches(FALSE)
  /\ dev' = Return(dev) /\ hist' = IF dev.status = "ERROR" THEN hist ELSE Drained(dev, hist)
  /\ UNCHANGED <<thr, trk, owes, gone>>

AddStream(d) ==
  LET s == Min({s \in Streams : d.stream[s].state = "none"})
  IN  [d EXCEPT !.stream[s] = [NoStream EXCEPT !.state = "CONSTRUCTED"], !.needConfig = TRUE]

\* createStream; an active device is paused first.
CreateStream ==
  /\ Call("create") /\ Usable /\ \E s \in Streams : dev.stream[s].state = "none"
  /\ dev' = IF dev.status = "ACTIVE" THEN [dev EXCEPT !.doPause = TRUE, !.pc = "pause", !.seen = {}] ELSE AddStream(dev)
  /\ hist' = Counted
  /\ UNCHANGED <<thr, trk, owes, gone>>

\* The device is idle: the stream is added, the HAL configured, the thread resumed.
Paused ==
  /\ dev.pc = "pause" /\ Matches(FALSE)
  /\ \E res \in Answers :
       LET c == Configure(AddStream(dev), res)
           h == Noted(hist, dev, c)
       IN  /\ dev' = IF c.ok THEN Begin([c.d EXCEPT !.doPause = FALSE], "resume", TRUE) ELSE Return(c.d)
           /\ hist' = IF c.ok THEN h ELSE [h EXCEPT !.odd = @ \cup {"left paused"}]
  /\ UNCHANGED <<thr, trk, owes, gone>>

Resumed ==
  /\ dev.pc = "resume" /\ Matches(TRUE)
  /\ dev' = Return(dev)
  /\ UNCHANGED <<thr, trk, owes, gone, hist>>

\* deleteStream: not of an active device.  A stream whose buffers are out refuses to be
\* disconnected (Camera3IOStreamBase::disconnectLocked), which is an error of the device; the
\* stream counts as deleted all the same.
DeleteStream ==
  /\ Call("delete") /\ dev.status \in {"UNCONFIGURED", "CONFIGURED"}
  /\ \E s \in Outputs(dev) :
       LET refuses == dev.stream[s].state \in {"CONFIGURED", "ABANDONED"} /\ dev.stream[s].out > 0
           d == IF refuses THEN SetErr(dev, "not disconnected") ELSE dev
       IN  dev' = [d EXCEPT !.stream[s].state = "deleted", !.needConfig = TRUE]
  /\ hist' = Counted
  /\ UNCHANGED <<thr, trk, owes, gone>>

ConfigureStreams ==
  /\ Call("configure") /\ dev.status \in {"UNCONFIGURED", "CONFIGURED"} /\ dev.needConfig
  /\ \E res \in Answers : LET c == Configure(dev, res) IN dev' = c.d /\ hist' = Noted(Counted, dev, c)
  /\ UNCHANGED <<thr, trk, owes, gone>>

\* A wait for a status takes too long; only that of a capture is not an error.
WaitTimesOut ==
  /\ Fault
  /\ \/ /\ dev.pc = "submit" /\ ~Matches(TRUE)
        /\ dev' = Return(dev) /\ hist' = [Failed EXCEPT !.odd = @ \cup {"timeout"}]
     \/ /\ dev.pc \in {"drain", "pause"} /\ ~Matches(FALSE)
        /\ dev' = Return(SetErr(dev, "timeout")) /\ hist' = Failed
     \/ /\ dev.pc = "resume" /\ ~Matches(TRUE)
        /\ dev' = Return(SetErr(dev, "timeout")) /\ hist' = Failed
     \/ /\ dev.pc = "disconnect" /\ ~Matches(FALSE)
        /\ dev' = [SetErr(dev, "timeout") EXCEPT !.pc = "leave", !.seen = {}] /\ hist' = Failed
  /\ UNCHANGED <<thr, trk, owes, gone>>

-----------------------------------------------------------------------------
(* Disconnecting                                                            *)

Disconnect ==
  /\ Call("disconnect") /\ dev.status # "UNINITIALIZED"
  /\ IF dev.status \in {"ACTIVE", "ERROR"}
     THEN /\ dev' = [ClearRepeating(dev) EXCEPT !.pc = IF dev.status = "ACTIVE" THEN "disconnect" ELSE "leave", !.seen = {}]
          /\ hist' = Ended(Counted, dev)
     ELSE dev' = [dev EXCEPT !.pc = "leave"] /\ hist' = Counted
  /\ UNCHANGED <<thr, trk, owes, gone>>

DisconnectIdle ==
  /\ dev.pc = "disconnect" /\ Matches(FALSE)
  /\ dev' = [dev EXCEPT !.pc = "leave", !.seen = {}]
  /\ UNCHANGED <<thr, trk, owes, gone, hist>>

\* The threads are asked to exit.
RequestExit ==
  /\ dev.pc = "leave" /\ ~dev.exit
  /\ dev' = [dev EXCEPT !.exit = TRUE]
  /\ UNCHANGED <<thr, trk, owes, gone, hist>>

\* The request thread of a device in error is not waited for.
Join ==
  /\ dev.pc = "leave" /\ dev.exit /\ (thr.pc = "ended" \/ dev.status = "ERROR")
  /\ dev' = [dev EXCEPT !.pc = "close"]
  /\ UNCHANGED <<thr, trk, owes, gone, hist>>

\* flushInflightRequests: what is pending goes back as its strategy says, and
\* what the HAL holds goes back as an error.
FlushInflight(d) ==
  LET d1 == FoldSet(LAMBDA f, d0 : ReturnOutputBuffers(d0, f, d0.inflight[f].pending, d0.inflight[f].strategy), d, InFlight(d))
      d2 == [d1 EXCEPT !.inflight = [f \in Frames |-> NoEntry]]
      held == {b \in Frames \X Streams : b[2] \in owes[b[1]].bufs /\ d.stream[b[2]].state # "deleted"}
  IN  FoldSet(LAMBDA b, d0 : ReturnBuffer(d0, b[2], b[1], FALSE), d2, held)

\* An error buffer that waits for the metadata of its frame.
Cached(d) == \E f \in InFlight(d) : \E b \in d.inflight[f].pending : ~b.ok /\ d.inflight[f].strategy = "CACHE"

\* The tracker is joined, the HAL is closed and what is in flight is given back.
Close ==
  /\ dev.pc = "close" /\ trk.ended
  /\ dev' = [UpdateStatus(FlushInflight(dev), "UNINITIALIZED") EXCEPT !.pc = "closed", !.seen = {}, !.changes = <<>>]
  /\ hist' = IF Cached(dev) THEN [hist EXCEPT !.odd = @ \cup {"cached"}] ELSE hist
  /\ owes' = [f \in Frames |-> Nothing]
  /\ UNCHANGED <<thr, trk, gone>>

Next ==
  \/ TrackerRead \/ TrackerNotify \/ TrackerNotifyRefused \/ TrackerRefused \/ TrackerEnd
  \/ \E f \in Frames : HalShutter(f) \/ HalMetadata(f) \/ HalBuffer(f) \/ HalRequestError(f) \/ HalResultError(f)
  \/ HalDeviceError \/ \E s \in Streams : ConsumerGone(s)
  \/ ThreadPause \/ ThreadPass \/ ThreadEnd \/ ThreadIdle \/ ThreadTake \/ ThreadRepeat \/ ThreadGetBuffer
  \/ ThreadGetBufferFails \/ ThreadRegister \/ ThreadSend \/ ThreadSendFails
  \/ Capture \/ SetRepeating \/ Submitted \/ ClearStreamingRequest \/ Flush \/ Flushed \/ Drain \/ DrainReturns
  \/ CreateStream \/ Paused \/ Resumed \/ DeleteStream \/ ConfigureStreams \/ WaitTimesOut
  \/ Disconnect \/ DisconnectIdle \/ RequestExit \/ Join \/ Close

Spec == Init /\ [][Next]_vars

-----------------------------------------------------------------------------
(* Properties                                                               *)

TypeOK ==
  /\ dev.status \in {"UNINITIALIZED", "UNCONFIGURED", "CONFIGURED", "ACTIVE", "ERROR"}
  /\ dev.stream \in [Streams -> [state : {"none", "CONSTRUCTED", "CONFIGURED", "ABANDONED", "deleted"},
                                 id : {NoId} \cup DOMAIN dev.states, out : 0..MaxBuffers]]
  /\ \A f \in Frames : dev.inflight[f].left \in -1..MaxStreams
  /\ dev.frame \in 0..MaxFrames
  /\ thr.pc \in {"top", "wait", "get", "send", "ended"} /\ thr.got \subseteq Streams
  /\ dev.pc \in {"idle", "submit", "flush", "drain", "pause", "resume", "disconnect", "leave", "close", "closed"}

\* The calls went as they should: no capture was submitted while the tracker
\* had still to report an earlier idle, none gave up waiting to become active.
Orderly == hist.odd \cap {"stale", "timeout"} = {}

\* Every buffer a stream handed out is with the request thread, with the HAL
\* or in the entry of its frame (handoutBufferLocked, returnAnyBufferLocked,
\* returnOutputBuffers, cleanUpFailedRequests); once the device is closed only
\* the request thread of a device in error may have one.
BuffersAccounted ==
  Orderly /\ "cached" \notin hist.odd =>
    \A s \in Streams :
      dev.stream[s].out = Cardinality({f \in Frames : s \in owes[f].bufs})
                        + Cardinality({f \in InFlight(dev) : \E b \in dev.inflight[f].pending : b.stream = s})
                        + (IF s \in thr.got THEN 1 ELSE 0)

\* Once it has read its queue the tracker knows who is busy: the request
\* thread unless it is paused, the map of requests unless it is empty, a
\* stream while it has buffers out (markComponent and its callers).
TrackerInSync ==
  dev.status # "UNINITIALIZED" =>
    LET busy == After(dev, Len(dev.changes)) IN
      /\ (busy[RequestId] = "ACTIVE") = ~dev.paused
      /\ (busy[InFlightId] = "ACTIVE") = (InFlight(dev) # {})
      /\ \A s \in Outputs(dev) : dev.stream[s].id # NoId => (busy[dev.stream[s].id] = "ACTIVE") = (dev.stream[s].out > 0)

\* A device whose tracker has nothing to report says that it is active
\* exactly if something of it is busy (notifyStatus, threadLoop).  (A capture
\* that gave up waiting lets the streams be deleted and configured again while
\* the request thread is busy, and the tracker does not report that twice.)
StatusSettles ==
  Orderly /\ dev.status \in {"CONFIGURED", "ACTIVE"} /\ ~trk.ended /\ trk.transitions = <<>> /\ dev.changes = <<>>
    /\ DeviceState(dev.states) = trk.device
    => (dev.status = "ACTIVE") = (trk.device = "ACTIVE")

\* The HAL is never asked to configure its streams while a request is in
\* flight or a buffer is out (createStream pauses, deleteStream refuses).
ConfiguredQuiet == Orderly => "configured" \notin hist.busy

\* When waitUntilDrained says so nothing is queued, in flight or handed out.
DrainedIsDone == hist.odd = {} => "drained" \notin hist.busy

\* A frame number is answered at most once, with its result or an error; as
\* long as the device has no error, one that is not in flight any more was.
AnsweredOnce ==
  \A f \in Frames :
    /\ Len(dev.told[f].answers) <= 1
    /\ f < dev.frame /\ dev.status \notin {"ERROR", "UNINITIALIZED"} /\ dev.inflight[f] = NoEntry
         /\ ~(thr.next # None /\ thr.frame = f)
       => Len(dev.told[f].answers) = 1

\* The client hears of every buffer without an image: by the error of the
\* request, or by an error for the buffer (the strategies of returnOutputBuffers).
LostBuffersTold ==
  \A f \in Frames :
    dev.inflight[f] = NoEntry /\ dev.told[f].answers \in {<<"result">>, <<"no result">>}
      /\ dev.status # "UNINITIALIZED" => dev.told[f].bad = dev.told[f].lost

\* A HAL that keeps its contract never puts the device in error by the order
\* or the number of its answers (notifyShutter, sendCaptureResult, processCaptureResult), and
\* no stream is deleted while its buffers are out (deleteStream) unless an idle reported too
\* late, or a capture that gave up waiting, lets the device pass for idle.
NoErrorOfOurOwn ==
  \/ dev.cause \in {None, "hal", "timeout", "refused"}
  \/ dev.cause = "not disconnected" /\ ~Orderly

\* The frame numbers told to the client are those the requests get: of a
\* capture exactly, of a repeating request the last one (queueRequestList,
\* clearRepeatingRequests, waitForNextRequestLocked, clear).
FramesAsTold ==
  /\ \A k \in DOMAIN hist.promised : \A f \in Frames : dev.told[f].of = hist.promised[k].of => f = hist.promised[k].last
  /\ \A k \in DOMAIN hist.ended :
       LET e == hist.ended[k] IN
         /\ \A f \in Frames : dev.told[f].of = e.of => e.last # None /\ f <= e.last
         /\ e.last # None /\ e.last < dev.frame => dev.told[e.last].of = e.of

\* The threads and the HAL have nothing to do and no call can return: what is
\* enabled then is a new call, a timeout or another fault.
Settled ==
  /\ trk.transitions = <<>> /\ ~trk.refused
  /\ trk.ended \/ ~(dev.changes # <<>> \/ DeviceState(dev.states) # trk.device \/ dev.exit)
  /\ \A f \in Frames : ~owes[f].shutter /\ ~owes[f].meta /\ owes[f].bufs = {}
  /\ \/ thr.pc = "ended"
     \/ thr.pc = "top" /\ dev.doPause /\ dev.paused /\ ~dev.exit
     \/ thr.pc = "wait" /\ dev.queue = <<>> /\ (IF dev.repeating = <<>> THEN dev.paused /\ ~dev.doPause /\ ~dev.exit
                                                ELSE ~FramesLeft /\ ~dev.exit)
  /\ dev.pc \in {"submit", "resume"} => ~Matches(TRUE)
  /\ dev.pc \in {"drain", "pause", "disconnect"} => ~Matches(FALSE)
  /\ dev.pc \notin {"flush", "leave", "close"}

\* The threads, the HAL and the client never wait for each other without
\* need: when nothing can go on every request that has a frame number was
\* answered, no buffer is out, and no call waits for the device to become
\* idle unless a repeating request keeps it busy; a request waits in the
\* queue, and its call for the device, only if the device was left paused.
NobodyStuck ==
  Settled /\ Orderly /\ dev.status \notin {"ERROR", "UNINITIALIZED"} =>
    /\ \A f \in Frames : f < dev.frame => dev.told[f].answers # <<>>
    /\ \A s \in Streams : dev.stream[s].out = 0
    /\ dev.queue # <<>> \/ dev.pc = "submit" => "left paused" \in hist.odd
    /\ dev.repeating = <<>> => dev.pc \in {"idle", "submit", "resume"}

\* Every frame ends once, in order and with all that the client was promised, every buffer is
\* with its stream, the request thread or the HAL, and the device is put in error by nothing
\* but the HAL, a timeout, the client or a stream deleted in one of the runs that are not orderly.
FramesAnswered ==
  /\ TypeOK /\ BuffersAccounted /\ AnsweredOnce
  /\ LostBuffersTold /\ NoErrorOfOurOwn /\ FramesAsTold

\* The status follows what is busy, and whoever waited for idle found the HAL quiet.
StatusFollows == TrackerInSync /\ StatusSettles /\ ConfiguredQuiet /\ DrainedIsDone
==============================================================================
