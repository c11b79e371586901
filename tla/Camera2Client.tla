--------------------------- MODULE Camera2Client ----------------------------
(***************************************************************************)
(* A client of the old camera interface (api1): the calls of an            *)
(* application, which mBinderSerializationLock makes one at a time, the    *)
(* thread of the CaptureSequencer that takes pictures, the threads of the  *)
(* JpegProcessor and the ZslProcessor, and the camera device.              *)
(*                                                                         *)
(* A call that holds the lock of the parameters all along is one step; the *)
(* others, and the thread of the sequencer, are cut where they let go of   *)
(* it.  A stream is what it was made for: 0 is NO_STREAM, and otherwise    *)
(* the number of its size, where a larger one has a larger number.         *)
(*                                                                         *)
(* External: the camera device.  It has the streams that the client made,  *)
(* repeats the request of StreamingProcessor unless that is paused, and    *)
(* answers each capture with a shutter, a result and a JPEG, or an error,  *)
(* sooner or later.  It deletes no stream while it is active, takes no     *)
(* request for a stream that is not there, and cannot record with a JPEG   *)
(* stream larger than the video.                                           *)
(***************************************************************************)
EXTENDS Integers, Sequences

CONSTANTS
  Settings,        \* what the application sets: [size, psize, vsize, allowZsl, slow, hint]
  kMaxRetryCount,
  MaxPictures,     \* bound on pictures taken; after the last one the client is only stopped
  MaxLate,         \* bound on waits that time out while the answer is on its way
  MaxErrors        \* bound on captures that fail

ASSUME Camera2ClientAssumption ==
  /\ \A s \in Settings : s.slow => ~s.allowZsl
  /\ {kMaxRetryCount, MaxPictures, MaxLate, MaxErrors} \subseteq Nat

VARIABLES
  c,        \* the client with its processors
  call,     \* where the application's call is
  seq,      \* CaptureSequencer
  shots,    \* external: the captures in flight, with what is due of each
  held,     \* the lock of the ZslProcessor, kept by the sequencer, and of the parameters, by a call
  late, errors,
  picture,  \* history: what became of the last picture, and what odd things came before
  crashed   \* a null pointer was followed

clientVars == <<c, call, seq, shots, held, late, errors, picture, crashed>>

ClientInit ==
  /\ c \in {[state |-> "STOPPED", window |-> FALSE, recWindow |-> FALSE,
             size |-> s.size, psize |-> s.psize, vsize |-> s.vsize, allowZsl |-> s.allowZsl,
             slow |-> s.slow, hint |-> s.hint, lastSize |-> s.size, overridden |-> FALSE,
             cbFlag |-> FALSE, cbSurface |-> FALSE, faces |-> FALSE,
             preview |-> 0, recording |-> 0, jpeg |-> 0, callback |-> 0, zsl |-> 0,
             active |-> "NONE", paused |-> FALSE, outs |-> {},
             configured |-> TRUE, jpegs |-> <<>>, done |-> FALSE,
             producer |-> FALSE, pinned |-> FALSE, locked |-> FALSE, frames |-> FALSE, detach |-> 0,
             drained |-> FALSE, res |-> "OK"] : s \in Settings}
  /\ call = [at |-> "idle", ends |-> FALSE]
  /\ seq = [at |-> "IDLE", exit |-> FALSE, busy |-> FALSE, start |-> FALSE, id |-> 1, shutterId |-> 0,
            shutter |-> FALSE, frame |-> FALSE, got |-> FALSE, errs |-> 0,
            buffer |-> 0, listens |-> {}, res |-> "OK"]
  /\ shots = {} /\ held = {} /\ late = 0 /\ errors = 0 /\ crashed = FALSE
  /\ picture = [is |-> "none", odd |-> {}]

Odd(why) == [picture EXCEPT !.odd = @ \cup {why}]

-----------------------------------------------------------------------------
(* External: the camera device.                                            *)

Repeating(k) == IF k.paused THEN "NONE" ELSE k.active
Active(k)    == k.configured /\ (Repeating(k) # "NONE" \/ (shots # {} /\ ~k.drained))
CanConfigure(k) == ~(k.recording # 0 /\ k.jpeg > k.recording)

\* A step that fails leaves its result, and the steps after it do nothing until it is ignored.
Fail(k, res) == [k EXCEPT !.res = res]
Failed(k)    == k.res # "OK"
Ignore(k)    == [k EXCEPT !.res = "OK"]

DeleteStream(k, s) ==
  IF Failed(k) THEN k ELSE IF Active(k) THEN Fail(k, "EBUSY") ELSE [k EXCEPT ![s] = 0]

\* A device that is active is configured for the new stream at once.
CreateStream(k, s, size) ==
  IF Failed(k) THEN k
  ELSE IF Active(k) /\ ~CanConfigure([k EXCEPT ![s] = size])
    THEN [Fail(k, "BAD_VALUE") EXCEPT ![s] = size, !.configured = FALSE]
    ELSE [k EXCEPT ![s] = size]

\* What a request for these streams is answered.
Submit(k, outs) ==
  CASE Failed(k) -> k
    [] ~Failed(k) /\ (\E s \in outs : k[s] = 0) -> Fail(k, "BAD_VALUE")
    [] ~Failed(k) /\ (\A s \in outs : k[s] # 0) /\ ~CanConfigure(k) ->
         [Fail(k, "BAD_VALUE") EXCEPT !.configured = FALSE]
    [] OTHER -> [k EXCEPT !.configured = TRUE]

\* A call that gets here goes on when the captures in flight are done.
WaitUntilDrained(k) ==
  IF Failed(k) THEN k
  ELSE IF Repeating(k) # "NONE" THEN Fail(k, "TIMED_OUT") ELSE [k EXCEPT !.drained = TRUE]

-----------------------------------------------------------------------------
(* StreamingProcessor                                                      *)

Streams(k, type, outs) ==
  IF Failed(k) THEN k ELSE [k EXCEPT !.active = type, !.outs = outs, !.paused = FALSE]

StartStream(k, type, outs) == Streams(Submit(k, outs), type, outs)

StopStream(k) == [k EXCEPT !.active = "NONE", !.outs = {}, !.paused = FALSE]

TogglePauseStream(k, pause) ==
  IF Failed(k) THEN k
  ELSE IF k.active = "NONE" THEN Fail(k, "INVALID_OPERATION")
  ELSE IF k.paused = pause THEN k
  ELSE IF pause THEN [k EXCEPT !.paused = TRUE]
  ELSE StartStream(k, k.active, k.outs)

UpdatePreviewStream(k) ==
  IF k.preview = k.psize THEN k
  ELSE CreateStream(IF k.preview = 0 THEN k ELSE DeleteStream(WaitUntilDrained(k), "preview"),
                    "preview", k.psize)

\* deletePreviewStream() and deleteRecordingStream()
DeleteWhenDrained(k, s) == IF k[s] = 0 THEN k ELSE DeleteStream(WaitUntilDrained(k), s)

UpdateRecordingStream(k) ==
  IF k.recording = k.vsize THEN k
  ELSE CreateStream(IF k.recording = 0 THEN k ELSE DeleteStream(k, "recording"), "recording", k.vsize)

-----------------------------------------------------------------------------
(* JpegProcessor and CallbackProcessor                                     *)

JpegUpdate(k) ==
  IF k.jpeg = k.size THEN k
  ELSE CreateStream(IF k.jpeg = 0 THEN k ELSE DeleteStream(k, "jpeg"), "jpeg", k.size)

NoJpegs(k) == IF Failed(k) THEN k ELSE [k EXCEPT !.jpegs = <<>>]

JpegDelete(k) == IF k.jpeg = 0 THEN k ELSE NoJpegs(DeleteStream(k, "jpeg"))

\* updateProcessorStream(mJpegProcessor, params) with the streaming paused; its result is that
\* of the last togglePauseStream().
JpegUpdatePaused(k) ==
  TogglePauseStream(Ignore(JpegUpdate(Ignore(WaitUntilDrained(Ignore(TogglePauseStream(Ignore(k), TRUE)))))),
                    FALSE)

UpdateJpegStream(k) ==
  IF JpegUpdate(k).res # "EBUSY" THEN JpegUpdate(k) ELSE JpegUpdatePaused(JpegUpdate(k))

CallbackUpdate(k) ==
  IF k.callback = k.psize THEN k
  ELSE CreateStream(IF k.callback = 0 THEN k ELSE DeleteStream(k, "callback"), "callback", k.psize)

\* setCallbackWindow(): another window needs another stream.
SetCallbackWindow(k) == IF k.callback = 0 THEN k ELSE DeleteStream(k, "callback")

-----------------------------------------------------------------------------
(* ZslProcessor                                                            *)

ZslUpdate(k) == IF k.zsl # 0 THEN k ELSE CreateStream(k, "zsl", 2)

NoProducer(k) == IF Failed(k) THEN k ELSE [k EXCEPT !.producer = FALSE]

ZslDelete(k) == NoProducer(IF k.zsl = 0 THEN k ELSE DeleteStream(k, "zsl"))

ClearZslQueue(k) ==
  IF Failed(k) \/ k.locked \/ k.zsl = 0 THEN k ELSE [k EXCEPT !.frames = FALSE, !.pinned = FALSE]

-----------------------------------------------------------------------------
(* Camera2Client: what the calls have in common.                           *)

UseZeroShutterLag(k) == k.allowZsl /\ ~k.hint /\ k.size > k.psize /\ k.size > k.vsize

\* overrideVideoSnapshotSize()
OverrideVideoSnapshotSize(k) ==
  UpdateJpegStream(IF k.overridden THEN k
                   ELSE [k EXCEPT !.overridden = TRUE, !.lastSize = k.size, !.size = k.vsize])

RecoverOverriddenJpegSize(k) ==
  IF k.overridden THEN [k EXCEPT !.overridden = FALSE, !.size = k.lastSize] ELSE k

\* The JPEG stream in startPreviewL(): a slow one is there only while a picture is taken.
PreviewJpeg(k) ==
  IF Failed(k) \/ (k.slow /\ k.jpeg = 0) THEN k
  ELSE IF ~k.slow THEN UpdateJpegStream(k)
  ELSE IF k.active = "NONE" THEN Ignore(JpegDelete(k))
  ELSE Ignore(TogglePauseStream(
         Ignore(JpegDelete(Ignore(WaitUntilDrained(Ignore(TogglePauseStream(k, TRUE)))))), FALSE))

\* old is the client before the call.
PreviewCallbacks(k, old) ==
  IF Failed(k) THEN k
  ELSE IF k.cbFlag \/ k.cbSurface
    THEN CallbackUpdate(IF k.recording = 0 THEN k ELSE DeleteWhenDrained(StopStream(k), "recording"))
    ELSE IF k.preview # old.preview THEN DeleteWhenDrained(k, "callback") ELSE k

WithZsl(k) == UseZeroShutterLag(k) /\ k.recording = 0
PreviewZsl(k, old) ==
  IF Failed(k) THEN k
  ELSE IF ~WithZsl(k) THEN Ignore(ZslDelete(k))
  ELSE IF k.jpeg # old.jpeg THEN ClearZslQueue(ZslUpdate(k)) ELSE ZslUpdate(k)

PreviewStreams(k) == PreviewZsl(PreviewCallbacks(PreviewJpeg(UpdatePreviewStream(k)), k), k)

StreamPreview(k) ==
  StartStream(k, IF k.hint THEN "RECORD" ELSE "PREVIEW",
              {"preview"} \cup (IF k.cbFlag \/ k.cbSurface THEN {"callback"} ELSE {})
                \cup (IF WithZsl(k) THEN {"zsl"} ELSE {}))

Reaches(k, state) == IF Failed(k) THEN k ELSE [k EXCEPT !.state = state]

StartPreviewL(k, restart) ==
  CASE k.state = "DISCONNECTED" -> Fail(k, "INVALID_OPERATION")
    [] k.state \in {"PREVIEW", "RECORD", "VIDEO_SNAPSHOT"} /\ ~restart -> k
    [] k.state = "STILL_CAPTURE" /\ ~restart -> Fail(k, "INVALID_OPERATION")
    [] OTHER -> IF ~k.window THEN [k EXCEPT !.state = "WAITING_FOR_PREVIEW_WINDOW"]
                ELSE Reaches(StreamPreview(PreviewStreams([k EXCEPT !.state = "STOPPED"])), "PREVIEW")

\* The streams that recording does without, in startRecordingL().
WithoutCallback(k) ==
  IF Failed(k) \/ k.callback = 0 THEN k ELSE DeleteWhenDrained(StopStream(k), "callback")

WithoutZsl(k) ==
  IF Failed(k) \/ k.zsl = 0 THEN k
  ELSE ZslDelete(ClearZslQueue(Ignore(WaitUntilDrained(StopStream(k)))))

NeedsWindow(k) == IF Failed(k) \/ k.recWindow THEN k ELSE Fail(k, "INVALID_OPERATION")

\* A stream of another size is needed once the streaming has stopped, so that it can be deleted.
RecordingStream(k) ==
  IF Failed(k) THEN k
  ELSE IF k.recording = k.vsize THEN [k EXCEPT !.cbFlag = FALSE]
  ELSE UpdateRecordingStream(Ignore(WaitUntilDrained(StopStream([k EXCEPT !.cbFlag = FALSE]))))

\* A size of the pictures that does not go with the video is overridden.
RecordOuts == {"preview", "recording"}
OverrideIfRefused(k) ==
  IF k.res # "BAD_VALUE" THEN k
  ELSE StartStream(Ignore(OverrideVideoSnapshotSize(Ignore(k))), "RECORD", RecordOuts)

StreamRecording(k) ==
  IF Failed(k) THEN k ELSE OverrideIfRefused(StartStream(k, "RECORD", RecordOuts))

Recorded(k) == IF k.state = "VIDEO_SNAPSHOT" THEN k ELSE Reaches(k, "RECORD")

StartRecordingL(k, restart) ==
  CASE k.state \in {"DISCONNECTED", "WAITING_FOR_PREVIEW_WINDOW", "STILL_CAPTURE"} ->
         Fail(k, "INVALID_OPERATION")
    [] k.state \in {"RECORD", "VIDEO_SNAPSHOT"} /\ ~restart -> k
    [] OTHER -> Recorded(StreamRecording(RecordingStream(WithoutZsl(WithoutCallback(NeedsWindow(
                  IF k.state = "STOPPED" THEN StartPreviewL(k, FALSE) ELSE k))))))

UpdateRequests(k) ==
  CASE k.state = "PREVIEW" -> StartPreviewL(k, TRUE)
    [] k.state \in {"RECORD", "VIDEO_SNAPSHOT"} -> StartRecordingL(k, TRUE)
    [] OTHER -> k

\* commandStopFaceDetectionL()
StopFaceDetection(k) ==
  IF ~k.faces THEN k
  ELSE IF k.state \in {"PREVIEW", "RECORD", "VIDEO_SNAPSHOT"}
    THEN UpdateRequests([k EXCEPT !.faces = FALSE]) ELSE [k EXCEPT !.faces = FALSE]

\* The parameters that set() takes and the client uses; while recording it ignores another size
\* of the video.  A picture size that was replaced by that of the video stays so unless the new
\* one is no larger.
SetTo(k, s) ==
  LET video == IF k.state = "RECORD" THEN k.vsize ELSE s.vsize
      over == k.overridden /\ s.size > video
  IN [k EXCEPT !.lastSize = s.size, !.size = IF over THEN video ELSE s.size, !.overridden = over,
               !.psize = s.psize, !.vsize = video, !.allowZsl = s.allowZsl, !.slow = s.slow, !.hint = s.hint]

-----------------------------------------------------------------------------
(* The application's calls.                                                *)

\* The client becomes r, once the captures are done if the call waited for that.
Becomes(r) ==
  /\ r.drained => shots = {}
  /\ c' = [r EXCEPT !.drained = FALSE, !.res = "OK"]

\* What is followed on: a picture that is given up is not the end.
GivenUp == {"no request", "failed", "late"}
GoesOn  == picture.odd \subseteq GivenUp /\ seq.id <= MaxPictures

\* One call that holds the lock of the parameters and then needs that of the ZslProcessor.
CallWith(r) ==
  /\ call.at = "idle" /\ held = {} /\ ~crashed /\ c.state # "DISCONNECTED" /\ GoesOn
  /\ Becomes(r)
  /\ UNCHANGED <<call, seq, shots, held, late, errors, crashed>>

StartPreview == CallWith(StartPreviewL(c, FALSE)) /\ UNCHANGED picture

\* Without a preview window a client that is stopped goes on to record, for a preview stream
\* that is not there.
StartRecording ==
  /\ CallWith(StartRecordingL(c, FALSE))
  /\ picture' = IF c.state = "STOPPED" /\ ~c.window THEN Odd("no window") ELSE picture

StopRecording ==
  LET m == Ignore(DeleteWhenDrained(Ignore(WaitUntilDrained(StopStream(c))), "recording"))
  IN /\ c.state = "RECORD"
     /\ CallWith(StartPreviewL(RecoverOverriddenJpegSize(m), TRUE)) /\ UNCHANGED picture

StartFaceDetection ==
  /\ c.state \in {"PREVIEW", "RECORD", "VIDEO_SNAPSHOT"} /\ ~c.faces
  /\ CallWith(UpdateRequests([c EXCEPT !.faces = TRUE])) /\ UNCHANGED picture

SendStopFaceDetection == c.faces /\ CallWith(StopFaceDetection(c)) /\ UNCHANGED picture

SetPreviewCallbackFlag(on) ==
  LET m == IF c.cbSurface /\ on THEN SetCallbackWindow(c) ELSE c
      n == [m EXCEPT !.cbSurface = @ /\ ~on, !.cbFlag = on]
  IN /\ on # c.cbFlag
     /\ on => c.state \in {"STOPPED", "WAITING_FOR_PREVIEW_WINDOW", "PREVIEW", "STILL_CAPTURE"}
     /\ CallWith(IF m.res # "OK" THEN m ELSE IF n.state = "PREVIEW" THEN StartPreviewL(n, TRUE) ELSE n)
     /\ picture' = IF c.state = "STILL_CAPTURE" THEN Odd("callback") ELSE picture

SetPreviewCallbackTarget(on) ==
  LET m == SetCallbackWindow(c)
      n == [m EXCEPT !.cbSurface = on, !.cbFlag = @ /\ ~on]
  IN /\ on \/ c.cbSurface
     /\ CallWith(IF m.res # "OK" THEN m
                 ELSE CASE n.state = "PREVIEW" -> StartPreviewL(n, TRUE)
                        [] n.state \in {"RECORD", "VIDEO_SNAPSHOT"} -> StartRecordingL(n, TRUE)
                        [] OTHER -> n)
     /\ UNCHANGED picture

SetVideoTarget(on) ==
  LET m == DeleteWhenDrained(c, "recording")
  IN /\ (on \/ c.recWindow) /\ c.state \in {"STOPPED", "WAITING_FOR_PREVIEW_WINDOW", "PREVIEW"}
     /\ CallWith(IF m.res # "OK" THEN m ELSE [m EXCEPT !.recWindow = on])
     /\ UNCHANGED picture

\* May the size s of the preview be set now?
MaySet(s) == s.psize # c.psize => c.state \in {"STOPPED", "WAITING_FOR_PREVIEW_WINDOW"}

SetParameters(s, focus) ==
  LET m == SetTo(c, s)
  IN /\ MaySet(s)
     /\ CallWith(UpdateRequests(IF focus /\ m.allowZsl THEN ClearZslQueue(m) ELSE m))
     /\ picture' = IF c.state \in {"STILL_CAPTURE", "VIDEO_SNAPSHOT"} /\ s.slow # c.slow
                   THEN Odd("slow changed") ELSE picture

\* setParameters() with another focus mode, and cancelAutoFocus(), while the sequencer has
\* the lock of the ZslProcessor and is about to take that of the parameters: neither goes on.
SetParametersBlocked ==
  /\ call.at = "idle" /\ held = {"zsl"} /\ c.allowZsl /\ ~crashed
  /\ held' = held \cup {"params"}
  /\ UNCHANGED <<c, call, seq, shots, late, errors, picture, crashed>>

At(where) == call.at = where /\ held = {} /\ ~crashed
GoesTo(where) == call' = [call EXCEPT !.at = where]

\* setPreviewWindowL(): null, or a window that is not the present one
SetPreviewTarget(on) ==
  /\ At("idle") /\ (on \/ c.window) /\ c.state \in {"STOPPED", "WAITING_FOR_PREVIEW_WINDOW", "PREVIEW"}
  /\ c' = IF c.state = "PREVIEW" THEN StopStream(c) ELSE c
  /\ GoesTo(IF c.state = "STOPPED" THEN (IF on THEN "window" ELSE "noWindow")
            ELSE IF on THEN "windowStart" ELSE "noWindowStart")
  /\ UNCHANGED <<seq, shots, held, late, errors, picture, crashed>>

SetPreviewWindow ==
  LET m == DeleteWhenDrained(c, "preview")
      n == [m EXCEPT !.window = call.at \in {"window", "windowStart"}]
      starts == call.at \in {"windowStart", "noWindowStart"}
  IN /\ call.at \in {"window", "noWindow", "windowStart", "noWindowStart"} /\ held = {} /\ ~crashed
     /\ Becomes(IF m.res # "OK" THEN m ELSE n)
     /\ GoesTo(IF m.res = "OK" /\ starts THEN "start" ELSE "idle")
     /\ UNCHANGED <<seq, shots, held, late, errors, picture, crashed>>

SetPreviewStart ==
  /\ At("start")
  /\ Becomes(StartPreviewL([c EXCEPT !.state = "WAITING_FOR_PREVIEW_WINDOW"], FALSE))
  /\ GoesTo("idle")
  /\ UNCHANGED <<seq, shots, held, late, errors, picture, crashed>>

\* takePicture() under the lock of the parameters; the result is that of the last
\* togglePauseStream(), which only a slow camera looks at.
ForStill(k) ==
  IF Failed(k) \/ ~k.overridden \/ k.recording = 0 THEN Reaches(k, "STILL_CAPTURE")
  ELSE LET m == TogglePauseStream(
                  Ignore(DeleteWhenDrained(Ignore(WaitUntilDrained(Ignore(TogglePauseStream(
                    Reaches(k, "STILL_CAPTURE"), TRUE)))), "recording")), FALSE)
       IN RecoverOverriddenJpegSize(IF k.slow THEN m ELSE Ignore(m))

\* A size that does not go with the video is overridden for a snapshot.
SnapshotJpeg(k) ==
  IF k.res # "BAD_VALUE" \/ k.state # "VIDEO_SNAPSHOT" THEN k
  ELSE UpdateJpegStream(Ignore(OverrideVideoSnapshotSize(Ignore(k))))

PictureJpeg(k) ==
  IF Failed(k) \/ k.slow THEN k ELSE SnapshotJpeg(UpdateJpegStream(k))

FreshZsl(k, old) == IF k.allowZsl /\ k.jpeg # old.jpeg THEN ClearZslQueue(k) ELSE k

ForPicture(k) ==
  FreshZsl(PictureJpeg(IF k.state = "PREVIEW" THEN ForStill(StopFaceDetection(k))
                       ELSE Reaches(k, "VIDEO_SNAPSHOT")), k)

\* A larger JPEG stream is made while recording is paused, which the device then refuses to go
\* on with; nothing resumes it once the size is that of the video.
LeftPaused ==
  /\ c.state = "RECORD" /\ ~c.slow
  /\ JpegUpdate(c).res = "EBUSY" /\ UpdateJpegStream(c).res = "BAD_VALUE"

TakePicture ==
  LET r == ForPicture(c)
  IN /\ At("idle") /\ c.state \in {"PREVIEW", "RECORD"} /\ seq.id + (IF seq.busy THEN 1 ELSE 0) <= MaxPictures
     /\ Becomes(r)
     /\ IF r.res = "OK" THEN GoesTo("capture") ELSE UNCHANGED call
     /\ picture' = IF LeftPaused THEN Odd("left paused") ELSE picture
     /\ UNCHANGED <<seq, shots, held, late, errors, crashed>>

\* startCapture()
StartCapture ==
  /\ At("capture")
  /\ GoesTo("idle")
  /\ seq' = [seq EXCEPT !.start = @ \/ ~seq.busy]
  /\ UNCHANGED <<c, shots, held, late, errors, picture, crashed>>

\* stopPreviewL(), for stopPreview() and for disconnect()
StopPreview(ends) ==
  /\ At("idle") /\ c.state # "DISCONNECTED"
  /\ call' = [ends |-> ends,
              at |-> CASE c.state = "WAITING_FOR_PREVIEW_WINDOW" -> "stopped"
                       [] c.state \in {"RECORD", "PREVIEW"} -> "stop"
                       [] OTHER -> "stopWait"]
  /\ UNCHANGED <<c, seq, shots, held, late, errors, picture, crashed>>

\* waitUntilIdle(): a picture that the sequencer has not begun with is not waited for.
StopWaits ==
  /\ call.at = "stopWait" /\ ~crashed
  /\ \/ seq.at = "IDLE" /\ UNCHANGED late
     \/ seq.at # "IDLE" /\ late < MaxLate /\ late' = late + 1
  /\ GoesTo("stop")
  /\ picture' = IF seq.at # "IDLE" \/ seq.start THEN Odd("stopped") ELSE picture
  /\ UNCHANGED <<c, seq, shots, held, errors, crashed>>

StopStreaming ==
  /\ At("stop")
  /\ Becomes(Ignore(DeleteWhenDrained(Ignore(WaitUntilDrained(StopStream(c))), "recording")))
  /\ GoesTo("stopped")
  /\ UNCHANGED <<seq, shots, held, late, errors, picture, crashed>>

\* The end of stopPreviewL(), and what disconnect() does next.
Stopped ==
  /\ At("stopped")
  /\ c' = [c EXCEPT !.state = IF call.ends THEN "DISCONNECTED" ELSE "STOPPED", !.faces = FALSE]
  /\ GoesTo(IF call.ends THEN "join" ELSE "idle")
  /\ seq' = [seq EXCEPT !.exit = call.ends]
  /\ UNCHANGED <<shots, held, late, errors, picture, crashed>>

\* disconnect(): its threads are joined, then the streams are deleted.
Joined ==
  LET p == Ignore(DeleteWhenDrained(c, "preview"))
      r == Ignore(DeleteWhenDrained(p, "recording"))
      j == Ignore(JpegDelete(r))
      b == Ignore(DeleteWhenDrained(j, "callback"))
  IN /\ At("join") /\ seq.at = "EXITED"
     /\ Becomes(Ignore(ZslDelete(b)))
     /\ GoesTo("gone")
     /\ UNCHANGED <<seq, shots, held, late, errors, picture, crashed>>

-----------------------------------------------------------------------------
(* CaptureSequencer: threadLoop()                                          *)

SeqAt(where) == seq.at = where /\ ~crashed /\ "params" \notin held
CallKeeps == UNCHANGED <<call, late, errors, crashed>>

SeqIdle ==
  /\ seq.at = "IDLE" /\ seq.start /\ ~crashed
  /\ seq' = [seq EXCEPT !.at = "START", !.start = FALSE, !.busy = TRUE]
  /\ CallKeeps /\ UNCHANGED <<c, shots, held, picture>>

SeqExits ==
  /\ seq.exit /\ seq.at \notin {"DONE_STATE", "DONE_SEND", "ZSL_PUSH", "EXITED"} /\ ~crashed
  /\ seq' = [seq EXCEPT !.at = "EXITED"]
  /\ CallKeeps /\ UNCHANGED <<c, shots, held, picture>>

\* manageStart(); flash is whether the flash is on.
SeqStart(flash) ==
  /\ SeqAt("START")
  /\ seq' = [seq EXCEPT !.at = IF UseZeroShutterLag(c) /\ c.state = "STILL_CAPTURE" /\ ~flash
                                 THEN "ZSL_START" ELSE "STANDARD_START",
                        !.shutterId = seq.id, !.shutter = FALSE]
  /\ CallKeeps /\ UNCHANGED <<c, shots, held, picture>>

\* The request for the capture cannot be made: the picture is given up.
SeqStartFails ==
  /\ SeqAt("START") /\ errors < MaxErrors
  /\ seq' = [seq EXCEPT !.at = "DONE"]
  /\ errors' = errors + 1 /\ picture' = Odd("no request")
  /\ UNCHANGED <<c, call, shots, held, late, crashed>>

\* manageZslStart() up to where pushToReprocess() needs the parameters; pinned is whether
\* the ring buffer still has the picture of the result.
SeqZslStart(pinned) ==
  LET has == c.frames /\ (c.producer \/ c.zsl # 0)
  IN /\ SeqAt("ZSL_START") /\ (pinned => has)
     /\ c' = IF ~has THEN c
             ELSE IF pinned THEN [StopStream(c) EXCEPT !.producer = TRUE, !.pinned = TRUE]
             ELSE [c EXCEPT !.producer = TRUE, !.pinned = FALSE]
     /\ seq' = [seq EXCEPT !.at = IF pinned THEN "ZSL_PUSH" ELSE "STANDARD_START",
                           !.listens = @ \cup {seq.id}]
     /\ held' = IF pinned THEN {"zsl"} ELSE held
     /\ CallKeeps /\ UNCHANGED <<shots, picture>>

SeqZslPush ==
  LET m == Submit(c, {"jpeg"})
  IN /\ SeqAt("ZSL_PUSH")
     /\ c' = [Ignore(m) EXCEPT !.locked = @ \/ m.res = "OK"]
     /\ seq' = [seq EXCEPT !.at = IF m.res = "OK" THEN "CAPTURE_WAIT" ELSE "STANDARD_START"]
     /\ shots' = IF m.res # "OK" THEN shots
                 ELSE shots \cup {[id |-> seq.id, try |-> seq.errs,
                                   due |-> {"shutter", "result", "jpeg", "input"}]}
     /\ held' = {}
     /\ CallKeeps /\ UNCHANGED picture

SeqStandardStart(converged) ==
  /\ SeqAt("STANDARD_START")
  /\ seq' = [seq EXCEPT !.at = IF converged THEN "STANDARD_CAPTURE" ELSE "PRECAPTURE_WAIT",
                        !.listens = @ \cup {seq.id}]
  /\ CallKeeps /\ UNCHANGED <<c, shots, held, picture>>

\* The exposure is settled, or that has taken too long.
SeqPrecaptureWait ==
  /\ SeqAt("PRECAPTURE_WAIT")
  /\ seq' = [seq EXCEPT !.at = "STANDARD_CAPTURE"]
  /\ CallKeeps /\ UNCHANGED <<c, shots, held, picture>>

JpegWhenPaused(k) == IF Failed(k) THEN k ELSE UpdateJpegStream(Ignore(WaitUntilDrained(k)))

\* createJpegStreamL(): the stream that is paused here stays so.
CreateJpegStreamL(k) ==
  IF k.jpeg # 0 THEN k ELSE JpegWhenPaused(TogglePauseStream(k, TRUE))

CaptureOuts(k) ==
  {"preview", "jpeg"} \cup (IF k.cbFlag THEN {"callback"} ELSE {})
    \cup (IF k.state = "VIDEO_SNAPSHOT" THEN {"recording"} ELSE {})

\* manageStandardCapture(): a still picture takes the place of the preview.
SeqStandardCapture ==
  LET m == CreateJpegStreamL(c)
      n == IF m.state = "STILL_CAPTURE" THEN StopStream(m) ELSE m
      o == IF m.res # "OK" THEN m ELSE Submit(n, CaptureOuts(m))
  IN /\ SeqAt("STANDARD_CAPTURE")
     /\ Becomes(o)
     /\ seq' = [seq EXCEPT !.at = IF o.res = "OK" THEN "CAPTURE_WAIT" ELSE "DONE"]
     /\ shots' = IF o.res # "OK" THEN shots
                 ELSE shots \cup {[id |-> seq.id, try |-> seq.errs, due |-> {"shutter", "result", "jpeg"}]}
     /\ picture' = IF c.jpeg = 0 /\ c.state = "VIDEO_SNAPSHOT" THEN Odd("left paused") ELSE picture
     /\ CallKeeps /\ UNCHANGED held

SeqCaptureAgain ==
  /\ SeqAt("CAPTURE_WAIT") /\ seq.shutter /\ seq.got /\ seq.errs \in 1..kMaxRetryCount
  /\ seq' = [seq EXCEPT !.at = "STANDARD_CAPTURE", !.got = FALSE]
  /\ CallKeeps /\ UNCHANGED <<c, shots, held, picture>>

\* What came is not taken away: every later picture ends here too.
SeqCaptureFails ==
  /\ SeqAt("CAPTURE_WAIT") /\ seq.shutter /\ seq.got /\ seq.errs > kMaxRetryCount
  /\ seq' = [seq EXCEPT !.at = "DONE"]
  /\ picture' = Odd("failed")
  /\ CallKeeps /\ UNCHANGED <<c, shots, held>>

\* Mutant of SeqCaptureDone: what came is taken to be there for the next picture too.
SeqCaptureDoneKeeps ==
  /\ SeqAt("CAPTURE_WAIT") /\ seq.shutter /\ seq.frame /\ seq.got /\ seq.errs = 0
  /\ seq' = [seq EXCEPT !.at = "DONE", !.listens = @ \ {seq.id}]
  /\ CallKeeps /\ UNCHANGED <<c, shots, held, picture>>

SeqCaptureDone ==
  /\ SeqAt("CAPTURE_WAIT") /\ seq.shutter /\ seq.frame /\ seq.got /\ seq.errs = 0
  /\ seq' = [seq EXCEPT !.at = "DONE", !.frame = FALSE, !.got = FALSE, !.listens = @ \ {seq.id}]
  /\ CallKeeps /\ UNCHANGED <<c, shots, held, picture>>

\* The waits have taken too long.  Is what is waited for still due?
Awaited ==
  \/ \E s \in shots : s.id = seq.id
  \/ c.done \/ (seq.shutter /\ seq.got /\ (seq.frame \/ seq.errs > 0))

SeqCaptureLate ==
  /\ SeqAt("CAPTURE_WAIT") /\ ~(seq.shutter /\ seq.got /\ (seq.frame \/ seq.errs > 0))
  /\ IF Awaited THEN late < MaxLate /\ late' = late + 1 ELSE UNCHANGED late
  /\ seq' = [seq EXCEPT !.at = "DONE"]
  /\ picture' = Odd("late")
  /\ UNCHANGED <<c, call, shots, held, errors, crashed>>

\* manageDone(), in three steps
SeqDone ==
  /\ SeqAt("DONE")
  /\ seq' = [seq EXCEPT !.at = "DONE_STATE", !.id = @ + 1, !.busy = FALSE]
  /\ CallKeeps /\ UNCHANGED <<c, shots, held, picture>>

SeqDoneState ==
  LET m == IF c.state = "STILL_CAPTURE" THEN WaitUntilDrained(c) ELSE c
      to == CASE c.state = "STILL_CAPTURE" -> "STOPPED" [] c.state = "VIDEO_SNAPSHOT" -> "RECORD"
              [] OTHER -> c.state
  IN /\ SeqAt("DONE_STATE")
     /\ Becomes([m EXCEPT !.state = to])
     /\ seq' = [seq EXCEPT !.at = "DONE_SEND",
                           !.res = IF to = c.state THEN "INVALID_OPERATION" ELSE m.res]
     /\ CallKeeps /\ UNCHANGED <<shots, held, picture>>

SeqDoneSend ==
  LET sends == seq.buffer # 0 /\ seq.res = "OK"
  IN /\ SeqAt("DONE_SEND") /\ held = {}
     /\ c' = ClearZslQueue(c)
     /\ seq' = [seq EXCEPT !.at = "IDLE", !.buffer = 0, !.res = "OK"]
     /\ picture' = [picture EXCEPT !.is = IF ~sends THEN "lost"
                                          ELSE IF seq.buffer = seq.id - 1 THEN "got" ELSE "wrong"]
     /\ CallKeeps /\ UNCHANGED <<shots, held>>

-----------------------------------------------------------------------------
(* What the device tells, and the threads it wakes.                        *)

\* onCaptureAvailable()
CaptureAvailable(q, buffer, failed) ==
  [q EXCEPT !.buffer = buffer, !.got = TRUE,
            !.errs = IF q.got THEN @ ELSE IF failed THEN @ + 1 ELSE 0]

\* External: something that is due of a capture comes, the shutter first.
Gets(s, what) ==
  LET rest == s.due \ {what}
  IN /\ what \in s.due /\ (what = "shutter" \/ "shutter" \notin s.due) /\ ~crashed
     /\ shots' = (shots \ {s}) \cup (IF rest = {} THEN {} ELSE {[s EXCEPT !.due = rest]})
     /\ UNCHANGED <<call, held, late, errors, picture, crashed>>

NotifyShutter(s) ==
  /\ Gets(s, "shutter")
  /\ seq' = [seq EXCEPT !.shutter = @ \/ s.id = seq.shutterId]
  /\ UNCHANGED c

\* CaptureSequencer::onResultAvailable(), while it listens for this capture
OnResultAvailable(s) ==
  /\ Gets(s, "result")
  /\ seq' = [seq EXCEPT !.frame = @ \/ s.id \in seq.listens]
  /\ UNCHANGED c

\* JpegProcessor::onFrameAvailable()
OnFrameAvailable(s) ==
  /\ Gets(s, "jpeg")
  /\ c' = [c EXCEPT !.jpegs = Append(@, s.id), !.done = TRUE]
  /\ UNCHANGED seq

\* The buffer for the JPEG is lost.
BufferError(s) ==
  /\ errors < MaxErrors /\ ~crashed /\ "jpeg" \in s.due /\ "shutter" \notin s.due
  /\ shots' = (shots \ {s}) \cup (IF s.due = {"jpeg"} THEN {} ELSE {[s EXCEPT !.due = @ \ {"jpeg"}]})
  /\ seq' = CaptureAvailable(seq, 0, TRUE)
  /\ errors' = errors + 1
  /\ UNCHANGED <<c, call, held, late, picture, crashed>>

\* The whole capture fails; a reprocessed picture is released all the same.
RequestError(s) ==
  /\ errors < MaxErrors /\ ~crashed /\ "result" \in s.due /\ "jpeg" \in s.due
  /\ shots' = (shots \ {s}) \cup (IF "input" \in s.due THEN {[s EXCEPT !.due = {"input"}]} ELSE {})
  /\ seq' = IF s.id = seq.shutterId THEN CaptureAvailable(seq, 0, TRUE) ELSE seq
  /\ errors' = errors + 1
  /\ UNCHANGED <<c, call, held, late, picture, crashed>>

\* ZslProcessor::notifyInputReleased()
NotifyInputReleased(s) ==
  /\ "zsl" \notin held /\ ~crashed /\ "input" \in s.due
  /\ shots' = (shots \ {s}) \cup (IF s.due = {"input"} THEN {} ELSE {[s EXCEPT !.due = @ \ {"input"}]})
  /\ c' = [c EXCEPT !.detach = @ + 1]
  /\ UNCHANGED <<call, seq, held, late, errors, picture, crashed>>

\* JpegProcessor::threadLoop() and processNewCapture()
JpegThread ==
  LET takes == c.jpeg # 0 /\ c.jpegs # <<>>
  IN /\ c.done /\ ~crashed
     /\ c' = [c EXCEPT !.done = FALSE, !.jpegs = IF takes THEN Tail(@) ELSE @]
     /\ seq' = IF takes THEN CaptureAvailable(seq, Head(c.jpegs), FALSE) ELSE seq
     /\ UNCHANGED <<call, shots, held, late, errors, picture, crashed>>

\* ZslProcessor::threadLoop() and doNotifyInputReleasedLocked(): neither pointer is looked at.
ZslThread ==
  /\ c.detach > 0 /\ "zsl" \notin held /\ ~crashed
  /\ crashed' = ~(c.producer /\ c.pinned)
  /\ c' = [c EXCEPT !.detach = @ - 1, !.pinned = FALSE, !.frames = FALSE, !.locked = FALSE]
  /\ UNCHANGED <<call, seq, shots, held, late, errors, picture>>

\* ZslProcessor::onResultAvailable(): frames of the preview
PreviewFrame ==
  /\ Repeating(c) = "PREVIEW" /\ "zsl" \in c.outs /\ ~c.locked /\ ~c.frames
  /\ held = {} /\ ~crashed
  /\ c' = [c EXCEPT !.frames = TRUE]
  /\ UNCHANGED <<call, seq, shots, held, late, errors, picture, crashed>>

-----------------------------------------------------------------------------
CallSteps == SetPreviewWindow \/ SetPreviewStart \/ StartCapture \/ StopWaits \/ StopStreaming \/ Stopped \/ Joined

SeqSteps ==
  \/ SeqIdle \/ SeqExits \/ SeqStartFails \/ SeqZslPush \/ SeqPrecaptureWait \/ SeqStandardCapture
  \/ SeqCaptureAgain \/ SeqCaptureFails \/ SeqCaptureDone \/ SeqCaptureLate
  \/ SeqDone \/ SeqDoneState \/ SeqDoneSend
  \/ \E b \in BOOLEAN : SeqStart(b) \/ SeqZslStart(b) \/ SeqStandardStart(b)

DeviceSteps ==
  \/ JpegThread \/ ZslThread
  \/ \E s \in shots : NotifyShutter(s) \/ OnResultAvailable(s) \/ OnFrameAvailable(s) \/ NotifyInputReleased(s)

ClientNext ==
  \/ StartPreview \/ StartRecording \/ StopRecording \/ StartFaceDetection \/ SendStopFaceDetection
  \/ \E on \in BOOLEAN : \/ SetPreviewCallbackFlag(on) \/ SetPreviewCallbackTarget(on)
                         \/ SetVideoTarget(on) \/ SetPreviewTarget(on) \/ StopPreview(on)
  \/ \E s \in Settings, focus \in BOOLEAN : SetParameters(s, focus)
  \/ SetParametersBlocked \/ TakePicture
  \/ CallSteps \/ SeqSteps \/ DeviceSteps \/ PreviewFrame
  \/ \E s \in shots : BufferError(s) \/ RequestError(s)

-----------------------------------------------------------------------------
\* Between calls the device repeats what the state of the client says, for streams that it has.
\* A still picture given up before the capture leaves the preview on.
StreamingAgrees ==
  call.at = "idle" /\ picture.odd \subseteq GivenUp =>
    /\ c.state = "PREVIEW" => c.active # "NONE" /\ ~c.paused /\ "preview" \in c.outs
    /\ c.state \in {"RECORD", "VIDEO_SNAPSHOT"} =>
         c.active = "RECORD" /\ ~c.paused /\ "recording" \in c.outs /\ c.recording = c.vsize
    /\ c.state \in {"STOPPED", "WAITING_FOR_PREVIEW_WINDOW"} /\ "no request" \notin picture.odd =>
         c.active = "NONE"
    /\ \A s \in c.outs : c[s] # 0

\* A picture that was taken is delivered, and another only when the sequencer gave up waiting.
PictureDelivered ==
  /\ picture.odd = {} => picture.is \in {"none", "got"}
  /\ picture.is = "wrong" => "late" \in picture.odd

(* Whatever calls, captures, retries and threads come between: between two calls *)
(* of the application the device repeats what the state of Camera2Client says,   *)
(* for streams that exist, and each picture that takePicture() began is the one  *)
(* the application then gets.  What the client is known not to handle ends this: *)
(* recording without a window, a callback set while a picture is taken, a        *)
(* setting of slow pictures that changes then, a picture overtaken by a stop,    *)
(* a stream left paused.  A capture that the CaptureSequencer gives up loses     *)
(* its picture and nothing else, but for the JPEG of a wait that was given up    *)
(* while it was due: that alone may come out as a later picture.                 *)
ClientAgrees == StreamingAgrees /\ PictureDelivered
====
