--------------------------- MODULE MCCameraClient ---------------------------
(* A client of the old camera interface.  Its calls and pictures, its      *)
(* autofocus and its parameters do not depend on each other beyond what    *)
(* each of the modules has of it, so that a behaviour is about one part.   *)
(* The calls have two: all of them with one picture, and several pictures  *)
(* without what does not belong to them.                                   *)
EXTENDS Camera2Client, CameraFocus, CameraParams, TLC

VARIABLE part

\* A camera with zero shutter lag, and one whose pictures are slow and that is set to record.
MCSettings ==
  {[size |-> 3, psize |-> 1, vsize |-> 2, allowZsl |-> TRUE, slow |-> FALSE, hint |-> FALSE],
   [size |-> 2, psize |-> 1, vsize |-> 1, allowZsl |-> FALSE, slow |-> TRUE, hint |-> TRUE]}

MCModes == {"AUTO", "CONTINUOUS", "FIXED"}

\* A camera of many sizes and rates and nothing else, and one with all the modes.
Webcam == [previewSizes |-> {1, 2}, videoSizes |-> {1, 2}, jpegSizes |-> {2, 3}, initialBound |-> 2,
  formats |-> {"YUV420SP"}, fps |-> {<<15, 30>>, <<30, 30>>, <<60, 60>>},
  previewFps |-> [s \in {1, 2} |-> 60], jpegFps |-> (2 :> 30 @@ 3 :> 20), zslFps |-> 30, fastLargest |-> TRUE,
  reprocess |-> TRUE, effects |-> {"OFF"}, scenes |-> {}, overrides |-> <<>>,
  flash |-> FALSE, redEye |-> FALSE, wbs |-> {"AUTO"}, focusModes |-> {}, fixedLens |-> TRUE,
  maxAf |-> 0, maxAe |-> 0, aeLock |-> FALSE, maxZoom |-> 1, array |-> 40, aspect |-> <<1, 1>>, faces |-> FALSE]
Phone == [Webcam EXCEPT !.previewSizes = {2}, !.videoSizes = {2}, !.jpegSizes = {3}, !.fps = {<<15, 24>>},
  !.effects = {"OFF", "MONO"}, !.scenes = {"FACE_PRIORITY", "NIGHT", "SPORTS"},
  !.overrides = [NIGHT |-> [flash |-> "OFF", wb |-> "AUTO", focus |-> "AUTO"],
                 SPORTS |-> [flash |-> "INVALID", wb |-> "DAYLIGHT", focus |-> "INFINITY"]],
  !.flash = TRUE, !.wbs = {"AUTO", "DAYLIGHT"}, !.focusModes = {"AUTO", "CONTINUOUS"}, !.fixedLens = FALSE,
  !.maxAf = 1, !.maxAe = 1, !.aeLock = TRUE, !.maxZoom = 4, !.aspect = <<3, 4>>, !.faces = TRUE]
MCInfos == {Webcam, Phone}
A(f, t, w) == [from |-> f, to |-> t, weight |-> w]
Rate(n) == [single |-> TRUE, range |-> <<15, 30>>, rate |-> n]
Each(k, vs) == {k :> v : v \in vs}
MCChanges ==
  UNION {Each("size", {1, 2, 3}), Each("format", {"RGB"}), {"hint" :> TRUE @@ "fps" :> Rate(30), "hint" :> FALSE @@ "fps" :> Rate(30)},
         Each("fps", {[single |-> FALSE, range |-> <<15, 30>>, rate |-> 30], Rate(30), Rate(60), Rate(99)}),
         Each("picture", {1, 2, 3}), Each("quality", {101}), Each("gps", {"partial"}), Each("effect", {"SEPIA"}),
         Each("scene", {"auto", "SPORTS", "BEACH"}), Each("flash", {"OFF", "ON", "RED_EYE"}),
         Each("wb", {"AUTO", "OTHER"}), Each("focus", {"AUTO", "FIXED", "EDOF"}),
         Each("focusAreas", {NoArea, <<A(999, 1000, 1)>>, <<A(0, 0, 1)>>}), Each("aeLock", {"true"}),
         Each("meteringAreas", {<<A(0, 1, 1), A(0, 1, 1)>>}), Each("zoom", {100}),
         {"zoom" :> 37 @@ "meteringAreas" :> <<A(-1000, -999, 1)>>},
         Each("video", {1, 2}), {"focus" :> "FIXED" @@ "focusAreas" :> NoArea}}

\* The parts that do not move have one initial state.
MCInit ==
  /\ ClientInit /\ FocusInit /\ ParamInit
  /\ part \in {"client", "pictures", "focus", "parameters"}
  /\ part \notin {"client", "pictures"} => ~c.slow
  /\ part # "focus" => foc.mode = "AUTO"
  /\ part # "parameters" => info = Webcam

\* One picture and one error, and no further once something odd has happened.
Calls ==
  /\ picture.odd = {} /\ errors' <= 1
  /\ call.at = "idle" /\ call'.at = "capture" => seq.id = 1 /\ ~seq.busy
\* The settings and the windows stay; no callbacks, no face detection and no end.
Pictures ==
  /\ c'.slow = c.slow /\ (c.window => c'.window) /\ (c.recWindow => c'.recWindow)
  /\ ~c'.cbFlag /\ ~c'.cbSurface /\ ~c'.faces /\ ~call'.ends

ClientStep ==
  /\ part \in {"client", "pictures"} /\ ClientNext
  /\ IF part = "client" THEN Calls ELSE Pictures
  /\ UNCHANGED <<focusVars, paramVars, part>>
FocusStep  == part = "focus" /\ FocusNext /\ UNCHANGED <<clientVars, paramVars, part>>
ParamStep  == part = "parameters" /\ ParamNext /\ UNCHANGED <<clientVars, focusVars, part>>

MCNext == ClientStep \/ FocusStep \/ ParamStep
=============================================================================
