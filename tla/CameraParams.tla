---------------------------- MODULE CameraParams ----------------------------
(***************************************************************************)
(* The parameters of a client of the old camera interface: what the        *)
(* application reads as text, changes and sets again, the values that are  *)
(* kept of it, and the request that is made of these for the camera.       *)
(*                                                                         *)
(* A size is a number, larger in both directions than a smaller one.  Keys *)
(* that are treated alike are one: "effect" stands for the thumbnail size, *)
(* the antibanding mode and the effect, which are looked up if they have   *)
(* changed, "quality" for the qualities, the rotation and the exposure     *)
(* compensation, which always have to be in their range, and "aeLock" for  *)
(* both locks.  An area is the interval of one direction with its weight.  *)
(***************************************************************************)
EXTENDS Integers, Sequences

CONSTANTS
  Infos,   \* the cameras: what their static metadata says
  Changes  \* what the application changes: functions from some of the keys to their texts

ASSUME CameraParamsAssumption ==
  \A i \in Infos : /\ i.previewSizes \cap i.videoSizes # {} /\ i.jpegSizes # {} /\ i.fps # {}
                   /\ i.array > 1 /\ i.maxZoom > 0 /\ {i.aspect[1], i.aspect[2]} \subseteq Nat \ {0}

VARIABLES
  info,    \* the static metadata
  pr,      \* Parameters
  text,    \* paramsFlattened
  pstate,  \* Parameters::state
  since    \* history: has a text been accepted, and one while the picture size was overridden?

paramVars == <<info, pr, text, pstate, since>>

Keys == {"size", "format", "hint", "fps", "picture", "quality", "gps", "effect", "scene", "flash", "wb",
         "focus", "focusAreas", "aeLock", "meteringAreas", "zoom", "video"}

NoArea == <<[from |-> 0, to |-> 0, weight |-> 0]>>
MAX_DEFAULT_FPS == 30
FPS_MARGIN == 1
NUM_ZOOM_STEPS == 100

Largest(sizes)  == CHOOSE s \in sizes : \A t \in sizes : t <= s

-----------------------------------------------------------------------------
(* What initialize() and buildFastInfo() find out about the camera.        *)

\* isFpsSupported(), for every size of the preview
IsFpsSupported(i, max) == \A s \in i.previewSizes : max <= i.previewFps[s] + FPS_MARGIN

\* The widest range, for still pictures
BestStillCaptureFpsRange(i) ==
  LET ranges == {r \in i.fps : IsFpsSupported(i, r[2]) /\ r[2] <= MAX_DEFAULT_FPS}
      width(r) == r[2] - r[1]
  IN CHOOSE r \in ranges : \A q \in ranges : width(q) < width(r) \/ (width(q) = width(r) /\ r[1] <= q[1])

DefaultScene(i) == IF "FACE_PRIORITY" \in i.scenes THEN "FACE_PRIORITY" ELSE "DISABLED"

SceneModeOverrides(i, scene) ==
  IF scene \in DOMAIN i.overrides THEN i.overrides[scene]
  ELSE [flash |-> "INVALID", wb |-> "OFF", focus |-> "INVALID"]

InitialValues(i) ==
  LET size == Largest({s \in i.previewSizes \cap i.videoSizes : s <= i.initialBound})
      picture == Largest(i.jpegSizes)
      slow == ~i.fastLargest
  IN [size |-> size, video |-> size, format |-> "YUV420SP", hint |-> FALSE,
      fps |-> BestStillCaptureFpsRange(i), picture |-> picture, lastSet |-> picture,
      overridden |-> FALSE, quality |-> 90, gps |-> FALSE, effect |-> "OFF", scene |-> "DISABLED",
      flash |-> "OFF", wb |-> "AUTO", focus |-> IF i.fixedLens THEN "FIXED" ELSE "AUTO",
      focusAreas |-> NoArea, meteringAreas |-> NoArea, aeLock |-> FALSE, zoom |-> 0, faces |-> FALSE,
      slow |-> slow, allowZsl |-> i.reprocess /\ ~slow]

InitialText(i, p) ==
  [size |-> p.size, video |-> p.size, format |-> p.format, hint |-> FALSE,
   fps |-> [single |-> FALSE, range |-> p.fps, rate |-> p.fps[2]], picture |-> p.picture,
   quality |-> 90, gps |-> "none", effect |-> "OFF", scene |-> IF i.scenes = {} THEN "none" ELSE "auto",
   flash |-> IF i.flash THEN "OFF" ELSE "none", wb |-> "AUTO", focus |-> p.focus, focusAreas |-> NoArea,
   meteringAreas |-> NoArea, aeLock |-> IF i.aeLock THEN "false" ELSE "none", zoom |-> 0]

ParamInit ==
  /\ info \in Infos
  /\ pr = InitialValues(info)
  /\ text = InitialText(info, pr)
  /\ pstate = "STOPPED"
  /\ since = [set |-> FALSE, setOverridden |-> FALSE]

-----------------------------------------------------------------------------
(* set(): one operator for each key.                                       *)

Running == {"PREVIEW", "RECORD", "STILL_CAPTURE", "VIDEO_SNAPSHOT"}

SizeValid(t) == t.size # pr.size => pstate \notin Running /\ t.size \in info.previewSizes

FormatValid(t) == t.format # pr.format => pstate \notin Running /\ t.format \in info.formats

\* For a single value: the ranges that hold it, the usual ones if there are any.
Candidates(t) ==
  LET all == {r \in info.fps : IsFpsSupported(info, r[2]) /\ r[1] <= t.fps.rate /\ t.fps.rate <= r[2]}
      usual == {r \in all : r[2] <= MAX_DEFAULT_FPS}
  IN IF usual # {} THEN usual ELSE all

\* A steady rate for recording, a range as wide as can be for everything else
BestRange(t) ==
  CHOOSE r \in Candidates(t) : \A q \in Candidates(t) :
    \/ IF t.hint THEN q[1] < r[1] ELSE q[1] > r[1]
    \/ q[1] = r[1] /\ r[2] <= q[2]

FpsValid(t) == IF t.fps.single THEN Candidates(t) # {} ELSE t.fps.range \in info.fps
Fps(t)      == IF t.fps.single THEN BestRange(t) ELSE t.fps.range

PictureValid(t) == t.picture # pr.picture => t.picture \in info.jpegSizes
QualityValid(t) == t.quality \in 0..100
GpsValid(t)     == t.gps # "partial"
EffectValid(t)  == t.effect # pr.effect => t.effect \in info.effects

Scene(t)      == IF t.scene \in {"none", "auto"} THEN DefaultScene(info) ELSE t.scene
SceneValid(t) == Scene(t) \in {pr.scene, "DISABLED"} \cup info.scenes
Override(t)   == SceneModeOverrides(info, IF Scene(t) = DefaultScene(info) THEN "none" ELSE Scene(t))

Flash(t) == IF Override(t).flash # "INVALID" THEN Override(t).flash
            ELSE IF t.flash = "none" THEN "OFF" ELSE t.flash
FlashValid(t) ==
  Flash(t) # pr.flash =>
    /\ info.flash \/ Flash(t) = "OFF"
    /\ Flash(t) = "RED_EYE" => info.redEye
    /\ Flash(t) # "INVALID"

Wb(t)      == IF Override(t).wb # "OFF" THEN Override(t).wb ELSE t.wb
WbValid(t) == Wb(t) # pr.wb => Wb(t) \in info.wbs

Focus(t) == IF Override(t).focus # "INVALID" THEN Override(t).focus ELSE t.focus
FocusValid(t) ==
  Focus(t) # pr.focus /\ Focus(t) # "FIXED" =>
    ~info.fixedLens /\ (Focus(t) = "INFINITY" \/ Focus(t) \in info.focusModes)

\* validateAreas(), which looks at the focus mode before this call
AreasValid(areas, max, forFocus) ==
  \/ areas = NoArea
  \/ /\ ~(forFocus /\ pr.focus = "FIXED")
     /\ Len(areas) \in 1..max
     /\ \A n \in 1..Len(areas) : /\ areas[n].weight \in 1..1000
                                 /\ {areas[n].from, areas[n].to} \subseteq -1000..1000
                                 /\ areas[n].from < areas[n].to

LockValid(t)  == info.aeLock \/ t.aeLock = "none"
ZoomValid(t)  == info.maxZoom > 1 => t.zoom \in 0..(NUM_ZOOM_STEPS - 1)
VideoValid(t) == t.video # pr.video /\ pstate # "RECORD" => t.video \in info.videoSizes
Video(t)      == IF pstate = "RECORD" THEN pr.video ELSE t.video

Valid(t) ==
  /\ SizeValid(t) /\ FpsValid(t) /\ FormatValid(t) /\ PictureValid(t) /\ QualityValid(t) /\ GpsValid(t)
  /\ EffectValid(t) /\ SceneValid(t) /\ FlashValid(t) /\ WbValid(t) /\ FocusValid(t)
  /\ AreasValid(t.focusAreas, info.maxAf, TRUE) /\ LockValid(t)
  /\ AreasValid(t.meteringAreas, info.maxAe, FALSE) /\ ZoomValid(t) /\ VideoValid(t)

\* The pictures are too slow for the preview, and what follows for the ZSL mode.
SlowJpeg(p) == p.picture \notin DOMAIN info.jpegFps \/ p.fps[2] > info.jpegFps[p.picture] + FPS_MARGIN

AllowZsl(p) == info.reprocess /\ ~SlowJpeg(p) /\ p.fps[2] <= info.zslFps + FPS_MARGIN

\* Mutant of UpdateOverriddenJpegSize: the size that was set is forgotten.
UpdateOverriddenKept(p) ==
  IF ~p.overridden THEN p
  ELSE LET stays == p.picture > p.video
       IN [p EXCEPT !.overridden = stays, !.picture = IF stays THEN p.video ELSE @]

\* updateOverriddenJpegSize()
UpdateOverriddenJpegSize(p) ==
  IF ~p.overridden THEN p
  ELSE LET stays == p.picture > p.video
       IN [p EXCEPT !.lastSet = p.picture, !.overridden = stays,
                    !.picture = IF stays THEN p.video ELSE @]

Values(t) ==
  LET p == UpdateOverriddenJpegSize(
             [pr EXCEPT !.size = t.size, !.format = t.format, !.hint = t.hint, !.fps = Fps(t),
                        !.picture = t.picture, !.quality = t.quality, !.gps = t.gps = "full",
                        !.effect = t.effect, !.scene = Scene(t), !.flash = Flash(t), !.wb = Wb(t),
                        !.focus = Focus(t),
                        !.focusAreas = t.focusAreas, !.meteringAreas = t.meteringAreas,
                        !.aeLock = t.aeLock = "true",
                        !.zoom = IF info.maxZoom > 1 THEN t.zoom ELSE @, !.video = Video(t)])
  IN [p EXCEPT !.slow = SlowJpeg(p), !.allowZsl = AllowZsl(p)]

\* What the application reads afterwards: of what a scene mode overrides, only what it changed.
TextAfter(t) ==
  [t EXCEPT !.fps = [single |-> t.fps.single, range |-> Fps(t),
                     rate |-> IF t.fps.single THEN t.fps.rate ELSE Fps(t)[2]],
            !.flash = IF Flash(t) # pr.flash /\ info.flash THEN Flash(t) ELSE @,
            !.wb = IF Wb(t) # pr.wb THEN Wb(t) ELSE @,
            !.focus = IF Focus(t) # pr.focus THEN Focus(t) ELSE @,
            !.video = Video(t)]

-----------------------------------------------------------------------------
(* What the client does with the parameters.                               *)

\* setParameters() with what was read, some of it changed; what is refused changes nothing.
SetParams(change) ==
  LET t == [k \in Keys |-> IF k \in DOMAIN change THEN change[k] ELSE text[k]]
  IN /\ Valid(t)
     /\ pr' = Values(t) /\ text' = TextAfter(t)
     /\ since' = [set |-> TRUE, setOverridden |-> pr.overridden]
     /\ UNCHANGED <<info, pstate>>

\* overrideJpegSizeByVideoSize(), for a recording
OverrideJpegSize ==
  /\ pstate \in {"RECORD", "VIDEO_SNAPSHOT"} /\ ~pr.overridden
  /\ pr' = [pr EXCEPT !.overridden = TRUE, !.lastSet = pr.picture, !.picture = pr.video]
  /\ UNCHANGED <<info, text, pstate, since>>

RecoverJpegSize ==
  /\ pstate = "PREVIEW" /\ pr.overridden
  /\ pr' = [pr EXCEPT !.overridden = FALSE, !.picture = pr.lastSet]
  /\ UNCHANGED <<info, text, pstate, since>>

\* commandStartFaceDetectionL() and commandStopFaceDetectionL()
DetectFaces ==
  /\ pstate \in {"PREVIEW", "RECORD"} /\ info.faces
  /\ pr' = [pr EXCEPT !.faces = ~@]
  /\ UNCHANGED <<info, text, pstate, since>>

\* External: Camera2Client starts and stops.
StateMoves(to) ==
  /\ <<pstate, to>> \in {<<"STOPPED", "PREVIEW">>, <<"PREVIEW", "RECORD">>, <<"RECORD", "VIDEO_SNAPSHOT">>,
                         <<"VIDEO_SNAPSHOT", "RECORD">>, <<"RECORD", "PREVIEW">>, <<"PREVIEW", "STOPPED">>}
  /\ pstate' = to
  /\ UNCHANGED <<info, pr, text, since>>

ParamNext ==
  \/ \E change \in Changes : SetParams(change)
  \/ OverrideJpegSize \/ RecoverJpegSize \/ DetectFaces
  \/ \E to \in {"STOPPED", "PREVIEW", "RECORD", "VIDEO_SNAPSHOT"} : StateMoves(to)

-----------------------------------------------------------------------------
(* updateRequest()                                                         *)

\* calculateCropRegion(): how wide it is, over 99 + (maxZoom - 1) * zoom; a preview that is
\* narrower than the array has less of it.
ZoomOver(p) == (NUM_ZOOM_STEPS - 1) + (info.maxZoom - 1) * p.zoom
CropWidth(p, previewOnly) ==
  LET whole == info.array * (NUM_ZOOM_STEPS - 1)
  IN IF previewOnly THEN (whole * info.aspect[1]) \div info.aspect[2] ELSE whole

CropLeft(p, previewOnly) == (info.array * ZoomOver(p) - CropWidth(p, previewOnly)) \div (2 * ZoomOver(p))

\* normalizedXToCrop() and cropXToArray()
NormalizedToArray(p, x) ==
  ((x + 1000) * (CropWidth(p, TRUE) - ZoomOver(p))) \div (2000 * ZoomOver(p)) + CropLeft(p, TRUE)

ReqFocusingAreas(p) ==
  [n \in 1..Len(p.focusAreas) |->
     LET a == p.focusAreas[n]
     IN IF a.weight = 0 THEN [from |-> 0, to |-> 0, weight |-> 0]
        ELSE [from |-> NormalizedToArray(p, a.from), to |-> NormalizedToArray(p, a.to), weight |-> a.weight]]

\* An area for metering is not empty.
ReqMeteringAreas(p) ==
  [n \in 1..Len(p.meteringAreas) |->
     LET a == p.meteringAreas[n]
         from == NormalizedToArray(p, a.from)
         to == NormalizedToArray(p, a.to)
     IN IF a.weight = 0 THEN [from |-> 0, to |-> 0, weight |-> 0]
        ELSE [from |-> from, to |-> IF to = from THEN to + 1 ELSE to, weight |-> a.weight]]

ReqScene(p) ==
  IF p.scene # "DISABLED" THEN p.scene ELSE IF p.faces THEN "FACE_PRIORITY" ELSE DefaultScene(info)

\* May the camera be sent this?
RequestFits(p) ==
  /\ p.flash \in {"OFF", "AUTO", "ON", "TORCH", "RED_EYE"}
  /\ p.flash # "OFF" => info.flash
  /\ p.flash = "RED_EYE" => info.redEye
  /\ p.focus \in {"INFINITY", "FIXED"} \cup info.focusModes
  /\ p.wb \in info.wbs
  /\ ReqScene(p) \in info.scenes \cup {"DISABLED", "FACE_PRIORITY"}
  /\ \A n \in 1..Len(p.focusAreas) :
       LET a == ReqFocusingAreas(p)[n] IN 0 <= a.from /\ a.from <= a.to /\ a.to < info.array
  /\ \A n \in 1..Len(p.meteringAreas) :
       LET a == ReqMeteringAreas(p)[n]
       IN 0 <= a.from /\ a.to < info.array /\ (a.weight # 0 => a.from < a.to)
  /\ CropLeft(p, FALSE) >= 0 /\ CropWidth(p, FALSE) <= info.array * ZoomOver(p)

-----------------------------------------------------------------------------
\* What the application reads it may set again, and that changes nothing; but for areas that
\* were kept when the focus became FIXED, and a picture size that was not looked up as it was
\* that of the video in its place.
Plain(p) == [k \in Keys |-> p[k]]
ReadBack ==
  since.set /\ ~(pr.focus = "FIXED" /\ pr.focusAreas # NoArea) /\ text.picture \in info.jpegSizes =>
    Valid(text) /\ Plain(Values(text)) = Plain(pr) /\ TextAfter(text) = text

\* The modes for pictures are those of the present size, unless something was set while it was
\* that of the video.
ModesOfSize ==
  since.set /\ ~since.setOverridden /\ ~pr.overridden =>
    pr.slow = SlowJpeg(pr) /\ pr.allowZsl = AllowZsl(pr)

(* Whatever an application sets, while previewing, recording and with the      *)
(* picture size overridden: the camera can be sent the parameters, what is     *)
(* read from getParameters() is accepted as it is and changes nothing, and     *)
(* the slow and ZSL modes are those of the picture size in use.                *)
ParamsAgree == RequestFits(pr) /\ ReadBack /\ ModesOfSize
====
