---------------------------- MODULE CameraFocus -----------------------------
(***************************************************************************)
(* Autofocus of a client of the old camera interface: the calls of the     *)
(* application, the FrameProcessor that finds changes of the 3A state in   *)
(* the results, and the camera device, which runs ahead of the results.    *)
(*                                                                         *)
(* External: the device takes modes and triggers in the order in which     *)
(* they were sent.  A result comes in two parts, the first with the focus, *)
(* the second with the rest, and the first part of a frame may overtake    *)
(* the second part of the frame before it.                                 *)
(***************************************************************************)
EXTENDS Integers, Sequences

CONSTANTS
  Modes,       \* the focus modes used: of {"AUTO", "CONTINUOUS", "FIXED"}
  Quirk,       \* quirks.triggerAfWithAuto, with a scene mode and a focusing area
  MaxTriggers, \* bound on triggers
  MaxFrames,   \* bound on frames
  MaxModes     \* bound on changes of the mode

ASSUME CameraFocusAssumption ==
  /\ Modes \subseteq {"AUTO", "CONTINUOUS", "FIXED"} /\ Quirk \in BOOLEAN
  /\ {MaxTriggers, MaxFrames, MaxModes} \subseteq Nat /\ MaxTriggers > 0

VARIABLES
  foc,     \* what Parameters has of the focus
  m3a,     \* FrameProcessor: m3aState, the frames told of, and mPending3AStates
  sent,    \* external: modes and triggers on their way to the device
  lens,    \* external: the device
  results, \* external: parts of results on their way to the client
  asked    \* history: what became of the call of autoFocus() that sent each trigger

focusVars == <<foc, m3a, sent, lens, results, asked>>

Locked == {"FOCUSED_LOCKED", "NOT_FOCUSED_LOCKED"}
Passive == {"PASSIVE_SCAN", "PASSIVE_FOCUSED"}

Triggers == 1..MaxTriggers

\* "cancelled": cancelAutoFocus() was called, yet the trigger is still the current one;
\* "superseded" and "forgotten": another call or another focus mode has taken its place;
\* "told" and "late": it was answered, in the latter case after the cancellation; "wrong": a
\* message for a trigger that nobody waited for.
Fates == {"none", "open", "cancelled", "superseded", "forgotten", "told", "late", "wrong"}
Waiting == {i \in Triggers : asked[i] \in {"open", "cancelled"}}

\* All that were waited for have come to an end.
Ended(fate) == [i \in Triggers |-> IF i \in Waiting THEN fate ELSE asked[i]]

FocusInit ==
  \E m \in Modes :
    /\ foc = [mode |-> m, shadow |-> "none", focusState |-> "INACTIVE", counter |-> 1,
              current |-> 0, moving |-> FALSE, changes |-> 0]
    /\ m3a = [state |-> "INACTIVE", mode |-> IF m = "FIXED" THEN "FIXED" ELSE "AUTO", trigger |-> 1,
              lastAf |-> 0, last |-> 0, pending |-> {}]
    /\ sent = <<>>
    /\ lens = [mode |-> m, state |-> "INACTIVE", trigger |-> 1, frame |-> 0]
    /\ results = <<>>
    /\ asked = [i \in Triggers |-> "none"]

-----------------------------------------------------------------------------
(* The application                                                         *)

\* A call that is answered at once, in FIXED mode or when the focus is locked already, or sends
\* a trigger, which takes the place of the one before.
AutoFocus ==
  LET atOnce == foc.mode = "FIXED" \/ (foc.mode = "CONTINUOUS" /\ foc.focusState = "FOCUSED_LOCKED")
      switch == Quirk /\ foc.mode # "AUTO"
      id == foc.counter + 1
  IN /\ ~atOnce /\ foc.counter < MaxTriggers
     /\ foc' = [foc EXCEPT !.counter = id, !.current = id,
                           !.shadow = IF switch THEN foc.mode ELSE @,
                           !.mode = IF switch THEN "AUTO" ELSE @]
     /\ sent' = sent \o (IF switch THEN <<[cmd |-> "mode", arg |-> "AUTO"]>> ELSE <<>>)
                     \o <<[cmd |-> "start", arg |-> id]>>
     /\ asked' = [Ended("superseded") EXCEPT ![id] = "open"]
     /\ UNCHANGED <<m3a, lens, results>>

\* The trigger stays the current one: currentAfTriggerId is not reset.
CancelAutoFocus ==
  LET id == foc.counter + 1
      restores == foc.shadow # "none"
  IN /\ foc.mode # "FIXED" /\ foc.counter < MaxTriggers
     /\ foc' = [foc EXCEPT !.counter = id, !.shadow = "none",
                           !.mode = IF restores THEN foc.shadow ELSE @]
     /\ sent' = Append(sent, IF restores THEN [cmd |-> "mode", arg |-> foc.shadow]
                             ELSE [cmd |-> "cancel", arg |-> id])
     /\ asked' = Ended("cancelled")
     /\ UNCHANGED <<m3a, lens, results>>

\* setParameters() with another focus mode forgets the trigger.
SetFocusMode(m) ==
  /\ m # foc.mode /\ foc.changes < MaxModes
  /\ foc' = [foc EXCEPT !.mode = m, !.shadow = "none", !.focusState = "INACTIVE", !.current = 0,
                        !.changes = @ + 1]
  /\ sent' = Append(sent, [cmd |-> "mode", arg |-> m])
  /\ asked' = Ended("forgotten")
  /\ UNCHANGED <<m3a, lens, results>>

-----------------------------------------------------------------------------
(* External: the device                                                    *)

LensTakes ==
  LET x == Head(sent)
  IN /\ sent # <<>>
     /\ lens' = CASE x.cmd = "mode" -> [lens EXCEPT !.mode = x.arg, !.state = "INACTIVE"]
                  [] x.cmd = "cancel" -> [lens EXCEPT !.trigger = x.arg, !.state = "INACTIVE"]
                  [] x.cmd = "start" -> [lens EXCEPT !.trigger = x.arg,
                                           !.state = IF lens.mode = "AUTO" THEN "ACTIVE_SCAN" ELSE @]
     /\ sent' = Tail(sent)
     /\ UNCHANGED <<foc, m3a, results, asked>>

\* A scan ends, the picture moves, or a trigger in CONTINUOUS mode locks the focus.
LensMoves(s) ==
  /\ \/ lens.state = "ACTIVE_SCAN" /\ s \in Locked
     \/ lens.mode = "CONTINUOUS" /\ lens.state \notin Locked /\ s \in Passive \cup Locked
  /\ lens' = [lens EXCEPT !.state = s]
  /\ UNCHANGED <<foc, m3a, sent, results, asked>>

\* The next frame: the part with the focus, ahead of or behind the rest of the frame before it.
LensFrame(overtakes) ==
  LET af == [frame |-> lens.frame + 1, part |-> 1, mode |-> lens.mode, state |-> lens.state,
             trigger |-> lens.trigger]
      n == Len(results)
  IN /\ lens.frame < MaxFrames
     /\ overtakes => n > 0
     /\ results' = (IF overtakes THEN SubSeq(results, 1, n - 1) \o <<af, results[n]>> ELSE Append(results, af))
                     \o <<[af EXCEPT !.part = 2]>>
     /\ lens' = [lens EXCEPT !.frame = @ + 1]
     /\ UNCHANGED <<foc, m3a, sent, asked>>

-----------------------------------------------------------------------------
(* FrameProcessor and Camera2Client::notifyAutoFocus()                     *)

\* Mutant of Completes: the lock may have been for a trigger that is gone.
CompletesAny(r) == r.state \in Locked /\ foc.current # 0 /\ foc.mode \in {"AUTO", "CONTINUOUS"}

\* Does this tell that what was asked for is done?
Completes(r) == r.state \in Locked /\ r.trigger = foc.current /\ foc.mode \in {"AUTO", "CONTINUOUS"}

NotifyAutoFocus(r) ==
  /\ foc' = [foc EXCEPT !.focusState = r.state,
                        !.current = IF Completes(r) THEN 0 ELSE @,
                        !.moving = IF foc.mode = "CONTINUOUS" THEN r.state = "PASSIVE_SCAN" ELSE @]
  /\ asked' = IF ~Completes(r) THEN asked
              ELSE [asked EXCEPT ![r.trigger] = CASE @ = "open" -> "told" [] @ = "cancelled" -> "late"
                                                  [] OTHER -> "wrong"]

\* Is the focus of this part news, and of a frame not told of yet?
IsNews(r) ==
  /\ r.frame > m3a.last /\ r.frame > m3a.lastAf
  /\ <<r.state, r.mode, r.trigger>> # <<m3a.state, m3a.mode, m3a.trigger>>

\* process3aState(): a frame is done with when both parts are there.
Process3aState ==
  LET r == Head(results)
  IN /\ results # <<>>
     /\ results' = Tail(results)
     /\ IF IsNews(r) THEN NotifyAutoFocus(r) ELSE UNCHANGED <<foc, asked>>
     /\ m3a' = LET n == IF IsNews(r) THEN [m3a EXCEPT !.state = r.state, !.mode = r.mode, !.trigger = r.trigger,
                                                       !.lastAf = r.frame] ELSE m3a
               IN IF r.frame <= m3a.last THEN [m3a EXCEPT !.pending = @ \ {r.frame}]
                  ELSE IF r.part = 2 THEN [n EXCEPT !.pending = @ \ {r.frame}, !.last = r.frame]
                  ELSE [n EXCEPT !.pending = @ \cup {r.frame}]
     /\ UNCHANGED <<sent, lens>>

-----------------------------------------------------------------------------
FocusNext ==
  \/ AutoFocus \/ CancelAutoFocus \/ LensTakes \/ Process3aState
  \/ \E m \in Modes : SetFocusMode(m)
  \/ \E s \in Locked \cup Passive : LensMoves(s)
  \/ \E overtakes \in BOOLEAN : LensFrame(overtakes)

FocusSpec == FocusInit /\ [][FocusNext]_focusVars

(* The calls of autoFocus() that sent a trigger: the application is told of    *)
(* no trigger that was told of, superseded or forgotten, every call that was   *)
(* none of these is the one trigger still waited for, and that one is not left *)
(* waiting once a result that has its focus locked was looked at.  A call that *)
(* was cancelled is waited for all the same, and may be told of late, which    *)
(* the comments of notifyAutoFocus() rule out.                                 *)
FocusAnswered ==
  /\ \A i \in Triggers : asked[i] # "wrong"
  /\ Waiting = IF foc.current = 0 THEN {} ELSE {foc.current}
  /\ foc.current # 0 => ~(m3a.state \in Locked /\ m3a.trigger = foc.current)
====
