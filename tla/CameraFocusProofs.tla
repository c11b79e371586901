------------------------- MODULE CameraFocusProofs --------------------------
(***************************************************************************)
(* What becomes of the calls of autoFocus(), for any number of triggers,   *)
(* frames and changes of the mode, however far the results are behind the  *)
(* camera.                                                                 *)
(***************************************************************************)
EXTENDS CameraFocus, SequenceTheorems, TLAPS

AllModes == {"AUTO", "CONTINUOUS", "FIXED"}
States == {"INACTIVE", "ACTIVE_SCAN"} \cup Locked \cup Passive
Commands == [cmd : {"mode"}, arg : AllModes] \cup [cmd : {"start", "cancel"}, arg : Nat]
Parts == [frame : Nat, part : {1, 2}, mode : AllModes, state : States, trigger : Nat]

FocusType ==
  /\ foc \in [mode : AllModes, shadow : {"none", "AUTO", "CONTINUOUS"}, focusState : States, counter : Nat, current : Nat,
              moving : BOOLEAN, changes : Nat]
  /\ m3a \in [state : States, mode : AllModes, trigger : Nat, lastAf : Nat, last : Nat, pending : SUBSET Nat]
  /\ sent \in Seq(Commands)
  /\ lens \in [mode : AllModes, state : States, trigger : Nat, frame : Nat]
  /\ results \in Seq(Parts)
  /\ asked \in [Triggers -> Fates]

\* A trigger that is on its way, at the device, in a result or told of is one that was given
\* out: the next trigger is new to all of them.
TriggersGiven ==
  /\ foc.counter >= 1 /\ foc.current <= foc.counter /\ foc.counter <= MaxTriggers
  /\ \A n \in 1..Len(sent) : sent[n].cmd # "mode" => sent[n].arg \in 1..foc.counter
  /\ lens.trigger \in 1..foc.counter
  /\ \A n \in 1..Len(results) : results[n].trigger \in 1..foc.counter
  /\ m3a.trigger \in 1..foc.counter

\* The trigger of the only call that is waited for is the current one, never in a mode that
\* answers at once, and nobody was told of another.
OpenIsCurrent ==
  /\ Waiting = IF foc.current = 0 THEN {} ELSE {foc.current}
  /\ \A i \in Triggers : asked[i] # "wrong"
  /\ foc.current # 0 => foc.mode # "FIXED"

\* What was told of is not waited for any more.
ToldNotWaitedFor ==
  foc.current # 0 => ~(m3a.state \in Locked /\ m3a.trigger = foc.current)

FocusInv == FocusType /\ TriggersGiven /\ OpenIsCurrent /\ ToldNotWaitedFor

\* All that were waited for come to an end, or go on as cancelled.
LEMMA EndedFacts ==
  ASSUME FocusType, OpenIsCurrent, NEW fate \in {"cancelled", "superseded", "forgotten"}
  PROVE  /\ Ended(fate) \in [Triggers -> Fates]
         /\ \A i \in Triggers : Ended(fate)[i] # "wrong"
         /\ {i \in Triggers : Ended(fate)[i] \in {"open", "cancelled"}} =
              IF fate = "cancelled" THEN Waiting ELSE {}
  <1>1. asked \in [Triggers -> Fates] /\ \A i \in Triggers : asked[i] # "wrong"
    BY DEF FocusType, OpenIsCurrent
  <1>2. \A i \in Triggers : Ended(fate)[i] = IF i \in Waiting THEN fate ELSE asked[i]
    BY DEF Ended
  <1>3. fate \in Fates /\ fate # "wrong" /\ fate # "open" BY DEF Fates
  <1>4. Ended(fate) \in [Triggers -> Fates] BY <1>1, <1>3 DEF Ended
  <1>5. \A i \in Triggers : i \in Waiting <=> asked[i] \in {"open", "cancelled"} BY DEF Waiting
  <1>6. Waiting \subseteq Triggers BY DEF Waiting
  <1>7. QED BY <1>1, <1>2, <1>3, <1>4, <1>5, <1>6

LEMMA FocusInitInv == FocusInit => FocusInv
  <1> SUFFICES ASSUME FocusInit PROVE FocusInv
    OBVIOUS
  <1>1. PICK m \in Modes :
    /\ foc = [mode |-> m, shadow |-> "none", focusState |-> "INACTIVE", counter |-> 1,
              current |-> 0, moving |-> FALSE, changes |-> 0]
    /\ m3a = [state |-> "INACTIVE", mode |-> IF m = "FIXED" THEN "FIXED" ELSE "AUTO", trigger |-> 1,
              lastAf |-> 0, last |-> 0, pending |-> {}]
    /\ sent = <<>>
    /\ lens = [mode |-> m, state |-> "INACTIVE", trigger |-> 1, frame |-> 0]
    /\ results = <<>>
    /\ asked = [i \in Triggers |-> "none"]
    BY DEF FocusInit
  <1>2. m \in AllModes BY CameraFocusAssumption DEF AllModes
  <1>3. FocusType BY <1>1, <1>2 DEF FocusType, States, AllModes, Fates
  <1>4. TriggersGiven BY <1>1, CameraFocusAssumption DEF TriggersGiven
  <1>5. OpenIsCurrent /\ ToldNotWaitedFor
    BY <1>1 DEF OpenIsCurrent, ToldNotWaitedFor, Waiting
  <1>6. QED BY <1>3, <1>4, <1>5 DEF FocusInv


\* One more command for the device, with a trigger that was given out.
LEMMA SendFacts ==
  ASSUME NEW q \in Seq(Commands), NEW x \in Commands, NEW c \in Nat,
         \A n \in 1..Len(q) : q[n].cmd # "mode" => q[n].arg \in 1..c,
         x.cmd # "mode" => x.arg \in 1..c
  PROVE  /\ Append(q, x) \in Seq(Commands)
         /\ \A n \in 1..Len(Append(q, x)) : Append(q, x)[n].cmd # "mode" => Append(q, x)[n].arg \in 1..c
  OBVIOUS

\* More triggers are given out, and the commands are right.
LEMMA GivenStep ==
  ASSUME FocusType, TriggersGiven, foc'.counter \in Nat, foc'.counter >= foc.counter,
         foc'.counter <= MaxTriggers, foc'.current \in Nat, foc'.current <= foc'.counter,
         \A n \in 1..Len(sent') : sent'[n].cmd # "mode" => sent'[n].arg \in 1..foc'.counter,
         UNCHANGED <<m3a, lens, results>>
  PROVE  TriggersGiven'
  <1>1. foc.counter \in Nat /\ foc.counter >= 1 BY DEF FocusType, TriggersGiven
  <1>2. \A x \in 1..foc.counter : x \in 1..foc'.counter BY <1>1
  <1>3. lens'.trigger \in 1..foc'.counter /\ m3a'.trigger \in 1..foc'.counter BY <1>2 DEF TriggersGiven
  <1>4. \A n \in 1..Len(results') : results'[n].trigger \in 1..foc'.counter BY <1>2 DEF TriggersGiven
  <1>5. QED BY <1>1, <1>3, <1>4 DEF TriggersGiven

LEMMA AutoFocusKeeps == FocusInv /\ AutoFocus => FocusInv'
  <1> SUFFICES ASSUME FocusInv, AutoFocus PROVE FocusInv'
    OBVIOUS
  <1> DEFINE id == foc.counter + 1
             switch == Quirk /\ foc.mode # "AUTO"
             start == [cmd |-> "start", arg |-> id]
             mode  == [cmd |-> "mode", arg |-> "AUTO"]
  <1>0. FocusType /\ TriggersGiven /\ OpenIsCurrent /\ ToldNotWaitedFor
    BY DEF FocusInv
  <1>1. /\ foc.mode # "FIXED"
        /\ foc' = [foc EXCEPT !.counter = id, !.current = id,
                              !.shadow = IF switch THEN foc.mode ELSE @,
                              !.mode = IF switch THEN "AUTO" ELSE @]
        /\ sent' = sent \o (IF switch THEN <<mode>> ELSE <<>>) \o <<start>>
        /\ asked' = [Ended("superseded") EXCEPT ![id] = "open"]
        /\ UNCHANGED <<m3a, lens, results>>
        /\ foc.counter < MaxTriggers
    BY DEF AutoFocus
  <1>2. /\ foc.counter \in Nat /\ foc.counter >= 1 /\ id \in Nat /\ id # 0
        /\ id <= MaxTriggers /\ id \in Triggers
    BY <1>0, <1>1, CameraFocusAssumption DEF FocusType, TriggersGiven, Triggers
  <1>3. /\ foc' \in [mode : AllModes, shadow : {"none", "AUTO", "CONTINUOUS"}, focusState : States,
                     counter : Nat, current : Nat, moving : BOOLEAN, changes : Nat]
        /\ foc'.counter = id /\ foc'.current = id /\ foc'.mode # "FIXED"
    BY <1>0, <1>1, <1>2 DEF FocusType, AllModes
  <1>4. asked' \in [Triggers -> Fates] /\ Waiting' = {id} /\ \A i \in Triggers : asked'[i] # "wrong"
    <2> DEFINE f == Ended("superseded")
    <2>1. /\ f \in [Triggers -> Fates] /\ \A i \in Triggers : f[i] # "wrong"
          /\ {i \in Triggers : f[i] \in {"open", "cancelled"}} = {}
      BY <1>0, EndedFacts
    <2>2. asked' = [f EXCEPT ![id] = "open"] BY <1>1
    <2> HIDE DEF f, id
    <2>3. asked' \in [Triggers -> Fates] BY <1>2, <2>1, <2>2 DEF Fates
    <2>4. \A i \in Triggers : asked'[i] = IF i = id THEN "open" ELSE f[i] BY <1>2, <2>1, <2>2
    <2>5. Waiting' = {i \in Triggers : asked'[i] \in {"open", "cancelled"}} BY DEF Waiting, Triggers
    <2>6. QED BY <1>2, <2>1, <2>3, <2>4, <2>5
  <1>5. sent' \in Seq(Commands) /\ \A n \in 1..Len(sent') : sent'[n].cmd # "mode" => sent'[n].arg \in 1..id
    <2> DEFINE q == IF switch THEN Append(sent, mode) ELSE sent
    <2>1. start \in Commands /\ mode \in Commands /\ start.arg \in 1..id /\ mode.cmd = "mode"
      BY <1>2 DEF Commands, AllModes
    <2>2. sent \in Seq(Commands) /\ \A n \in 1..Len(sent) : sent[n].cmd # "mode" => sent[n].arg \in 1..id
      BY <1>0, <1>2 DEF FocusType, TriggersGiven
    <2> HIDE DEF start, mode
    <2>3. /\ Append(sent, mode) \in Seq(Commands)
          /\ \A n \in 1..Len(Append(sent, mode)) :
               Append(sent, mode)[n].cmd # "mode" => Append(sent, mode)[n].arg \in 1..id
      BY <1>2, <2>1, <2>2, SendFacts
    <2>4. q \in Seq(Commands) /\ \A n \in 1..Len(q) : q[n].cmd # "mode" => q[n].arg \in 1..id
      BY <2>2, <2>3
    <2>5. sent' = Append(q, start) BY <1>1, <2>1, <2>2
    <2> HIDE DEF q
    <2>6. QED BY <1>2, <2>1, <2>4, <2>5, SendFacts
  <1>6. FocusType' BY <1>0, <1>1, <1>3, <1>4, <1>5 DEF FocusType
  <1>7. TriggersGiven'
    <2>1. /\ foc'.counter \in Nat /\ foc'.counter >= foc.counter /\ foc'.counter <= MaxTriggers
          /\ foc'.current \in Nat /\ foc'.current <= foc'.counter
      BY <1>2, <1>3
    <2>2. \A n \in 1..Len(sent') : sent'[n].cmd # "mode" => sent'[n].arg \in 1..foc'.counter
      BY ONLY <1>3, <1>5
    <2>3. UNCHANGED <<m3a, lens, results>> BY <1>1
    <2>4. QED BY ONLY <1>0, <2>1, <2>2, <2>3, GivenStep
  <1>8. OpenIsCurrent'
    <2> HIDE DEF id
    <2>1. QED BY <1>2, <1>3, <1>4 DEF OpenIsCurrent, Triggers
  <1>9. ToldNotWaitedFor'
    <2>1. m3a'.trigger \in 1..foc.counter BY <1>0, <1>1 DEF TriggersGiven
    <2>2. m3a'.trigger # id BY <1>2, <2>1
    <2> HIDE DEF id
    <2>3. QED BY <1>3, <2>2 DEF ToldNotWaitedFor
  <1>10. QED BY <1>6, <1>7, <1>8, <1>9 DEF FocusInv

LEMMA CancelKeeps == FocusInv /\ CancelAutoFocus => FocusInv'
  <1> SUFFICES ASSUME FocusInv, CancelAutoFocus PROVE FocusInv'
    OBVIOUS
  <1> DEFINE id == foc.counter + 1
             restores == foc.shadow # "none"
             x == IF restores THEN [cmd |-> "mode", arg |-> foc.shadow] ELSE [cmd |-> "cancel", arg |-> id]
  <1>0. FocusType /\ TriggersGiven /\ OpenIsCurrent /\ ToldNotWaitedFor
    BY DEF FocusInv
  <1>1. /\ foc.mode # "FIXED"
        /\ foc' = [foc EXCEPT !.counter = id, !.shadow = "none", !.mode = IF restores THEN foc.shadow ELSE @]
        /\ sent' = Append(sent, x)
        /\ asked' = Ended("cancelled")
        /\ UNCHANGED <<m3a, lens, results>>
        /\ foc.counter < MaxTriggers
    BY DEF CancelAutoFocus
  <1>2. foc.counter \in Nat /\ foc.counter >= 1 /\ id \in Nat /\ id <= MaxTriggers
    BY <1>0, <1>1, CameraFocusAssumption DEF FocusType, TriggersGiven
  <1>a. asked' \in [Triggers -> Fates] /\ Waiting' = Waiting /\ \A i \in Triggers : asked'[i] # "wrong"
    <2> DEFINE f == Ended("cancelled")
    <2>1. /\ f \in [Triggers -> Fates] /\ \A i \in Triggers : f[i] # "wrong"
          /\ {i \in Triggers : f[i] \in {"open", "cancelled"}} = Waiting
      BY <1>0, EndedFacts
    <2>2. asked' = f BY <1>1
    <2> HIDE DEF f
    <2>3. Waiting' = {i \in Triggers : asked'[i] \in {"open", "cancelled"}} BY DEF Waiting, Triggers
    <2>4. QED BY <2>1, <2>2, <2>3
  <1>3. /\ foc' \in [mode : AllModes, shadow : {"none", "AUTO", "CONTINUOUS"}, focusState : States,
                     counter : Nat, current : Nat, moving : BOOLEAN, changes : Nat]
        /\ foc'.counter = id /\ foc'.current = foc.current /\ foc'.mode # "FIXED"
    BY <1>0, <1>1, <1>2 DEF FocusType, AllModes
  <1>4. sent' \in Seq(Commands) /\ \A n \in 1..Len(sent') : sent'[n].cmd # "mode" => sent'[n].arg \in 1..id
    <2>1. x \in Commands /\ (x.cmd # "mode" => x.arg \in 1..id)
      BY <1>0, <1>2 DEF Commands, AllModes, FocusType
    <2>2. sent \in Seq(Commands) /\ \A n \in 1..Len(sent) : sent[n].cmd # "mode" => sent[n].arg \in 1..id
      BY <1>0, <1>2 DEF FocusType, TriggersGiven
    <2> HIDE DEF x
    <2>3. QED BY <1>1, <1>2, <2>1, <2>2, SendFacts
  <1>5. FocusType' BY <1>0, <1>1, <1>3, <1>4, <1>a DEF FocusType
  <1>6. TriggersGiven'
    <2>1. foc.current \in Nat /\ foc.current <= id BY <1>0, <1>2 DEF TriggersGiven, FocusType
    <2>2. QED BY <1>0, <1>1, <1>2, <1>3, <1>4, <2>1, GivenStep
  <1>7. OpenIsCurrent' BY <1>0, <1>3, <1>a DEF OpenIsCurrent, Triggers
  <1>8. ToldNotWaitedFor' BY <1>0, <1>1, <1>3 DEF ToldNotWaitedFor
  <1>9. QED BY <1>5, <1>6, <1>7, <1>8 DEF FocusInv

LEMMA SetModeKeeps == ASSUME NEW m \in Modes PROVE FocusInv /\ SetFocusMode(m) => FocusInv'
  <1> SUFFICES ASSUME FocusInv, SetFocusMode(m) PROVE FocusInv'
    OBVIOUS
  <1> DEFINE x == [cmd |-> "mode", arg |-> m]
  <1>0. FocusType /\ TriggersGiven /\ OpenIsCurrent /\ ToldNotWaitedFor
    BY DEF FocusInv
  <1>1. /\ foc' = [foc EXCEPT !.mode = m, !.shadow = "none", !.focusState = "INACTIVE", !.current = 0,
                              !.changes = @ + 1]
        /\ sent' = Append(sent, x)
        /\ asked' = Ended("forgotten")
        /\ UNCHANGED <<m3a, lens, results>>
    BY DEF SetFocusMode
  <1>2. m \in AllModes BY CameraFocusAssumption DEF AllModes
  <1>3. /\ foc' \in [mode : AllModes, shadow : {"none", "AUTO", "CONTINUOUS"}, focusState : States,
                     counter : Nat, current : Nat, moving : BOOLEAN, changes : Nat]
        /\ foc'.counter = foc.counter /\ foc'.current = 0 /\ foc.counter \in Nat
    <2>1. foc.changes + 1 \in Nat /\ "INACTIVE" \in States BY <1>0 DEF FocusType, States
    <2>2. foc \in [mode : AllModes, shadow : {"none", "AUTO", "CONTINUOUS"}, focusState : States,
                   counter : Nat, current : Nat, moving : BOOLEAN, changes : Nat]
      BY <1>0 DEF FocusType
    <2>3. foc' = [foc EXCEPT !.mode = m, !.shadow = "none", !.focusState = "INACTIVE", !.current = 0,
                             !.changes = foc.changes + 1]
      BY <1>1
    <2>4. QED BY ONLY <1>2, <2>1, <2>2, <2>3
  <1>4. asked' \in [Triggers -> Fates] /\ Waiting' = {} /\ \A i \in Triggers : asked'[i] # "wrong"
    <2> DEFINE f == Ended("forgotten")
    <2>1. /\ f \in [Triggers -> Fates] /\ \A i \in Triggers : f[i] # "wrong"
          /\ {i \in Triggers : f[i] \in {"open", "cancelled"}} = {}
      BY <1>0, EndedFacts
    <2>2. asked' = f BY <1>1
    <2> HIDE DEF f
    <2>3. Waiting' = {i \in Triggers : asked'[i] \in {"open", "cancelled"}} BY DEF Waiting, Triggers
    <2>4. QED BY <2>1, <2>2, <2>3
  <1>5. /\ sent' \in Seq(Commands)
        /\ \A n \in 1..Len(sent') : sent'[n].cmd # "mode" => sent'[n].arg \in 1..foc.counter
    <2>1. x \in Commands /\ x.cmd = "mode" BY <1>2 DEF Commands
    <2>2. /\ sent \in Seq(Commands)
          /\ \A n \in 1..Len(sent) : sent[n].cmd # "mode" => sent[n].arg \in 1..foc.counter
      BY <1>0 DEF FocusType, TriggersGiven
    <2> HIDE DEF x
    <2>3. QED BY <1>1, <1>3, <2>1, <2>2, SendFacts
  <1>6. FocusType' BY <1>0, <1>1, <1>3, <1>4, <1>5 DEF FocusType
  <1>7. TriggersGiven' BY <1>0, <1>1, <1>3, <1>5 DEF TriggersGiven, FocusType
  <1>8. OpenIsCurrent' /\ ToldNotWaitedFor' BY <1>3, <1>4 DEF OpenIsCurrent, ToldNotWaitedFor, Triggers
  <1>9. QED BY <1>6, <1>7, <1>8 DEF FocusInv

LEMMA LensKeeps ==
  FocusInv /\ (LensTakes \/ \E s \in Locked \cup Passive : LensMoves(s)) => FocusInv'
  <1> SUFFICES ASSUME FocusInv, LensTakes \/ \E s \in Locked \cup Passive : LensMoves(s) PROVE FocusInv'
    OBVIOUS
  <1>0. FocusType /\ TriggersGiven /\ OpenIsCurrent /\ ToldNotWaitedFor
    BY DEF FocusInv
  <1>1. UNCHANGED <<foc, m3a, results, asked>> BY DEF LensTakes, LensMoves
  <1>2. /\ lens' \in [mode : AllModes, state : States, trigger : Nat, frame : Nat]
        /\ lens'.trigger \in 1..foc.counter
        /\ sent' \in Seq(Commands)
        /\ \A n \in 1..Len(sent') : sent'[n].cmd # "mode" => sent'[n].arg \in 1..foc.counter
    <2>0. foc.counter \in Nat /\ lens \in [mode : AllModes, state : States, trigger : Nat, frame : Nat]
          /\ sent \in Seq(Commands)
      BY <1>0 DEF FocusType
    <2>1. CASE LensTakes
      <3> DEFINE x == sent[1]
      <3>1. sent # <<>> /\ x \in Commands /\ (x.cmd # "mode" => x.arg \in 1..foc.counter) /\ Head(sent) = x
        BY <1>0, <2>0, <2>1 DEF LensTakes, TriggersGiven
      <3>2. /\ sent' \in Seq(Commands)
            /\ \A n \in 1..Len(sent') : sent'[n].cmd # "mode" => sent'[n].arg \in 1..foc.counter
        <4>1. sent' = Tail(sent) BY <2>1 DEF LensTakes
        <4>2. /\ sent' \in Seq(Commands)
              /\ \A n \in 1..Len(sent') : n + 1 \in 1..Len(sent) /\ sent'[n] = sent[n + 1]
          BY <2>0, <3>1, <4>1
        <4>3. \A n \in 1..Len(sent) : sent[n].cmd # "mode" => sent[n].arg \in 1..foc.counter
          BY <1>0 DEF TriggersGiven
        <4>4. QED BY <4>2, <4>3
      <3>3. lens' = CASE x.cmd = "mode" -> [lens EXCEPT !.mode = x.arg, !.state = "INACTIVE"]
                  [] x.cmd = "cancel" -> [lens EXCEPT !.trigger = x.arg, !.state = "INACTIVE"]
                  [] x.cmd = "start" -> [lens EXCEPT !.trigger = x.arg,
                                           !.state = IF lens.mode = "AUTO" THEN "ACTIVE_SCAN" ELSE @]
        BY <2>1, <3>1 DEF LensTakes
      <3> HIDE DEF x
      <3>4. CASE x.cmd = "mode"
        <4>1. x.arg \in AllModes BY <3>1, <3>4 DEF Commands
        <4>2. lens' = [lens EXCEPT !.mode = x.arg, !.state = "INACTIVE"] BY <3>3, <3>4
        <4>3. QED BY <1>0, <2>0, <3>2, <4>1, <4>2 DEF States, TriggersGiven
      <3>5. CASE x.cmd # "mode"
        <4>1. x.arg \in 1..foc.counter /\ x.cmd \in {"start", "cancel"} BY <3>1, <3>5 DEF Commands
        <4>2. \/ lens' = [lens EXCEPT !.trigger = x.arg, !.state = "INACTIVE"]
              \/ lens' = [lens EXCEPT !.trigger = x.arg,
                                      !.state = IF lens.mode = "AUTO" THEN "ACTIVE_SCAN" ELSE @]
          BY <3>3, <4>1
        <4>3. x.arg \in Nat BY <2>0, <4>1
        <4>4. PICK st \in States : lens' = [lens EXCEPT !.trigger = x.arg, !.state = st]
          BY <2>0, <4>2 DEF States
        <4>5. lens' \in [mode : AllModes, state : States, trigger : Nat, frame : Nat] /\ lens'.trigger = x.arg
          BY ONLY <2>0, <4>3, <4>4
        <4>6. QED BY <3>2, <4>1, <4>5
      <3>6. QED BY <3>4, <3>5
    <2>2. CASE \E s \in Locked \cup Passive : LensMoves(s)
      BY <1>0, <2>0, <2>2 DEF LensMoves, States, TriggersGiven
    <2>3. QED BY <2>1, <2>2
  <1>3. FocusType' BY <1>0, <1>1, <1>2 DEF FocusType
  <1>4. TriggersGiven' BY <1>0, <1>1, <1>2 DEF TriggersGiven
  <1>5. OpenIsCurrent' /\ ToldNotWaitedFor' BY <1>0, <1>1 DEF OpenIsCurrent, ToldNotWaitedFor, Waiting
  <1>6. QED BY <1>3, <1>4, <1>5 DEF FocusInv

LEMMA FrameKeeps == ASSUME NEW overtakes \in BOOLEAN PROVE FocusInv /\ LensFrame(overtakes) => FocusInv'
  <1> SUFFICES ASSUME FocusInv, LensFrame(overtakes) PROVE FocusInv'
    OBVIOUS
  <1> DEFINE af == [frame |-> lens.frame + 1, part |-> 1, mode |-> lens.mode, state |-> lens.state,
                    trigger |-> lens.trigger]
             rest == [af EXCEPT !.part = 2]
             n == Len(results)
             Good == {r \in Parts : r.trigger \in 1..foc.counter}
  <1>0. FocusType /\ TriggersGiven /\ OpenIsCurrent /\ ToldNotWaitedFor
    BY DEF FocusInv
  <1>1. /\ overtakes => n > 0
        /\ results' = (IF overtakes THEN SubSeq(results, 1, n - 1) \o <<af, results[n]>> ELSE Append(results, af))
                         \o <<rest>>
        /\ lens' = [lens EXCEPT !.frame = @ + 1]
        /\ UNCHANGED <<foc, m3a, sent, asked>>
    BY DEF LensFrame
  <1>2. lens \in [mode : AllModes, state : States, trigger : Nat, frame : Nat]
        /\ results \in Seq(Parts) /\ lens.trigger \in 1..foc.counter
    BY <1>0 DEF FocusType, TriggersGiven
  <1>3. af \in Good /\ rest \in Good
    <2>1. lens.frame + 1 \in Nat /\ lens.trigger \in Nat /\ lens.state \in States /\ lens.mode \in AllModes
      BY <1>2
    <2>2. rest = [frame |-> lens.frame + 1, part |-> 2, mode |-> lens.mode, state |-> lens.state,
                  trigger |-> lens.trigger]
      OBVIOUS
    <2>3. af \in Parts /\ rest \in Parts BY <2>1, <2>2 DEF Parts
    <2>4. af.trigger \in 1..foc.counter /\ rest.trigger \in 1..foc.counter BY <1>2, <2>2
    <2>5. QED BY <2>3, <2>4
  <1>4. results \in Seq(Good)
    <2>1. \A k \in 1..Len(results) : results[k] \in Good BY <1>0, <1>2 DEF TriggersGiven
    <2> HIDE DEF Good
    <2>2. QED BY <1>2, <2>1
  <1> HIDE DEF af, rest, Good
  <1>5. results' \in Seq(Good)
    <2>1. CASE ~overtakes BY <1>1, <1>3, <1>4, <2>1
    <2>2. CASE overtakes
      <3>1. n \in Nat /\ n > 0 /\ results[n] \in Good BY <1>1, <1>4, <2>2
      <3>2. SubSeq(results, 1, n - 1) \in Seq(Good) BY <1>4, <3>1
      <3> HIDE DEF n
      <3>3. SubSeq(results, 1, n - 1) \o <<af, results[n]>> \in Seq(Good) BY <1>3, <3>1, <3>2
      <3>4. QED BY <1>1, <1>3, <2>2, <3>3
    <2>3. QED BY <2>1, <2>2
  <1>6. results' \in Seq(Parts) /\ \A k \in 1..Len(results') : results'[k].trigger \in 1..foc.counter
    <2>1. \A r \in Good : r \in Parts /\ r.trigger \in 1..foc.counter BY DEF Good
    <2>2. QED BY <1>5, <2>1
  <1>7. lens' \in [mode : AllModes, state : States, trigger : Nat, frame : Nat] /\ lens'.trigger = lens.trigger
    <2>1. lens.frame + 1 \in Nat BY <1>2
    <2>2. lens' = [lens EXCEPT !.frame = lens.frame + 1] BY <1>1
    <2>3. QED BY ONLY <1>2, <2>1, <2>2
  <1>8. FocusType' BY <1>0, <1>1, <1>6, <1>7 DEF FocusType
  <1>9. TriggersGiven' BY <1>0, <1>1, <1>6, <1>7 DEF TriggersGiven
  <1>10. OpenIsCurrent' /\ ToldNotWaitedFor' BY <1>0, <1>1 DEF OpenIsCurrent, ToldNotWaitedFor, Waiting
  <1>11. QED BY <1>8, <1>9, <1>10 DEF FocusInv

\* A part of a result: what it tells of is remembered together with the answer, so that the
\* lock of the trigger that is waited for is never remembered without it.
LEMMA ResultKeeps == FocusInv /\ Process3aState => FocusInv'
  <1> SUFFICES ASSUME FocusInv, Process3aState PROVE FocusInv'
    OBVIOUS
  <1> DEFINE r == results[1]
             told == [m3a EXCEPT !.state = r.state, !.mode = r.mode, !.trigger = r.trigger, !.lastAf = r.frame]
  <1>0. FocusType /\ TriggersGiven /\ OpenIsCurrent /\ ToldNotWaitedFor
    BY DEF FocusInv
  <1>1. /\ results # <<>> /\ Head(results) = r /\ r \in Parts /\ r.trigger \in 1..foc.counter
        /\ results' \in Seq(Parts) /\ \A k \in 1..Len(results') : results'[k].trigger \in 1..foc.counter
        /\ foc.counter \in Nat
    <2>1. results \in Seq(Parts) /\ foc.counter \in Nat BY <1>0 DEF FocusType
    <2>2. results # <<>> /\ results' = Tail(results) BY DEF Process3aState
    <2>3. \A k \in 1..Len(results) : results[k].trigger \in 1..foc.counter BY <1>0 DEF TriggersGiven
    <2>4. Len(results) \in Nat /\ Len(results) >= 1 /\ Head(results) = r /\ r \in Parts BY <2>1, <2>2
    <2>5. r.trigger \in 1..foc.counter BY <2>3, <2>4
    <2>6. /\ Tail(results) \in Seq(Parts) /\ Len(Tail(results)) = Len(results) - 1
          /\ \A k \in 1..Len(Tail(results)) : Tail(results)[k] = results[k + 1]
      BY <2>1, <2>2
    <2>7. \A k \in 1..Len(results') : results'[k].trigger \in 1..foc.counter
      BY <2>2, <2>3, <2>4, <2>6
    <2>8. QED BY <2>1, <2>2, <2>4, <2>5, <2>6, <2>7
  <1>2. /\ UNCHANGED <<sent, lens>>
        /\ IF IsNews(r) THEN NotifyAutoFocus(r) ELSE UNCHANGED <<foc, asked>>
        /\ m3a' = LET n == IF IsNews(r) THEN told ELSE m3a
                  IN IF r.frame <= m3a.last THEN [m3a EXCEPT !.pending = @ \ {r.frame}]
                     ELSE IF r.part = 2 THEN [n EXCEPT !.pending = @ \ {r.frame}, !.last = r.frame]
                     ELSE [n EXCEPT !.pending = @ \cup {r.frame}]
    BY <1>1 DEF Process3aState
  <1>3. /\ r.frame \in Nat /\ r.state \in States /\ r.trigger \in Nat /\ r.mode \in AllModes /\ r.trigger # 0
        /\ m3a \in [state : States, mode : AllModes, trigger : Nat, lastAf : Nat, last : Nat, pending : SUBSET Nat]
        /\ foc \in [mode : AllModes, shadow : {"none", "AUTO", "CONTINUOUS"}, focusState : States,
                    counter : Nat, current : Nat, moving : BOOLEAN, changes : Nat]
        /\ asked \in [Triggers -> Fates]
    <2>1. r.frame \in Nat /\ r.state \in States /\ r.trigger \in Nat /\ r.mode \in AllModes BY <1>1 DEF Parts
    <2>2. r.trigger # 0 BY <1>1
    <2>3. QED BY <1>0, <2>1, <2>2 DEF FocusType
  <1> HIDE DEF r
  <1>4. CASE ~IsNews(r)
    <2>1. UNCHANGED <<foc, asked>> BY <1>2, <1>4
    <2>2. /\ m3a' \in [state : States, mode : AllModes, trigger : Nat, lastAf : Nat, last : Nat, pending : SUBSET Nat]
          /\ m3a'.state = m3a.state /\ m3a'.trigger = m3a.trigger
      BY <1>2, <1>3, <1>4
    <2>3. FocusType' BY <1>0, <1>1, <1>2, <2>1, <2>2 DEF FocusType
    <2>4. TriggersGiven' BY <1>0, <1>1, <1>2, <2>1, <2>2 DEF TriggersGiven
    <2>5. OpenIsCurrent' /\ ToldNotWaitedFor' BY <1>0, <2>1, <2>2 DEF OpenIsCurrent, ToldNotWaitedFor, Waiting
    <2>6. QED BY <2>3, <2>4, <2>5 DEF FocusInv
  <1>5. CASE IsNews(r)
    <2>1. NotifyAutoFocus(r) BY <1>2, <1>5
    <2>2. ~(r.frame <= m3a.last) BY <1>3, <1>5 DEF IsNews
    <2>3. /\ m3a' \in [state : States, mode : AllModes, trigger : Nat, lastAf : Nat, last : Nat, pending : SUBSET Nat]
          /\ m3a'.state = r.state /\ m3a'.trigger = r.trigger
      BY <1>2, <1>3, <1>5, <2>2
    <2>4. /\ foc' \in [mode : AllModes, shadow : {"none", "AUTO", "CONTINUOUS"}, focusState : States,
                       counter : Nat, current : Nat, moving : BOOLEAN, changes : Nat]
          /\ foc'.mode = foc.mode /\ foc'.counter = foc.counter
          /\ foc'.current = IF Completes(r) THEN 0 ELSE foc.current
      BY <1>3, <2>1 DEF NotifyAutoFocus
    <2>5. asked' = IF ~Completes(r) THEN asked
                   ELSE [asked EXCEPT ![r.trigger] = CASE @ = "open" -> "told" [] @ = "cancelled" -> "late"
                                                       [] OTHER -> "wrong"]
      BY <2>1 DEF NotifyAutoFocus
    <2>6. CASE Completes(r)
      <3>1. r.trigger = foc.current /\ Waiting = {r.trigger}
        BY <1>0, <1>3, <2>6 DEF Completes, OpenIsCurrent
      <3>2. asked' \in [Triggers -> Fates] /\ Waiting' = {} /\ \A i \in Triggers : asked'[i] # "wrong"
        <4> DEFINE fate == IF asked[r.trigger] = "open" THEN "told" ELSE "late"
        <4>1. r.trigger \in Triggers /\ asked[r.trigger] \in {"open", "cancelled"} BY <3>1 DEF Waiting
        <4>2. asked' = [asked EXCEPT ![r.trigger] = fate] BY <2>5, <2>6, <4>1
        <4>3. fate \in {"told", "late"} OBVIOUS
        <4>4. fate \in Fates BY DEF Fates
        <4> HIDE DEF fate
        <4>5. asked' \in [Triggers -> Fates] BY <1>3, <4>1, <4>2, <4>4
        <4>6. \A i \in Triggers : asked'[i] = IF i = r.trigger THEN fate ELSE asked[i] BY <1>3, <4>1, <4>2
        <4>7. \A i \in Triggers : asked[i] # "wrong" /\ (i # r.trigger => asked[i] \notin {"open", "cancelled"})
          BY <1>0, <3>1 DEF OpenIsCurrent, Waiting
        <4>8. Waiting' = {i \in Triggers : asked'[i] \in {"open", "cancelled"}} BY DEF Waiting, Triggers
        <4>9. QED BY <4>3, <4>5, <4>6, <4>7, <4>8
      <3>3. foc'.current = 0 BY <2>4, <2>6
      <3>4. FocusType' BY <1>0, <1>1, <1>2, <2>3, <2>4, <3>2 DEF FocusType
      <3>5. TriggersGiven' BY <1>0, <1>1, <1>2, <2>3, <2>4, <3>3 DEF TriggersGiven
      <3>6. OpenIsCurrent' /\ ToldNotWaitedFor' BY <3>2, <3>3 DEF OpenIsCurrent, ToldNotWaitedFor, Triggers
      <3>7. QED BY <3>4, <3>5, <3>6 DEF FocusInv
    <2>7. CASE ~Completes(r)
      <3>1. asked' = asked /\ foc'.current = foc.current BY <2>4, <2>5, <2>7
      <3>2. FocusType' BY <1>0, <1>1, <1>2, <2>3, <2>4, <3>1 DEF FocusType
      <3>3. TriggersGiven' BY <1>0, <1>1, <1>2, <2>3, <2>4, <3>1 DEF TriggersGiven
      <3>4. OpenIsCurrent' BY <1>0, <2>4, <3>1 DEF OpenIsCurrent, Waiting
      <3>5. ToldNotWaitedFor'
        <4> SUFFICES ASSUME foc.current # 0, r.state \in Locked, r.trigger = foc.current PROVE FALSE
          BY <2>3, <3>1 DEF ToldNotWaitedFor
        <4>1. foc.mode \in {"AUTO", "CONTINUOUS"} BY <1>0, <1>3 DEF OpenIsCurrent, AllModes
        <4>2. QED BY <2>7, <4>1 DEF Completes
      <3>6. QED BY <3>2, <3>3, <3>4, <3>5 DEF FocusInv
    <2>8. QED BY <2>6, <2>7
  <1>6. QED BY <1>4, <1>5

\* Whatever the order of triggers, cancels, changes of the mode and late results, the
\* application is told of a call of autoFocus() at most once, never of one that another call or
\* another mode has taken the place of, every other call is the one still waited for, and a
\* locked result that was looked at has ended the waiting.  A cancelled call can be told of.
THEOREM FocusAnsweredHolds == FocusSpec => []FocusAnswered
  <1>1. FocusInv /\ [FocusNext]_focusVars => FocusInv'
    <2> SUFFICES ASSUME FocusInv, [FocusNext]_focusVars PROVE FocusInv'
      OBVIOUS
    <2>1. CASE UNCHANGED focusVars
      BY <2>1 DEF focusVars, FocusInv, FocusType, TriggersGiven, OpenIsCurrent, ToldNotWaitedFor, Waiting
    <2>2. CASE FocusNext
      BY <2>2, AutoFocusKeeps, CancelKeeps, SetModeKeeps, LensKeeps, FrameKeeps, ResultKeeps DEF FocusNext
    <2>3. QED BY <2>1, <2>2
  <1>2. FocusInv => FocusAnswered
    BY DEF FocusInv, FocusAnswered, OpenIsCurrent, ToldNotWaitedFor
  <1>3. QED BY <1>1, <1>2, FocusInitInv, PTL DEF FocusSpec
=============================================================================
