---------------------------- MODULE CameraService ----------------------------
(***************************************************************************)
(* The camera service: who may have which camera.  Processes connect to    *)
(* cameras and leave, lose them to others of a higher priority, are        *)
(* blocked, revoked or die; a provider takes a camera away and brings it   *)
(* back; the torch of a camera is switched while nobody has it.            *)
(*                                                                         *)
(* mServiceLock is held by a connecting thread over several steps and by   *)
(* the others within one; mServiceLockWrapper (AutoConditionLock) keeps    *)
(* connecting threads and sweeps apart while the lock is given up for the  *)
(* disconnection of clients.  A client disconnects in steps, run by the    *)
(* first thread that asks it to.                                           *)
(*                                                                         *)
(* Left out: the connection of getLegacyParameters, which is made for the  *)
(* parameters only, offline sessions, system cameras, logical cameras and  *)
(* their physical ones, and waits that time out.  A HAL does not support   *)
(* muting and controls the torch itself.                                   *)
(***************************************************************************)
EXTENDS Integers, Sequences, FiniteSets, SequencesExt, FiniteSetsExt

CONSTANTS
  Procs,        \* processes, each with a uid of its own
  Api1,         \* those that use the API of Camera2Client
  Cams,         \* the ids of the cameras
  Cost,         \* CameraState::getCost
  Conflicts,    \* Conflicts[c]: the cameras c declares that it conflicts with
  MaxCost,      \* ClientManager::mMaxCost
  Flash,        \* the cameras with a torch
  Removable,    \* the cameras that may go
  Scores,       \* what ProcessInfoService may say of a process; less is more important
  User,         \* the user of a process
  MaxClients,   \* bound on the clients that are made
  MaxEvents,    \* bound on what goes wrong or is switched off
  MaxTorch,     \* bound on the calls for the torch
  None

ASSUME ServiceAssumption ==
  /\ Api1 \subseteq Procs /\ Flash \cup Removable \subseteq Cams /\ Scores \subseteq Nat /\ MaxCost \in Nat
  /\ Cost \in [Cams -> Nat] /\ \A c \in Cams : Cost[c] <= MaxCost /\ Conflicts[c] \subseteq Cams
  /\ {MaxClients, MaxEvents, MaxTorch} \subseteq Nat

VARIABLES
  svc,      \* the clients that are listed, the locks, and what is kept about uids and users
  cams,     \* CameraState, the torch and what the listeners were told
  clients,  \* the client objects
  conn,     \* connectHelper of each process
  calls,    \* the clients each thread has to disconnect, and whether it runs the first of them
  prov,     \* the thread of the provider's report about a camera
  hal,      \* external: the cameras themselves
  env,      \* external: the processes and what is allowed
  hist      \* history: what the properties speak of

vars == <<svc, cams, clients, conn, calls, prov, hal, env, hist>>

Clients == 1..MaxClients
Threads == Procs \cup Cams \cup {"sweep", "block", "op"}

NoClient == [cam |-> None, proc |-> None, phase |-> "none", api1 |-> FALSE, ops |-> FALSE, audio |-> FALSE, linked |-> FALSE]
NoConn   == [pc |-> "idle", cam |-> None, evicted |-> {}, client |-> 0, prio |-> 0]

Init ==
  /\ svc = [active |-> <<>>, lock |-> None, wrapper |-> None, monitored |-> [p \in Procs |-> 0],
            restriction |-> FALSE, users |-> {User[p] : p \in Procs}]
  /\ cams = [c \in Cams |-> [status |-> "PRESENT", torch |-> IF c \in Flash THEN "OFF" ELSE "none",
                             told |-> FALSE, flash |-> FALSE, uids |-> <<>>, billed |-> {},
                             torchClient |-> None, torchLinked |-> FALSE]]
  /\ clients = [i \in Clients |-> NoClient]
  /\ conn = [p \in Procs |-> NoConn]
  /\ calls = [t \in Threads |-> [todo |-> <<>>, mine |-> FALSE]]
  /\ prov = [c \in Cams |-> "idle"]
  /\ hal = [c \in Cams |-> [present |-> TRUE, holder |-> 0, lit |-> FALSE, says |-> <<>>]]
  /\ env = [dead |-> {}, idle |-> {}, denied |-> {}, mute |-> FALSE, privacy |-> FALSE, events |-> 0, torches |-> 0]
  /\ hist = [odd |-> {}, fatal |-> FALSE, busy |-> FALSE]

Free      == svc.lock = None
Odd(what) == [hist EXCEPT !.odd = @ \cup {what}]
Event(e)  == [e EXCEPT !.events = @ + 1]
\* The bounds: what goes wrong comes before any call for the torch (and ends
\* them), or after one while it is lit, and is the death of a process or a
\* camera then.
MayFail   == env.events < MaxEvents /\ (env.torches = 0 \/ (env.torches = 1 /\ \E c \in Flash : hal[c].lit))
May       == MayFail /\ env.torches = 0
Listed(i) == \E k \in DOMAIN svc.active : svc.active[k].client = i
Unlist(s, i) == [s EXCEPT !.active = SelectSeq(@, LAMBDA d : d.client # i)]

-----------------------------------------------------------------------------
(* The status of a camera and of its torch                                  *)

\* onTorchStatusChangedLocked: the uid before is not billed any more, the new one is.
TorchChanged(c, st) ==
  IF c.torch \in {"none", st} THEN c
  ELSE IF c.uids = <<>> THEN [c EXCEPT !.torch = st]
  ELSE LET on     == IF st = "ON" THEN {c.uids[1]} ELSE {}
           billed == IF c.uids[1] # c.uids[2] /\ c.torch # "ON" THEN c.billed ELSE c.billed \ {c.uids[2]}
       IN  [c EXCEPT !.torch = st, !.billed = billed \cup on, !.uids = <<@[1], @[1]>>]

\* updateStatus to NOT_AVAILABLE, or back to PRESENT: a camera the provider
\* does not know is skipped, and one that was PRESENT stays as it is.
UpdateStatus(cam, st) ==
  IF ~hal[cam].present \/ cams[cam].status \in {"unknown", st} THEN cams[cam]
  ELSE TorchChanged([cams[cam] EXCEPT !.status = st], IF st = "PRESENT" THEN "OFF" ELSE "NOT_AVAILABLE")

\* external: the HAL reports its torch; the reports of a camera come in order.
TorchCallback(cam) ==
  /\ hal[cam].says # <<>>
  /\ cams' = [cams EXCEPT ![cam] = TorchChanged(@, Head(hal[cam].says))]
  /\ hal' = [hal EXCEPT ![cam].says = Tail(@)]
  /\ UNCHANGED <<svc, clients, conn, calls, prov, env, hist>>

\* external: what a camera with a torch does and says when it is opened, closed or lit.
HalTorch(h, cam, lit, says) == IF cam \in Flash THEN [h EXCEPT ![cam].lit = lit, ![cam].says = Append(@, says)] ELSE h

\* CameraFlashlight::setTorchMode: not while the camera is about to be opened or open.
TorchFree(cam) == ~cams[cam].flash /\ hal[cam].present /\ hal[cam].holder = 0

\* setTorchMode; the one who turns the torch on is watched until it is turned off, and stays in
\* mTorchClientMap.
SetTorchMode(p, cam, on) ==
  /\ Free /\ p \notin env.dead /\ env.torches < MaxTorch /\ env.events = 0
  /\ cams[cam].status # "unknown" /\ cams[cam].torch \notin {"none", "NOT_AVAILABLE"}
  /\ LET c1 == [cams[cam] EXCEPT !.uids = IF @ = <<>> THEN <<p, p>> ELSE <<p, @[2]>>] IN
       IF TorchFree(cam)
       THEN /\ cams' = [cams EXCEPT ![cam] = [c1 EXCEPT !.torchClient = IF on THEN p ELSE @, !.torchLinked = on]]
            /\ hal' = HalTorch(hal, cam, on, IF on THEN "ON" ELSE "OFF")
       ELSE cams' = [cams EXCEPT ![cam] = c1] /\ hal' = hal
  /\ env' = [env EXCEPT !.torches = @ + 1]
  /\ UNCHANGED <<svc, clients, conn, calls, prov, hist>>

\* handleTorchClientBinderDied: a client whose torch cannot be turned off stays in the map,
\* though its death is told once only.
TorchDeathDue(cam) == cams[cam].torchLinked /\ cams[cam].torchClient \in env.dead

TorchClientDied(cam) ==
  /\ TorchDeathDue(cam)
  /\ IF TorchFree(cam)
     THEN /\ cams' = [cams EXCEPT ![cam].torchClient = None, ![cam].torchLinked = FALSE]
          /\ hal' = HalTorch(hal, cam, FALSE, "OFF")
     ELSE cams' = [cams EXCEPT ![cam].torchLinked = FALSE] /\ hal' = hal
  /\ UNCHANGED <<svc, clients, conn, calls, prov, env, hist>>

-----------------------------------------------------------------------------
(* Who has to go                                                            *)

\* Mutant of Conflicting: only what the new client declares counts.
ConflictingOneWay(a, b) == a = b \/ b \in Conflicts[a]

Conflicting(a, b) == a = b \/ a \in Conflicts[b] \/ b \in Conflicts[a]

\* wouldEvictLocked: the clients that go for the new one, or whether it is denied.
WouldEvict(active, new) ==
  LET best  == Min({new.prio} \cup {active[k].prio : k \in DOMAIN active})
      top   == IF best = new.prio THEN new.owner
               ELSE active[Max({k \in DOMAIN active : active[k].prio = best})].owner
      total == FoldLeft(LAMBDA n, d : n + Cost[d.cam], Cost[new.cam], active)
      Look(r, d) ==
        LET same     == Conflicting(new.cam, d.cam)
            tooMuch  == r.total > MaxCost /\ Cost[d.cam] > 0 /\ d.prio >= new.prio
                          /\ ~(top = new.owner /\ d.owner = new.owner)
        IN  IF r.denied THEN r
            ELSE IF same /\ (d.prio < new.prio \/ (d.owner = new.owner /\ d.cam # new.cam)) THEN [r EXCEPT !.denied = TRUE]
            ELSE IF same \/ tooMuch THEN [r EXCEPT !.go = Append(@, d.client), !.total = @ - Cost[d.cam]]
            ELSE r
      all == FoldLeft(Look, [go |-> <<>>, total |-> total, denied |-> FALSE], active)
  IN  [all EXCEPT !.denied = @ \/ (all.total > MaxCost /\ top # new.owner)]

-----------------------------------------------------------------------------
(* Disconnecting a client                                                   *)

Phase(i) == clients[i].phase
To(i, phase) == clients' = [clients EXCEPT ![i].phase = phase]

\* A thread asks the first client it has to disconnect, and runs it if nobody does.
Ask(t) ==
  /\ calls[t].todo # <<>> /\ ~calls[t].mine /\ Phase(Head(calls[t].todo)) = "open"
  /\ To(Head(calls[t].todo), "asked") /\ calls' = [calls EXCEPT ![t].mine = TRUE]
  /\ UNCHANGED <<svc, cams, conn, prov, hal, env, hist>>

\* Its disconnect() returns: a second caller waits for the lock that the first
\* one holds, which Camera2Client gives up while it joins its threads.
Answered(t) ==
  /\ calls[t].todo # <<>> /\ LET i == Head(calls[t].todo) IN
       /\ Phase(i) = "done" \/ (~calls[t].mine /\ clients[i].api1 /\ Phase(i) = "asked")
       /\ hist' = IF Phase(i) = "asked" /\ ~Listed(i) THEN Odd("joining") ELSE hist
  /\ calls' = [calls EXCEPT ![t] = [todo |-> Tail(@.todo), mine |-> FALSE]]
  /\ UNCHANGED <<svc, cams, clients, conn, prov, hal, env>>

\* The client asks by itself.
Disconnect(i) ==
  /\ Phase(i) = "open" /\ clients[i].proc \notin env.dead /\ \A p \in Procs : conn[p].client # i
  /\ To(i, "asked")
  /\ UNCHANGED <<svc, cams, conn, calls, prov, hal, env, hist>>

CacheDump(i) ==
  /\ Phase(i) = "asked" /\ ~clients[i].api1 /\ Free
  /\ To(i, "dumped")
  /\ UNCHANGED <<svc, cams, conn, calls, prov, hal, env, hist>>

\* The device is closed.
DetachDevice(i) ==
  /\ Phase(i) = IF clients[i].api1 THEN "asked" ELSE "dumped"
  /\ To(i, "closed")
  /\ LET cam == clients[i].cam IN
       hal' = IF hal[cam].holder = i THEN HalTorch([hal EXCEPT ![cam].holder = 0], cam, FALSE, "OFF") ELSE hal
  /\ UNCHANGED <<svc, cams, conn, calls, prov, env, hist>>

Restriction(s, cl) == \E k \in DOMAIN s.active : cl[s.active[k].client].audio

RemoveByClient(i) ==
  /\ Phase(i) = "closed" /\ Free
  /\ To(i, "removed") /\ svc' = [Unlist(svc, i) EXCEPT !.restriction = Restriction(Unlist(svc, i), clients)]
  /\ UNCHANGED <<cams, conn, calls, prov, hal, env, hist>>

\* unregisterMonitorUid.
Unregister(m, p) == IF m[p] = 0 THEN m ELSE [m EXCEPT ![p] = @ - 1]

\* Somebody else has begun to open the camera of a client that is on its way out.
Overtaken(i) == \/ \E j \in Clients : j # i /\ clients[j].cam = clients[i].cam /\ Phase(j) \in {"open", "asked", "dumped", "closed", "removed"}
                \/ \E p \in Procs : conn[p].cam = clients[i].cam /\ conn[p].pc = "make"

\* finishCameraOps; another client of the camera may have started by now.
FinishCameraOps(i) ==
  /\ Phase(i) = "removed"
  /\ LET cam == clients[i].cam IN
       /\ cams' = [cams EXCEPT ![cam] = [(IF clients[i].ops THEN UpdateStatus(cam, "PRESENT") ELSE @) EXCEPT !.told = FALSE]]
       /\ hist' = IF Overtaken(i) THEN Odd("overtaken") ELSE hist
  /\ clients' = [clients EXCEPT ![i].phase = "finished", ![i].ops = FALSE]
  /\ svc' = [svc EXCEPT !.monitored = Unregister(@, clients[i].proc)]
  /\ UNCHANGED <<conn, calls, prov, hal, env>>

\* CameraFlashlight::deviceClosed.
DeviceClosed(i) ==
  /\ Phase(i) = "finished"
  /\ clients' = [clients EXCEPT ![i] = [NoClient EXCEPT !.phase = "done"]] /\ cams' = [cams EXCEPT ![clients[i].cam].flash = FALSE]
  /\ hist' = IF Overtaken(i) THEN Odd("overtaken") ELSE hist
  /\ UNCHANGED <<svc, conn, calls, prov, hal, env>>
-----------------------------------------------------------------------------
(* Connecting                                                               *)

\* checkIfDeviceIsUsable.
Usable(cam) == cams[cam].status # "unknown"

\* validateConnectLocked; the user of the caller is looked up and not heeded.
Valid(p, cam) == Usable(cam) /\ p \notin env.idle /\ ~env.privacy

Descriptor(p, cam, i, prio) == [client |-> i, cam |-> cam, owner |-> p, prio |-> prio]

\* The priorities of the list are refreshed before they are used again: they
\* are forgotten here.
Forgotten(active) == [k \in DOMAIN active |-> [active[k] EXCEPT !.prio = 0]]

Return(p) == /\ conn' = [conn EXCEPT ![p] = NoConn]
             /\ svc' = [svc EXCEPT !.lock = None, !.wrapper = None, !.active = Forgotten(@)]

\* connectHelper up to where handleEvictionsLocked gives the lock up.  (A caller that gets
\* its own client back changes nothing.)
ConnectBegin(p, cam) ==
  /\ conn[p].pc = "idle" /\ Free /\ svc.wrapper = None /\ p \notin env.dead /\ Valid(p, cam)
  /\ \E i \in Clients : clients[i] = NoClient
  /\ \E score \in [Procs -> Scores] :
       LET active == [k \in DOMAIN svc.active |-> [svc.active[k] EXCEPT !.prio = score[svc.active[k].owner]]]
           would  == WouldEvict(active, Descriptor(p, cam, 0, score[p]))
       IN  /\ svc' = IF would.denied THEN svc ELSE [svc EXCEPT !.active = active, !.wrapper = p]
           /\ IF would.denied THEN UNCHANGED <<conn, calls>>
              ELSE /\ conn' = [conn EXCEPT ![p] = [NoConn EXCEPT !.pc = "evict", !.cam = cam, !.evicted = Range(would.go),
                                                                 !.prio = score[p]]]
                   /\ calls' = [calls EXCEPT ![p].todo = would.go]
  /\ UNCHANGED <<cams, clients, prov, hal, env, hist>>

\* All of the evicted are gone: the lock is taken again, the torch given up.
ConnectEvicted(p) ==
  /\ conn[p].pc = "evict" /\ calls[p].todo = <<>> /\ Free /\ \A i \in conn[p].evicted : ~Listed(i)
  /\ IF Usable(conn[p].cam)
     THEN /\ svc' = [svc EXCEPT !.lock = p] /\ conn' = [conn EXCEPT ![p].pc = "make"]
          /\ cams' = [cams EXCEPT ![conn[p].cam].flash = TRUE]
     ELSE Return(p) /\ UNCHANGED cams
  /\ UNCHANGED <<clients, calls, prov, hal, env, hist>>

NewClient(p) == [NoClient EXCEPT !.cam = conn[p].cam, !.proc = p, !.phase = "open", !.api1 = p \in Api1]

\* Mutant of ConnectMake: the op is checked before it is watched.
ConnectMakeUnwatched(p) ==
  /\ conn[p].pc = "make" /\ hal[conn[p].cam].present /\ p \notin env.denied
  /\ LET cam == conn[p].cam
         i   == Min({i \in Clients : clients[i] = NoClient})
     IN  /\ clients' = [clients EXCEPT ![i] = NewClient(p)]
         /\ cams' = [cams EXCEPT ![cam] = [UpdateStatus(cam, "NOT_AVAILABLE") EXCEPT !.told = TRUE]]
         /\ svc' = [svc EXCEPT !.monitored[p] = @ + 1]
         /\ conn' = [conn EXCEPT ![p].pc = "open", ![p].client = i]
  /\ UNCHANGED <<calls, prov, hal, env, hist>>

\* makeClient and startCameraOps.  A client that fails is taken down by its
\* destructor, when the connecting thread has left; for a camera that the
\* provider does not know any more there is none.
ConnectMake(p) ==
  /\ conn[p].pc = "make"
  /\ LET cam == conn[p].cam
         i   == Min({i \in Clients : clients[i] = NoClient})
     IN  \/ /\ ~hal[cam].present
            /\ Return(p) /\ hist' = Odd("left open") /\ UNCHANGED <<cams, clients>>
         \/ /\ hal[cam].present /\ p \in env.denied
            /\ clients' = [clients EXCEPT ![i] = [NewClient(p) EXCEPT !.phase = "asked", !.api1 = FALSE]]
            /\ Return(p) /\ hist' = Odd("denied") /\ UNCHANGED cams
         \/ /\ hal[cam].present /\ p \notin env.denied
            /\ clients' = [clients EXCEPT ![i] = [NewClient(p) EXCEPT !.ops = TRUE]]
            /\ cams' = [cams EXCEPT ![cam] = [UpdateStatus(cam, "NOT_AVAILABLE") EXCEPT !.told = TRUE]]
            /\ svc' = [svc EXCEPT !.monitored[p] = @ + 1]
            /\ conn' = [conn EXCEPT ![p].pc = "open", ![p].client = i]
            /\ UNCHANGED hist
  /\ UNCHANGED <<calls, prov, hal, env>>

\* The device is initialized: the HAL is opened, unless somebody has it.
ConnectOpen(p) ==
  /\ conn[p].pc = "open"
  /\ LET cam  == conn[p].cam
         i    == conn[p].client
         busy == hal[cam].holder # 0
     IN  \/ /\ hal[cam].present /\ ~busy
            /\ hal' = HalTorch([hal EXCEPT ![cam].holder = i], cam, FALSE, "NOT_AVAILABLE")
            /\ conn' = [conn EXCEPT ![p].pc = IF p \in Api1 THEN "params" ELSE "finish"]
            /\ UNCHANGED <<svc, clients, env, hist>>
         \/ /\ ~hal[cam].present \/ busy \/ May
            /\ clients' = [clients EXCEPT ![i].phase = IF @ = "open" THEN "asked" ELSE @, ![i].api1 = FALSE]
            /\ env' = IF hal[cam].present /\ ~busy THEN Event(env) ELSE env
            /\ hist' = [Odd("not opened") EXCEPT !.busy = @ \/ busy]
            /\ Return(p) /\ UNCHANGED hal
  /\ UNCHANGED <<cams, calls, prov>>

\* getParameters, for which the client must not be closing.
ConnectParams(p) ==
  /\ conn[p].pc = "params" /\ Phase(conn[p].client) \in {"open", "asked", "done"}
  /\ conn' = [conn EXCEPT ![p].pc = "finish"]
  /\ UNCHANGED <<svc, cams, clients, calls, prov, hal, env, hist>>

\* The client is listed, or disconnected again if the camera is muted, with the
\* lock as given.  The result of linkToDeath is not looked at.
Finish(p, lock) ==
  /\ conn[p].pc = "finish"
  /\ LET i     == conn[p].client
         new   == Descriptor(p, conn[p].cam, i, conn[p].prio)
         would == WouldEvict(svc.active, new)
     IN  IF env.mute
         THEN /\ conn' = [conn EXCEPT ![p].pc = "refuse"] /\ svc' = [svc EXCEPT !.lock = lock]
              /\ calls' = [calls EXCEPT ![p].todo = <<i>>] /\ UNCHANGED <<clients, hist>>
         ELSE /\ svc' = [svc EXCEPT !.lock = None, !.wrapper = None, !.active = Forgotten(Append(@, new))]
              /\ conn' = [conn EXCEPT ![p] = NoConn]
              /\ clients' = [clients EXCEPT ![i].linked = p \notin env.dead]
              /\ hist' = [hist EXCEPT !.fatal = @ \/ would.denied \/ would.go # <<>>,
                                      !.odd = @ \cup (IF p \in env.idle \/ env.privacy THEN {"late"} ELSE {})]
              /\ UNCHANGED calls
  /\ UNCHANGED <<cams, prov, hal, env>>

\* Mutant of ConnectFinish: the client is disconnected under the lock.
ConnectFinishLocked(p) == Finish(p, p)

ConnectFinish(p) == Finish(p, None)

ConnectRefused(p) ==
  /\ conn[p].pc = "refuse" /\ calls[p].todo = <<>> /\ Free
  /\ Return(p)
  /\ UNCHANGED <<cams, clients, calls, prov, hal, env, hist>>

SetAudioRestriction(i) ==
  /\ Free /\ Phase(i) = "open" /\ Listed(i) /\ ~clients[i].audio /\ clients[i].proc \notin env.dead
  /\ clients' = [clients EXCEPT ![i].audio = TRUE]
  /\ svc' = [svc EXCEPT !.restriction = Restriction(svc, clients')]
  /\ UNCHANGED <<cams, conn, calls, prov, hal, env, hist>>

-----------------------------------------------------------------------------
(* Losing a camera                                                          *)

\* The clients in the list, and those of S in the order in which getAll() gives them.
ActiveClients == {svc.active[k].client : k \in DOMAIN svc.active}
Those(S) == SelectSeq([k \in DOMAIN svc.active |-> svc.active[k].client], LAMBDA i : i \in S)

\* onUidIdle, blockClientsForUid.
UidIdle(p) ==
  /\ May /\ p \notin env.idle
  /\ env' = Event([env EXCEPT !.idle = @ \cup {p}])
  /\ calls' = [calls EXCEPT !["block"].todo = @ \o Those({i \in ActiveClients : clients[i].proc = p})]
  /\ UNCHANGED <<svc, cams, clients, conn, prov, hal, hist>>

\* onSensorPrivacyChanged, blockAllClients.
SensorPrivacy ==
  /\ May /\ ~env.privacy
  /\ env' = Event([env EXCEPT !.privacy = TRUE])
  /\ calls' = [calls EXCEPT !["block"].todo = @ \o Those(ActiveClients)]
  /\ UNCHANGED <<svc, cams, clients, conn, prov, hal, hist>>

\* opChanged of every client that watches, which those of the failed do no more.
OpChanged(which) == [calls EXCEPT !["op"].todo = @ \o SetToSeq({i \in which : clients[i].ops /\ Phase(i) = "open"})]

\* A Camera2Client whose op changes while it is being connected.
Connecting(which) == \E p \in Procs : conn[p].client \in which /\ clients[conn[p].client].api1

\* The op is taken from a process.
Revoke(p) ==
  LET which == {i \in Clients : clients[i].proc = p} IN
  /\ May /\ p \notin env.denied
  /\ env' = Event([env EXCEPT !.denied = @ \cup {p}]) /\ calls' = OpChanged(which)
  /\ hist' = IF Connecting(which) THEN Odd("op") ELSE hist
  /\ UNCHANGED <<svc, cams, clients, conn, prov, hal>>

\* The camera is switched off for everybody; without muting the clients go.
CameraPrivacy ==
  /\ May /\ ~env.mute
  /\ env' = Event([env EXCEPT !.mute = TRUE]) /\ calls' = OpChanged(Clients)
  /\ hist' = IF Connecting(Clients) THEN Odd("op") ELSE hist
  /\ UNCHANGED <<svc, cams, clients, conn, prov, hal>>

\* external: a process dies.
ProcDies(p) ==
  /\ MayFail /\ p \notin env.dead
  /\ env' = Event([env EXCEPT !.dead = @ \cup {p}])
  /\ UNCHANGED <<svc, cams, clients, conn, calls, prov, hal, hist>>

Sweep(s, go) == /\ svc' = [s EXCEPT !.wrapper = "sweep"] /\ calls' = [calls EXCEPT !["sweep"].todo = go]

\* binderDied, evictClientIdByRemote: the client is taken from the list before
\* it is disconnected.
BinderDied(i) ==
  /\ Free /\ svc.wrapper = None /\ clients[i].proc \in env.dead /\ clients[i].linked /\ Listed(i)
  /\ Sweep(Unlist(svc, i), <<i>>)
  /\ UNCHANGED <<cams, clients, conn, prov, hal, env, hist>>

\* doUserSwitch.
UserSwitch ==
  /\ May /\ Free /\ svc.wrapper = None
  /\ \E users \in (SUBSET {User[p] : p \in Procs}) \ {{}, svc.users} :
       Sweep([svc EXCEPT !.users = users], Those({i \in ActiveClients : User[clients[i].proc] \notin users}))
  /\ env' = Event(env)
  /\ UNCHANGED <<cams, clients, conn, prov, hal, hist>>

SweepEnd ==
  /\ svc.wrapper = "sweep" /\ calls["sweep"].todo = <<>>
  /\ svc' = [svc EXCEPT !.wrapper = None]
  /\ UNCHANGED <<cams, clients, conn, calls, prov, hal, env, hist>>

\* The provider dies, or reports that a camera is gone; it knows the camera no
\* more, so that updateStatus skips it.
DeviceGone(cam, died) ==
  /\ MayFail /\ cam \in Removable /\ prov[cam] = "idle" /\ hal[cam].present
  /\ hal' = [hal EXCEPT ![cam] = [present |-> FALSE, holder |-> 0, lit |-> FALSE, says |-> <<>>]]
  /\ prov' = [prov EXCEPT ![cam] = IF died THEN "died" ELSE "report"] /\ env' = Event(env)
  /\ UNCHANGED <<svc, cams, clients, conn, calls, hist>>

\* onDeviceStatusChanged: the client is removed and told; the disconnect() of a
\* report is refused, because the caller is neither the client nor the service.
DeviceUnlist(cam) ==
  /\ prov[cam] \in {"died", "report"} /\ Free
  /\ LET has == Those({i \in ActiveClients : clients[i].cam = cam}) IN
       /\ svc' = [svc EXCEPT !.active = SelectSeq(@, LAMBDA d : d.cam # cam)]
       /\ calls' = IF prov[cam] = "died" THEN [calls EXCEPT ![cam].todo = has] ELSE calls
       /\ hist' = IF prov[cam] = "report" /\ has # <<>> THEN Odd("unheard") ELSE hist
  /\ prov' = [prov EXCEPT ![cam] = "erase"]
  /\ UNCHANGED <<cams, clients, conn, hal, env>>

\* removeStates.
DeviceErase(cam) ==
  /\ prov[cam] = "erase" /\ calls[cam].todo = <<>> /\ Free
  /\ cams' = [cams EXCEPT ![cam].status = "unknown", ![cam].torch = "none"]
  /\ hist' = IF cams[cam].torch = "ON" THEN Odd("lit") ELSE hist
  /\ prov' = [prov EXCEPT ![cam] = "idle"]
  /\ UNCHANGED <<svc, clients, conn, calls, hal, env>>

\* addStates, updateStatus.
DeviceBack(cam) ==
  /\ prov[cam] = "idle" /\ ~hal[cam].present /\ Free
  /\ cams' = [cams EXCEPT ![cam].status = "PRESENT", ![cam].torch = IF cam \in Flash THEN "OFF" ELSE "none"]
  /\ hal' = [hal EXCEPT ![cam].present = TRUE]
  /\ UNCHANGED <<svc, clients, conn, calls, prov, env, hist>>

-----------------------------------------------------------------------------
\* What the threads of the service do by themselves.
Step ==
  \/ \E t \in Threads : Ask(t) \/ Answered(t)
  \/ \E i \in Clients : CacheDump(i) \/ DetachDevice(i) \/ RemoveByClient(i) \/ FinishCameraOps(i) \/ DeviceClosed(i) \/ BinderDied(i)
  \/ \E p \in Procs : ConnectEvicted(p) \/ ConnectMake(p) \/ ConnectOpen(p) \/ ConnectParams(p) \/ ConnectFinish(p) \/ ConnectRefused(p)
  \/ \E c \in Cams : TorchCallback(c) \/ TorchClientDied(c) \/ DeviceUnlist(c) \/ DeviceErase(c)
  \/ SweepEnd

Next ==
  \/ Step
  \/ \E p \in Procs, c \in Cams : \/ ConnectBegin(p, c)
                                  \/ \E on \in BOOLEAN : SetTorchMode(p, c, on)
  \/ \E p \in Procs : UidIdle(p) \/ Revoke(p) \/ ProcDies(p)
  \/ \E i \in Clients : Disconnect(i) \/ SetAudioRestriction(i)
  \/ \E c \in Cams : DeviceBack(c) \/ \E died \in BOOLEAN : DeviceGone(c, died)
  \/ SensorPrivacy \/ CameraPrivacy \/ UserSwitch

Spec == Init /\ [][Next]_vars

-----------------------------------------------------------------------------
(* Properties                                                               *)

TypeOK ==
  /\ svc.lock \in Procs \cup {None} /\ svc.wrapper \in Procs \cup {None, "sweep"}
  /\ svc.monitored \in [Procs -> 0..MaxClients]
  /\ \A i \in Clients : Phase(i) \in {"none", "open", "asked", "dumped", "closed", "removed", "finished", "done"}
  /\ \A p \in Procs : conn[p].pc \in {"idle", "evict", "make", "open", "params", "finish", "refuse"}
  /\ \A c \in Cams : cams[c].status \in {"PRESENT", "NOT_AVAILABLE", "unknown"}
                     /\ cams[c].torch \in {"none", "OFF", "ON", "NOT_AVAILABLE"}

\* Nothing is under way.
Idle ==
  /\ \A p \in Procs : conn[p].pc = "idle"
  /\ \A t \in Threads : calls[t].todo = <<>>
  /\ \A i \in Clients : /\ Phase(i) \in {"none", "open", "done"}
                        /\ clients[i].linked /\ Listed(i) => clients[i].proc \notin env.dead
  /\ \A c \in Cams : prov[c] = "idle" /\ hal[c].says = <<>> /\ ~TorchDeathDue(c)
  /\ svc.wrapper = None

\* When a connecting thread comes to finishConnectLocked nobody is left to be
\* evicted: the service aborts otherwise.
NeverFatal == ~hist.fatal

\* The clients of the list never conflict, and they cost more than there is
\* only if one owner has all that cost anything (wouldEvictLocked).
ActiveFits ==
  LET at == svc.active IN
    /\ \A j, k \in DOMAIN at : j # k => ~Conflicting(at[j].cam, at[k].cam)
    /\ FoldLeft(LAMBDA n, d : n + Cost[d.cam], 0, at) > MaxCost =>
         \A j, k \in DOMAIN at : Cost[at[j].cam] > 0 /\ Cost[at[k].cam] > 0 => at[j].owner = at[k].owner

\* A camera that is to be opened has been closed by the client before
\* (handleEvictionsLocked, evictClientIdByRemote, disconnect).
OpenFindsItFree == "joining" \notin hist.odd => ~hist.busy

\* When all is quiet the cameras with a client, and no others, are in use:
\* for the service, for its listeners, for the torch and for the HAL
\* (startCameraOps, finishCameraOps, prepareDeviceOpen, deviceClosed).
StatusMatches ==
  Idle /\ hist.odd \cap {"overtaken", "left open", "unheard"} = {} =>
    \A c \in Cams : cams[c].status # "unknown" /\ hal[c].present =>
      LET used == \E i \in Clients : Listed(i) /\ clients[i].cam = c IN
        /\ used = (cams[c].status = "NOT_AVAILABLE")
        /\ used = cams[c].told /\ used = cams[c].flash /\ used = (hal[c].holder # 0)
        /\ c \in Flash => used = (cams[c].torch = "NOT_AVAILABLE")

\* When all is quiet no client is listed that must not be: not one of an idle
\* uid or under sensor privacy unless it came late, and never one whose op was
\* taken (block, opChanged, startCameraOps).
BlockedGone ==
  Idle => \A i \in Clients : Listed(i) =>
    /\ clients[i].proc \notin env.denied /\ ~env.mute
    /\ "late" \notin hist.odd => clients[i].proc \notin env.idle /\ ~env.privacy

\* A uid is monitored as often as it has clients that started their ops.
MonitoredCounts ==
  "denied" \notin hist.odd =>
    \A p \in Procs : svc.monitored[p] = Cardinality({i \in Clients : clients[i].proc = p /\ clients[i].ops})

\* When all is quiet audio is restricted exactly if a listed client wants it.
AudioSettled == Idle /\ "unheard" \notin hist.odd => svc.restriction = Restriction(svc, clients)

\* The battery of one uid is billed for a torch exactly while it is on.
TorchBilled ==
  "lit" \notin hist.odd =>
    \A c \in Cams : /\ (cams[c].billed # {}) = (cams[c].torch = "ON")
                    /\ Cardinality(cams[c].billed) <= 1

\* When all is quiet a torch is lit exactly if the service says so, and then
\* for a process whose death would turn it off (setTorchMode, handleTorchClientBinderDied).
TorchOwned ==
  Idle /\ hist.odd \cap {"overtaken", "not opened", "left open"} = {} =>
    \A c \in Cams : /\ hal[c].lit = (cams[c].torch = "ON")
                    /\ hal[c].lit => cams[c].torchLinked

\* No thread of the service waits for ever: if none can go on nothing is
\* under way.
NobodyStuck == "op" \notin hist.odd => (ENABLED Step \/ Idle)

\* The cameras are shared out as the eviction decides: the active clients fit together,
\* and a camera is opened when the client before it has closed it.
CamerasShared == TypeOK /\ NeverFatal /\ ActiveFits /\ OpenFindsItFree

\* What is kept beside the clients follows them: the status told to listeners, the uids
\* that are monitored and blocked, the restriction of audio, the torch and who pays for it.
BooksAgree ==
  /\ StatusMatches /\ BlockedGone /\ MonitoredCounts
  /\ AudioSettled /\ TorchBilled /\ TorchOwned
=============================================================================
