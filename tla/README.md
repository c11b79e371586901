# A TLA+ model of device_htc_hima

`device_htc_hima` is the device tree of a phone: the GPS HAL (`gps/`), the
manager of the IP accelerator that offloads tethering
(`data-ipa-cfg-mgr/`), a camera HAL wrapper with a copy of the platform's camera
service (`camera/`), the power, light, thermal and audio-amplifier HALs, a settings
app (`DeviceParts/`), and a great deal of data (overlays, policies, audio and media
profiles). This directory models its concurrent and stateful parts, checks them with
TLC, and proves the most important invariants with TLAPS.

`PROJECT.json` lists the components, the runs, the mutants each property catches, the
source lines behind each definition, and the hazards the properties are aimed at.

## Inventory

### GPS: `gps/utils`

* **Timers** (`LocTimer.cpp`). State: for each `LocTimer` its current delegate; the
  delegates with client, shared lock and due time; a heap of delegates; a `timerfd`
  and whether it is in the epoll set. Operations: `start`, `stop`, destruction (any
  thread), `MsgTimerPush/Remove/Expire` (the `MsgTask` thread), the poll thread.
  Hard: three threads, a delegate deleted only by a message that overtakes nothing, a
  wakeup that two threads arm and disarm, an expiration that races with a stop.
  Correct when no deleted delegate is used, the kernel timer is armed whenever a timer
  is waiting, every timer ends, and a callback is for the timer that expired.
* **Heap** (`LocHeap.cpp`). A binary tree with subtree sizes. Correct when it is a set
  from which the highest rank is taken, and pushes keep it balanced.
* **Message tasks** (`MsgTask.cpp`, `LocThread.cpp`, `msg_q.c`, `linked_list.c`). A
  queue, a thread and a delegate shared between the thread and its owner. Hard:
  `destroy()` against a thread that is starting, waiting or leaving. Correct when
  messages are handled in order and deleted once, and nothing is used after it was
  freed.
* Configuration, logging and target detection: text, read once.

### GPS: `gps/loc_api`, `gps/core`

* **AGPS state machines** (`loc_eng_agps.cpp`). Four states over a list of
  subscribers for three kinds of network interface (`agnss_nif`/`internet_nif`,
  `wifi_nif`, `ds_nif`). Hard: answers of the connectivity service arrive late or
  never, data calls fail and are retried by a timer, the modem restarts in any state.
  Correct when the list agrees with what the clients were told, a client is told the
  interface is there only when it is, everyone is answered, and nothing is left open.
* **Network initiated requests** (`loc_eng_ni.cpp`). Two slots (regular and
  emergency), one thread per request that waits for the user or a timeout, a message
  back to the modem, and a reset when the engine restarts. Hard: fields used outside
  the lock. Correct when the modem is answered at most once, with the user's response
  to that request, and every payload is freed once.
* **Location engine** (`loc_eng.cpp`, `loc.cpp`): fix sessions, muting, engine down
  and up. **Adapters and contexts** (`core/`, `LocEngAdapter.cpp`): fan-out of modem
  events. **Daemon connection** (`loc_eng_dmn_conn*`): a pipe and its thread.
  **NMEA and XTRA**: formatting and pass-through.

These parts meet in the `MsgTask` thread: the framework's calls, the modem's callbacks
and the timers all become messages for it; NI threads and the poll thread are the
only others.

### IPA: `data-ipa-cfg-mgr`

* **NAT tables** (`ipanat/`): hash tables with expansion lists, kept in memory shared
  with the hardware, updated by DMA commands that can fail. Correct when a lookup finds
  the live rules and no deleted one at every moment.
* **Connection manager** (`ipacm/`). One thread takes events off a queue and calls the
  listeners; other threads (netlink, driver, conntrack, configuration) only post.
  * *Queue, dispatcher, interface manager*: a list of listeners that is walked while
    listeners delete themselves. Correct when no event is lost or handed to a deleted
    object and an interface has one object.
  * *NAT entries* (`NatApp`, `IPACM_ConntrackListener`): a cache that mirrors the
    hardware table, temporary entries, clients in power save. Correct when no rule of the
    hardware is forgotten and none serves a client that sleeps or a connection that ended.
  * *Clients* (`IPACM_Lan`, `IPACM_Wlan`): arrays with handles of headers and routes, from
    whose middle elements are deleted, and series of ioctls that fail halfway.
  * *Upstream* (`IPACM_Wan`, and the listeners of its events): static members shared by
    all upstreams. Hard: addresses, routes, headers and links are reported in any order.

### Camera: `camera`

* **Camera service** (`CameraService.cpp`, `CameraFlashlight.cpp`, `ClientManager.h`): who
  has which camera. Locks that are given up in the middle of a call, evictions, deaths of
  processes and cameras, uids that are blocked, the torch. Correct when the active clients
  fit together, what listeners were told is true when all is quiet, and nobody waits for
  ever.
* **Camera device** (`Camera3Device.cpp` and its streams, request thread and status
  tracker): four threads, requests in flight, calls that wait for a status. Correct when
  every frame is answered once, buffers are accounted for, and the HAL is configured only
  when it is quiet.

### The rest

Power (hint requests to the performance daemon), lights (three sources that share an
LED), thermal (reads files), amplifier (register sequences), camera wrapper (translation
of calls), DeviceParts (settings, a gesture service), init and shims (straight-line
code), configuration files.

## Modules

| module | part | proofs |
|---|---|---|
| `LocTimer` | timers | `LocTimerProofs` |
| `LocHeap`, `RankedSet` | heap, and what it promises | |
| `MsgTask` | message tasks and threads | `MsgTaskProofs` |
| `Agps` | AGPS state machines with the handlers of `loc_eng.cpp` | `AgpsProofs` |
| `LocEngNi` | NI requests, engine restart, muting | `LocEngNiProofs` |
| `IpaNat` | NAT tables shared with the hardware | `IpaNatProofs` |
| `IpacmEvents` | event queue, dispatcher, life of the interface objects | `IpacmProofs` |
| `IpacmNat` | NAT entries and connection tracking | `IpacmProofs` |
| `IpacmClients` | clients of the tethered interfaces | `IpacmIfaceProofs` |
| `IpacmWan` | upstreams, tethered interfaces, filtering rules | `IpacmIfaceProofs` |
| `CameraService` | clients, evictions, status, torch | |
| `Camera3Device` | one open camera device | |
| `Camera2Client` | client of the old API: streams, recording, pictures | |
| `CameraFocus` | its autofocus | `CameraFocusProofs` |
| `CameraParams` | its parameters | |

A run has an `MC…` module with the symmetry set or constant functions of its
configuration, where it needs any. Some `MC…` modules put several components side by side
that share no state: the variable `part`, chosen by the initial state, says which of them
moves, and the others stay in one initial state. Their states add up and do not multiply.

### LocTimer

Variables keep the source's names: `mTimer`, `mClient`, `mContainer`, `mFutureTime`.
`heap` is the set of delegates in the tree and `top` the cached soonest one (the tree
itself is `LocHeap`'s subject); `fdTime` and `polled` are the kernel's state;
`msgQ` is the queue of the container's `MsgTask`. An owner's call is one step because
it holds the shared lock; `MsgTask` and the poll thread have a program counter each,
with a step boundary wherever another thread can be seen: in `expire()` between
reading `mClient`, `stop()` and the callback, between the pops, and between
`addPoll()` and `timerfd_settime()`. The clock advances by `Tick` up to `MaxTime`.

### LocHeap

The tree as nested records, with the recursive functions of the source. A refinement
mapping to `RankedSet` forgets the shape.

### MsgTask

`owner` and `thread` are the two program counters. Critical sections of the queue's
mutex are single steps, except that the receiver's wait is a step of its own: it may
be woken with nothing to take. `freed` and `touched` record which objects are deleted
and which are used afterwards. A message that is still in the queue when the owner unblocks
it may be handled or dropped: the receiver leaves without looking at the queue again, and
`~MsgTask` flushes what is left. A task whose thread could not be created, or was stopped
before it ran, is never deleted, and keeps its messages.

### Agps

One module; the kind of interface is a variable that `Init` chooses and nothing
changes, since the three kinds run the
same state classes and differ in their subscribers and in `DSStateMachine`'s
overrides. `mStatePtr`, `mSubscribers` and `mIsInactive` are the machine; `client`
is what each subscriber was last told; `requests` and `events` are the calls on their
way to and from the provider, which may answer late, fail, or lose the interface;
`nif` is the interface, which opens with a grant, closes on a request to release it or when
the network drops it, and stays as it is when a request fails. The provider is external: it is modelled by the calls the
source makes and accepts.

### LocEngNi

`pc` is the program counter of the thread of each request, `responder` the framework
thread inside `loc_eng_ni_respond()` (which looks at the slot before it locks it), and
`mtAt` `MsgTask` inside the reset, which takes no lock. `answers` and `frees` are
histories: what the modem was told about a request, and how often its payload was
freed.

### IpaNat

`tbl` and `indx` are the rule table and the index table, each with its expansion table
behind it in one index space as in the code; `prev_index` and `rule_id_array` are the
driver's own. `cur` and `at` are the call it is in: an insertion has a step for each
write the hardware could see, a deletion computes its DMA commands (`cmds`), which the
hardware then executes one by one, and cleans up when the ioctl returns. `FoundDown` and
`FoundUp` are what a lookup finds; a lookup is atomic. Calls fail up to `MaxFails` times;
most properties are about a history without failures, because the code undoes nothing.

### IpacmEvents

`queue` is `MessageQueue`, `thread` the loop of `Process()`, which may be woken with
nothing to take; `evt` and `tmp` are the event it dispatches and the registration its walk
has come to, so that posts of other threads fall between two listeners. `regs` is the
dispatcher's list, `objects` the interface objects that exist, `instances` the manager's
list. A report of the kernel or the driver is one step, except that a netlink message may
post two events (`netlink`). `link` and `served` are histories. `Walk` and `WalkPast` say to
which registration the walk goes on when a callback has added some or deleted an object with
its own. The node it stands on is copied before the call, so the next one is where the list
led before, and it may have been freed with the object (`NextIsFreed`): as long as its
contents are intact they lead on, and when another thread was given the memory meanwhile the
walk is lost. That is undefined behaviour; `stray` records whose registration it was and the
dispatcher's thread does nothing any more, so that the properties claim nothing of it, except
that only an access point that deletes itself and a USB upstream that a new configuration
deletes can lead it there (`LostOnlyBy`): they have a registration behind that of the event
they delete themselves in. In this module the names of the specification carry the
prefix `Events`, because one module of proofs is about it and `IpacmNat`.

### IpacmNat

`cache`, `temp`, `PwrSaveIfs`, `nat_iface_ipv4_addr` and `sta_clnt_ipv4_addr` are the
arrays of the code, with their free slots; `rules` is the table of the driver, by handle.
Every handler is one step because they all run on the thread of the queue. The driver may
refuse to make a table, to add a rule, to delete a rule and to delete the table, at any
call. What a refused deletion leaves depends on the caller, as in the code: the
entry stays enabled (power save), disabled entries and rules stay apart (a client that
leaves), or the entry is zeroed and the rule is forgotten (`DeleteEntry`). A table that
could not be deleted is `torn`: unmapped, still counted by the driver, its rules still in
the hardware. When the WAN comes up again the handle is lost, or, if the kernel grants the
memory, the driver writes past its array of one table; from there on, and from an access to
the unmapped table on, no step is modelled.
`renumbered`, `spared`, `refused` and `ended` are histories: a table made for another
address, clients whose rules stay although nothing should be offloaded for them, handles that
`DeleteEntry` forgot, connections that ended. They name the exceptions of the properties.

### IpacmClients

`client` is the array of `IPACM_Lan` or `IPACM_Wlan` (`kind`), whose elements are moved
when one in the middle goes; `routes` and `headers` are what the driver holds; any call
of the driver may fail, up to `MaxFails` times. The histories `attached`, `asleep`,
`shifted` and `twice` say what was reported, and which of the two sequences happened that
the code does not handle (a client added again without having been deleted; an element
moved, which leaves handles behind in the array).

### IpacmWan

`queue` holds the reports and the events which the upstream posts in turn; `wans` are the
upstreams in the order of their registration, `upstream` their members and the static ones,
`lan` the tethered interfaces, `rules` the driver's filtering rules, `conntrack` what the
connection tracking listener was told, `chosen` what the framework wants. One event is
handled by all its listeners in one step, each upstream in its turn (`InTurn`). `unusual`
records the sequences that the code is known not to handle, and each property names those it
does not speak of: a route for a new upstream while another is still chosen (*handover*); a
link that goes down between the routes of its two families, or that of a USB upstream in use
(*half down*); a USB upstream that loses a route, or its link, while the route waits for the
header (*header awaited*: the tethered interface stays in the list); a USB upstream that
serves two families and loses the route of one (*usb family*: `DelRmDependConsumer` counts
the users of the modem only, `IPACM_Config.cpp:540`, so the dependency goes with the first);
for the filtering rules also a USB upstream at all (*usb*), an address between the route and
its event (*address between*) and a link that goes down there (*link between*). The run has
one modem connection, one USB upstream and one tethered interface, and nine reports: both
families come and go and the other upstream takes over.

### Camera3Device

`dev` is the device with its streams, its queue and its entries in flight, `thr` and `trk`
the request thread and the tracker's thread, `owes` what the HAL has still to answer,
`gone` the streams whose consumer was abandoned. What a thread does under a lock is a
step; `waitUntilStateThenRelock()` makes a call two. `hist.odd` records known deviations:
an idle notification on its way when work arrives (*stale*), a wait that timed out
(*timeout*), a tracker component whose state was cached (*cached*), a request thread left
paused by a failed configuration (*left paused*).

### CameraService

`conn` is the program counter of `connectHelper()` of each process, `calls` the clients
each thread has to disconnect, `clients` the client objects with the steps of their
disconnection, `svc` the service under its locks, `cams` the states of the cameras and what
the listeners were told, `prov` the thread of a provider's report, `hal` the cameras.
`hist.odd` records known deviations: a report overtaken by another about the same camera
(*overtaken*), a connection refused after the client was counted (*denied*), a uid blocked
while it connects (*late*), an op revoked while its client starts (*op*), two clients that
join the same thread (*joining*), a camera left open by a client that failed to start (*left
open*, *not opened*), a process that died before anyone listened (*unheard*), a torch lit
while its owner changes (*lit*).

### Camera2Client

`c` is the client: the state of `Parameters`, the streams that exist with the sizes they
were made for, the request that repeats, and the settings that decide about streams. A call
of the application is one step under the lock of the parameters, and several where the code
gives it up (`call`): setting a window, taking a picture, stopping. `seq` is the capture
sequencer's thread with its flags, `shots` the captures the device has not finished and what
it has still to deliver for each, `held` the locks of the deadlock between the ZSL processor
and the parameters. A processor's stream is a size, 0 for none; an operation returns the
client with a result `res`, which the caller looks at or ignores as the code does.
`vsize` stands for size, format and data space of the video. `picture` is a history: what
became of the last picture (`is`), and the known deviations met so far (`odd`), each named
where it is set. After *no request*, *failed* and *late*, the ways in which the sequencer
gives a picture up, a behaviour goes on with the next one; after the others the calls that
change streams end. Calls and pictures are separate parts of the run: all calls with one
picture, and two pictures with fixed settings and windows.

### CameraFocus

The autofocus of the same client: its triggers, the results that report the lens, which may
come out of order and late, and the quirk of cameras whose autofocus must be triggered in auto mode
(`quirks.triggerAfWithAuto`). `asked` is
a history of the triggers sent by `autoFocus()`: told, superseded by another call, forgotten with
the focus mode, or still waited for. `cancelAutoFocus()` does not reset the trigger that is waited
for, so that a cancelled call can be told of *late*.

### CameraParams

`pr` is the set of parameters in force, `text` what `getParameters()` returns, `info` the
camera. One `set()` validates a change of several keys and takes all of it or nothing, as in
the code; the operators before it are its stages in their order.

## Runs

| run | bounds | shows |
|---|---|---|
| `timer` | 2 `LocTimer`s (one of the C API, deletable), 2 delegates in memory that is reused, 2 delays, clock to 3; the tree with 6 objects, two of equal rank | no dangling delegate, no lost wakeup, the shared lock's count; every timer ends; refinement of `RankedSet`, sizes, balance |
| `msgtask` | 3 messages, thread creation may fail | order, single deletion, the delegate's life; every message is handled, or dropped with the queue of a destroyed task; `destroy()` ends |
| `agps` | the three kinds, 2 subscribers, 3 calls under way, 2 retries | list, state, clients and interface agree as far as the kind keeps them, no ATL machine waits for nothing; everyone who asks an ATL or WIFI machine is answered |
| `ni` | 2 requests for 2 slots, 1 engine restart, thread creation may fail, users who accept | one answer per request; until a restart one thread per slot, payloads freed once; every request with a thread ends and leaves its slot |
| `ipanat` | 3 rules that all collide, 1 + 3 entries in each table, 1 failing call | live rules found and deleted ones not, at every step; links agree, nothing leaks, handles lead to their rules |
| `ipacm_events` | USB, an access point and a modem interface, 3 reports | only two kinds of object lead the walk into freed nodes, otherwise no deleted listener called and every listener called; one object per interface, counts agree; every event handled, what is inactive deleted |
| `ipacm_nat` | 2 clients (1 known at a time; the second has no connections and does not sleep), 2 peers, 2 public addresses, 2 entries, 1 temporary, 2 STA clients; any deletion may be refused | cache and hardware agree; what is forgotten, or left for who sleeps or has gone, the driver refused to delete |
| `ipacm_clients` | 2 clients, 2 + 1 addresses, 5 routes, 5 headers, 1 failing call | elements keep their own handles; nothing is left for who has gone |
| `ipacm_wan` | a modem and a USB upstream, 1 tethered interface, 9 reports, 2 events waiting | flags, NAT, firewall, dependencies and rules follow the upstream |
| `camera_device` | 2 streams of 2 buffers, bursts of 2, 3 frames, 3 calls, 1 fault | buffers, frames, status, configuration; nobody stuck |
| `camera_service` | 2 processes (one of the old API), 3 cameras (two conflict), 2 clients, 1 event, 2 torch calls | who has, is counted, billed and told what; nobody stuck |
| `camera_client` | all calls with 1 picture and 1 failure, and 2 pictures with 2 failures (lost buffer, lost request, none made), 1 timeout, 1 retry, for cameras with and without ZSL; 3 focus modes, 3 triggers, 2 frames, 1 change of mode; 2 cameras and single and double changes of parameters | streams fit the state, pictures delivered and not exchanged; a trigger is told of once, or has been superseded or forgotten, or is the one waited for; requests, read-back and modes agree |

The bounds let every interesting case happen: memory reused while an old message is in
the queue, a subscriber that joins or leaves while the other waits, a second request
that takes a slot just left, a list with a dead head, a middle and an end, an eviction of
a client that is being disconnected by another thread, a stream deleted with frames in
flight. `CHECK_DEADLOCK FALSE` is set where the system rests when nobody calls it or a
bound is used up. `ipanat` (rules with the same hashes) and `ipacm_clients` (clients that
are alike) use symmetry; neither checks a temporal property.

### Known deviations of the code

The models do what the code does, also where its comments say something else. These
places have no property of their own; a property that they would break says so in its
hypothesis, and the hazards name the most important ones:

* `LocTimer.cpp:367`: an expiration message takes the top of the heap, whatever is there
  by then, and expires a timer before its time (the comment at 365 speaks of the node
  that expired).
* `MsgTask.cpp:68`: `destroy()` uses a task that its thread may have deleted
  (`MsgTask.h:50`).
* `loc_eng_agps.cpp:561`: the data service machine can be pending with no request and no
  retry (276-278).
* `LocThread.cpp:135`: a task whose thread was stopped before it ran is not deleted, nor are
  the messages of its queue.
* `loc_eng_agps.cpp:905`: a result of opening the data call that is neither a retry nor a
  denial is not told to anybody.
* `loc_eng_ni.cpp:403`: a response that arrives with the timeout answers the next request
  (235).
* `ipa_nat_drvi.c:999`: after an insertion whose last command failed, the next rule of
  that list is linked to itself (1145).
* `IPACM_EvtDispatcher.cpp:129`: the walk reads the next node of the list after the listener
  was called, which may have freed it (access points and USB upstreams).
* `IPACM_Conntrack_NATApp.cpp:274`: an entry is zeroed also when its rule could not be
  deleted; the rule stays in the hardware.
* `IPACM_Conntrack_NATApp.cpp:215`: a table that could not be deleted is unmapped all the same;
  the next WAN up loses its handle or writes past `ip4_tbl[]` (`ipa_nat_drvi.h:58`).
* `IPACM_Conntrack_NATApp.cpp:197`: `Reset()` compares `enabled` where it should clear it.
* `Camera3Device.cpp:1678`: `deleteStream()` of a device that passes for idle while a buffer of
  the stream is out (an idle reported too late, 1936, or a capture that gave up waiting) puts the
  device in ERROR: `disconnect()` refuses (`Camera3IOStreamBase.cpp:146`). `FramesAnswered`
  allows it there only.
* `CameraService.cpp:1294`: the return of the check of the calling user is commented out.
* `ZslProcessor.cpp:561` and `Camera2Client.cpp:1589`: two locks taken in both orders.
* `Camera2Client.cpp:1847`: a result is to be kept from the application if cancel was called
  in between (also 1880-1883), but `cancelAutoFocus()` (1416) leaves `currentAfTriggerId`: a
  locked result that was under way is told.
* `Camera2Client.cpp:1537`: a snapshot while recording whose larger JPEG stream the device
  refuses is taken with the size of the video, but the streaming that `updateProcessorStream()`
  paused is not resumed (*left paused*); `createJpegStreamL()` (2011) leaves it so too.
* `CaptureSequencer.cpp:609-667`: a wait that is given up leaves the flags and the JPEG that comes
  later; the next picture may end with them (*late*). Mismatched ids and times are logged only.
  After too many retries (657) every later picture ends at once (*failed*).
* `CaptureSequencer.cpp:361`: a still picture given up before its capture leaves the preview on
  in state STOPPED (*no request*); `waitUntilDrained()` of `manageDone()` fails on it.
* `CameraService.cpp:4230`: a dead torch client whose torch cannot be turned off stays in
  `mTorchClientMap`.
* The sequences recorded by `unusual` (IpacmWan), `hist.odd` and `picture.odd` (the
  camera modules).

### Fairness

Liveness runs assume weak fairness of threads that run a loop of their own
(`MsgTask`, the poll thread, NI threads, the destroying owner once it has begun, the thread
of ipacm's queue), of the clock, and, in `Agps`, of the provider: it answers each request
in the end, possibly with a failure. Nothing is assumed of owners, users, the kernel or
the modem: they may never call. The camera runs state the absence of a lost wakeup as an
invariant (`NobodyStuck`: a thread can move, or all is quiet).

## Proofs

Each proof module states an inductive invariant, proves that `Init` implies it and that
every action keeps it, and derives the properties. They hold for every value of the
constants that the named `ASSUME` of the module allows. None of these assumptions is about
the size of an instance: they say that sizes and bounds are natural numbers (a table has
more than one entry), that hashes lead into the base table, that sets of different things
are disjoint, and that what stands for nothing (`NoRule`, `NoIp`, `NoConn`, `NoMac`, ...) is
not a thing of its kind.

* `LocTimerProofs`: `QueueInv` says in which order a delegate's push and remove can be in
  the queue and that a delegate whose remove is queued is still allocated; with `HeapInv`,
  `ClientInv` and `TaskInv` it gives `NoDangling`: a delegate is referred to only
  before its remove message is handled. `WakeupInv` names the four ways in which an
  arming of the fd can be on its way, and gives `NoLostWakeup`. `SharedLockCount` needs
  beyond these only that the allocated delegates are finitely many (`LockInv`): each step adds
  or takes one that shares the lock, and the cardinality follows.
* `AgpsProofs`: `ClientInv` and `PendingInv`, for the kinds without data calls where
  they speak of a released or a pending machine (for `ds_nif` that is false, see the
  known deviations), and `StateMatchesList` for the kinds whose subscribers wait for
  the close; for any number of subscribers, calls and retries.
* `LocEngNiProofs`: `OnceInv` says that a payload is in one place: with one thread, in
  one message, or answered. `SlotInv` connects it with the slot, which the reset may
  empty at any time; together they give `OneAnswer` for any number of restarts. `CalmInv`
  holds until the first restart and gives `OneThread` and `FreedOnce`, which restarts break.
* `MsgTaskProofs`: `RefInv` equates the reference count with the number of threads that
  still hold the delegate. `MessagesOnce` is about what was sent: at every moment it is what
  was handled, then the message in hand, then the queue, in this order and without a
  message twice; so a message is deleted by its handler or by the flush, and not by both.
* `IpaNatProofs`: the invariant has three parts. `TypeInv` adds to the types what the
  driver's local variables hold at each step of a call. `HandleInv`, up to the first failing
  call, says that a handle leads to its rule and that each handle given out is some rule's;
  a counting argument then shows that a rule being added finds a free handle, and not the
  largest one, which `ipa_nati_parse_ipv4_rule_hdl()` refuses. `SoundInv`, as long as no call
  has failed, says that there are *clean* tables of which the steps of the current call have
  made what the hardware sees. In clean tables every entry is zero or lies in the list of its
  rule, the links back are right, a dead rule is a head that others follow, and the live rules
  are those with handles. The invariant speaks of the tables before the call because in the
  middle of a call neither the lists nor the links back are right; what a lookup finds
  (`LookupsRight`) then follows from how far the commands have come, and a call that returns
  has made clean tables of clean ones (`TablesAgree`). All of it rests on what a list is: the
  least set with its head that follows the next fields (`ListLeast`), so that adding behind
  the end keeps every list (`ListGrows`) and unlinking an entry loses that entry only
  (`ListUnlinked`). No bound is put on the rules that share a hash or on the length of a list.
* `IpacmProofs`, `IpacmNat`: cache and table agree entry by entry (`CoreInv`). That nothing serves a
  client asleep or unknown needs that the list of those asleep has each once (`SleepersOnce`), so that
  waking up takes the client off it; that nothing is left of the old upstream needs that the
  table is that of the upstream's address (`TableOfWan`); and the STA clients need that they
  are counted as they are stored (`StaInv`). A deletion that the driver refuses is part of
  every step: `DeletionKeeps` says when a rule that stays is still known, and `SpareFacts`
  that a client whose rules stay is named by `spared`.
* `IpacmProofs`, `IpacmEvents`: `EventsInv` says whom the dispatcher has registered: every
  object that lives for the events of its type, once each, the last behind the others, and
  nobody else (`RegsMatch`); and how far the walk is, if it was not lost behind an access
  point or a USB upstream (`LostWhere`): of the listeners of the event exactly those before the place it
  has come to have been called (`WalkOK`), which deleting nodes before and behind that place
  keeps, because what is left of the list is in its old order (`Embeds`). An object that is
  inactive has its `IPA_LAN_DELETE_SELF` in the queue, or it is dispatched and the object has
  still to be called (`DeleteSelfOK`); an interface last said to be down has the event that
  ends its object in the queue with nothing behind it that makes a new one, or nothing is left
  but objects about to be called (`DownOK`). So when the walk ends and every registered
  listener has been called, who had to go is gone: `ListenersAgree`. For `CountsAgree` the
  list of the NAT's interfaces is compared with the active objects, entry by entry, through
  `AddNatIfaces()` and `DelNatIfaces()`. Any sets of interfaces, any number of reports, a
  queue of any length.
* `IpacmIfaceProofs`, `IpacmClients`: `HandlesKept` and `RoutedWhileAwake` of an array whose elements move
  need that no two elements share a route or a header (`RowsApart`), that a client has one
  element while it is attached (`MacsOnce`), that without a failure the driver has no header
  that no element names (`HeadersHeld`), and which flags go with which handles and with the
  power save (`RowsRight`, `FlagsRight`).
* `IpacmIfaceProofs`, `IpacmWan`: `WanInv` has a part that always holds (`ObjectsKnown`: the
  members of an object fit together, every modem connection with an address is counted, the
  dependencies are those of all producers on all consumers), and one for the sequences that
  are not `unusual` (`InOrder`). There one upstream at most is in use (`Single`), and the
  flags, the firewall and the count of the users of the modem are the ones it has set; the
  lists of the tethered interfaces go with its families (`Listed`). That no second upstream
  comes into use is a matter of the queue: `Routed` compares the routes that are added and
  deleted there with what the framework chose, and says that before a route is added what is
  in its way has been deleted. For the NAT `ToldRight` says that the WAN_UP and WAN_DOWN
  which are still waiting lead, one after the other, from what connection tracking knows to
  the upstream there is, so that they agree when none is left. What all the objects do in
  turn is a fold over them: that it stays in a set which every turn keeps is proved by the
  least turn that would leave it (`TurnsExist`). Any number of upstreams and tethered
  interfaces, a queue of any length. `WanAssumption` asks for finitely many upstreams
  because the connections are counted.
* `CameraFocusProofs`: a trigger is never given out twice (`TriggersGiven`), the only call
  that is waited for is that of the current trigger (`OpenIsCurrent`), and a result already told
  is not waited for (`ToldNotWaitedFor`); so late results of a trigger that was superseded or
  forgotten are told to nobody. Those of a cancelled one are: the theorem does not exclude it.

Only model-checked:

* Liveness (`TimersEnd`, `TaskEnds`, `EveryoneIsAnswered`, `EveryRequestFreed`,
  `EventsEnd`): the prover knows no fairness.
* `LocHeap` (`ImplementsRankedSet`, `TreeKept`): recursive operators over trees.
* `RulesHeld` of `IpacmWan`: which rules an interface has follows from its place among the
  UP_TETHER and DOWN_TETHER that are waiting and from the order in which the driver gives
  handles; no inductive invariant for it is stated here.
* `Camera3Device` and `CameraService` compute their next state
  with folds and selections over sequences (the streams, the clients to evict): what they
  return for every sequence needs an induction over
  data. `NobodyStuck` of `CameraService` also speaks of `ENABLED`.
* `Camera2Client`: the result of one call passes through cascades of updates of nested
  records; the prover does not carry them.
* `CameraParams`: rates are compared by products and integer divisions of variables, which
  the prover's arithmetic does not decide.

## Plan

1. Composite streams, the buffer management of streams, the provider manager.
2. The rest of the connection manager: filtering rules of an access point, LAN to LAN.
3. Proofs: an inductive invariant for `RulesHeld` of `IpacmWan`; the evictions of
   `CameraService` as functions, so that `CamerasShared` can be proved as well as checked.

## Not modelled

Configuration and data files, formatting and parsing of text (XML, NMEA, parameters),
start-up code without state, the bytes of headers and rules, image metadata and its
geometry. `PROJECT.json` gives the reason for every component.
