----------------------------- MODULE IpacmEvents -----------------------------
(***************************************************************************)
(* The event queue of ipacm, its dispatcher, and the life of the objects   *)
(* that serve the interfaces.                                              *)
(*                                                                         *)
(* Threads that listen to netlink, to the IPA driver and to the            *)
(* configuration file post events.  One thread takes them off the queue    *)
(* and calls every listener registered for the event; IPACM_IfaceManager   *)
(* is the first listener and creates one IPACM_Lan, IPACM_Wlan or          *)
(* IPACM_Wan for an interface that comes up, and these delete themselves   *)
(* when it goes down, at once (WAN) or by a later event (LAN, WLAN).       *)
(*                                                                         *)
(* Only the events of this life cycle are kept; what the listeners do to   *)
(* the hardware is in other modules.  The odu mode is off (IPACM_cfg.xml)  *)
(* and the build is FEATURE_IPA_ANDROID: no interface becomes a WLAN_WAN.  *)
(***************************************************************************)
EXTENDS Integers, Sequences, FiniteSets, SequencesExt

CONSTANTS
  Usb, Wlans, Rmnets,   \* the interfaces of iface_table
  MaxReports            \* bound on what the kernel and the driver report

Ifaces == Usb \cup Wlans \cup Rmnets

ASSUME EventsAssumption ==
  /\ Usb \cap Wlans = {} /\ Usb \cap Rmnets = {} /\ Wlans \cap Rmnets = {}
  /\ IsFiniteSet(Ifaces) /\ "none" \notin Ifaces
  /\ MaxReports \in Nat

VARIABLES
  queue,      \* MessageQueue
  netlink,    \* what the netlink thread has still to post for the message it decodes
  thread,     \* the thread of MessageQueue::Process: "ready", "waiting" or "walking"
  signalled,  \* cond_var was signalled while the thread waits
  evt,        \* the event being dispatched
  tmp,        \* the registration the walk has come to, or End
  regs,       \* the dispatcher's list of registrations
  objects,    \* the live interface objects
  instances,  \* IPACM_IfaceManager's list
  if_cat,     \* iface_table[].if_cat
  xml,        \* the categories in the configuration file
  nat_ifaces, \* pNatIfaces, the first ipa_nat_iface_entries of it
  num_wlan_ap_iface,
  stray,      \* history: the type of the object in whose freed registration the walk was lost
  link,       \* history: what the last event posted said of each interface
  served,     \* history: the objects called for this event
  reports     \* history: the number of reports

box        == <<queue, signalled, link>>
posting    == <<netlink, reports, xml>>
processing == <<thread, evt, tmp, served>>
life       == <<regs, objects, instances, if_cat, nat_ifaces, num_wlan_ap_iface, stray>>
eventsVars == <<box, posting, processing, life>>

Manager == 0
End     == [obj |-> Manager, event |-> "none"]
NoEvt   == [event |-> "none", iface |-> "none"]
Hole    == "none"

\* What an RTM_NEWLINK says: how IFF_UP has changed, and of the carrier; IFF_LOWER_UP is only
\* set of an interface that is up.
Flags    == {"same", "up", "down"}
Carriers == {"running", "dormant", "none"}

E(e, i) == [event |-> e, iface |-> i]

\* The registrations of each kind of object, in their order.
ManagerEvents == <<"CFG_CHANGE", "LINK_UP", "WLAN_AP_LINK_UP", "USB_LINK_UP">>
ListenerEvents(type) ==
  CASE type = "lan"  -> <<"ADDR_ADD", "CFG_CHANGE", "LINK_DOWN", "LAN_DELETE_SELF">>
    [] type = "wlan" -> <<"ADDR_ADD", "WLAN_LINK_DOWN", "LAN_DELETE_SELF", "TETHERING_STATS">>
    [] type \in {"q6", "ecm"} -> <<"ADDR_ADD", "CFG_CHANGE", "LINK_DOWN">>

Nodes(o, events) == [n \in 1..Len(events) |-> [obj |-> o, event |-> events[n]]]

\* The categories that IPACM_cfg.xml gives.
Shipped == [i \in Ifaces |-> IF i \in Usb THEN "LAN" ELSE IF i \in Wlans THEN "UNKNOWN" ELSE "WAN"]

EventsInit ==
  /\ queue = <<>> /\ netlink = <<>> /\ thread = "ready" /\ signalled = FALSE
  /\ evt = NoEvt /\ tmp = End /\ served = {}
  /\ regs = Nodes(Manager, ManagerEvents)
  /\ objects = <<>> /\ instances = <<>>
  /\ xml = Shipped /\ if_cat = Shipped
  /\ nat_ifaces = <<>> /\ num_wlan_ap_iface = 0 /\ stray = "none"
  /\ link = [i \in Ifaces |-> "down"] /\ reports = 0

-----------------------------------------------------------------------------
(* IPACM_EvtDispatcher::PostEvt()                                          *)

enqueue(e) == queue' = Append(queue, e)

\* The events by which an object of interface i may be made, and the one that ends it; of
\* the WLAN interfaces the driver tells the end.
UpEvents(i)  == IF i \in Wlans THEN {"WLAN_AP_LINK_UP", "USB_LINK_UP"} ELSE {"LINK_UP", "USB_LINK_UP"}
DownEvent(i) == IF i \in Wlans THEN "WLAN_LINK_DOWN" ELSE "LINK_DOWN"

\* What is said of each interface when e has been posted.
Said(e) ==
  [i \in Ifaces |-> IF e.iface # i THEN link[i]
                   ELSE IF e.event \in UpEvents(i) THEN "up"
                   ELSE IF e.event = DownEvent(i) THEN "down" ELSE link[i]]

\* Mutant of PostEvt: the signal is forgotten.
PostEvtSilent(e) ==
  /\ enqueue(e)
  /\ signalled' = signalled
  /\ link' = Said(e)

\* Enqueued and signalled under the mutex.  The thread hears it only if it waits.
PostEvt(e) ==
  /\ enqueue(e)
  /\ signalled' = (signalled \/ thread = "waiting")
  /\ link' = Said(e)

-----------------------------------------------------------------------------
(* The threads that report                                                 *)

\* One more report.
Report == reports < MaxReports /\ reports' = reports + 1

\* ipa_nl_decode_nlmsg() of an RTM_NEWLINK: what it posts when IFF_UP has changed, and of
\* the carrier in either case.  The events are posted one by one, so an interface that is
\* up before its carrier is posted up and then down.
FlagEvents(i, flag) ==
  CASE flag = "same" -> <<>>
    [] flag = "up"   -> <<E("LINK_UP", i)>>
    [] flag = "down" -> <<E("LINK_DOWN", i)>>
CarrierEvents(i, carrier) ==
  CASE carrier = "running" -> <<E("USB_LINK_UP", i)>>
    [] carrier = "dormant" -> <<>>
    [] carrier = "none"    -> <<E("LINK_DOWN", i)>>

NewLink(i, flag, carrier) ==
  /\ netlink = <<>>
  /\ flag = "same" => carrier # "dormant"
  /\ flag = "down" => carrier = "none"
  /\ Report
  /\ netlink' = FlagEvents(i, flag) \o CarrierEvents(i, carrier)
  /\ UNCHANGED <<box, xml, processing, life>>

\* RTM_DELLINK
DelLink(i) ==
  /\ netlink = <<>> /\ Report
  /\ netlink' = <<E("LINK_DOWN", i)>>
  /\ UNCHANGED <<box, xml, processing, life>>

NetlinkPost ==
  /\ netlink # <<>>
  /\ PostEvt(Head(netlink))
  /\ netlink' = Tail(netlink)
  /\ UNCHANGED <<reports, xml, processing, life>>

\* ipa_driver_wlan_notifier(): an access point starts or stops.
DriverWlan(i) ==
  /\ Report
  /\ PostEvt(E("WLAN_AP_LINK_UP", i)) \/ PostEvt(E("WLAN_LINK_DOWN", i))
  /\ UNCHANGED <<netlink, xml, processing, life>>

\* The USB cable is plugged or pulled.
DriverUsb(i) ==
  /\ Report
  /\ PostEvt(E("USB_LINK_UP", i)) \/ PostEvt(E("LINK_DOWN", i))
  /\ UNCHANGED <<netlink, xml, processing, life>>

\* firewall_monitor(): the configuration file was written, with the USB interface
\* for either use.
ConfigFile ==
  /\ Report
  /\ \E cat \in {"LAN", "WAN"} : xml' = [i \in Ifaces |-> IF i \in Usb THEN cat ELSE Shipped[i]]
  /\ PostEvt(E("CFG_CHANGE", Hole))
  /\ UNCHANGED <<netlink, processing, life>>

-----------------------------------------------------------------------------
(* MessageQueue::Process() and IPACM_EvtDispatcher::ProcessEvt()           *)

\* The places of list whose registration is for event e; the others have no effect.
PlacesFor(list, e) == {n \in 1..Len(list) : list[n].event = e}

\* The first of some places of list.
FirstNode(list, places) ==
  IF places = {} THEN End ELSE list[CHOOSE k \in places : \A j \in places : k <= j]

Dequeue ==
  /\ thread = "ready" /\ queue # <<>>
  /\ thread' = "walking"
  /\ evt' = Head(queue) /\ queue' = Tail(queue)
  /\ tmp' = FirstNode(regs, PlacesFor(regs, Head(queue).event)) /\ served' = {}
  /\ UNCHANGED <<signalled, link, posting, life>>

\* The queue is looked at and the wait begun under the mutex.
Wait ==
  /\ thread = "ready" /\ queue = <<>>
  /\ thread' = "waiting" /\ signalled' = FALSE
  /\ UNCHANGED <<queue, link, posting, evt, tmp, served, life>>

Wake ==
  /\ thread = "waiting" /\ signalled
  /\ thread' = "ready" /\ signalled' = FALSE
  /\ UNCHANGED <<queue, link, posting, evt, tmp, served, life>>

\* Where in the list the walk is.
Place == CHOOSE n \in 1..Len(regs) : regs[n] = tmp

\* A callback returns having registered more, which the walk misses if it was at the end of
\* the list: the next node was copied before the call.
Walk(more) ==
  LET list == regs \o more
  IN  /\ tmp' = FirstNode(list, {n \in PlacesFor(list, evt.event) : n > Place /\ Place # Len(regs)})
      /\ regs' = list
      /\ served' = served \cup {tmp.obj}
      /\ stray' = stray

\* The nodes of list that are not of object o, in their order.
Others(list, o) ==
  LET kept == {n \in 1..Len(list) : list[n].obj # o}
  IN  [n \in 1..Cardinality(kept) |->
         list[CHOOSE k \in kept : Cardinality({j \in kept : j <= k}) = n]]

\* The next node, copied before the callback, is one that is freed with object o.
NextIsFreed(o) == Place < Len(regs) /\ regs[Place + 1].obj = o

\* A callback returns having deregistered object o, and the walk reads the next node even if
\* that was freed.  The contents of a freed node, while they are intact, lead on past the
\* nodes freed with it; when another thread was given the memory meanwhile they can be
\* anything, and nothing is known of the walk any more.
WalkPast(o) ==
  /\ regs' = Others(regs, o)
  /\ served' = served \cup {tmp.obj}
  /\ \/ /\ tmp' = FirstNode(regs, {n \in PlacesFor(regs, evt.event) : n > Place /\ regs[n].obj # o})
        /\ stray' = stray
     \/ /\ NextIsFreed(o)
        /\ stray' = objects[o].type
        /\ tmp' = tmp

\* A callback is under way, and the one of event e.  What a walk does that was lost in freed
\* memory is undefined: the model follows it no further.
Calling     == thread = "walking" /\ tmp # End /\ stray = "none"
Callback(e) == Calling /\ evt.event = e

\* Every listener has been called: the message is freed.
ProcessEnd ==
  /\ thread = "walking" /\ tmp = End
  /\ thread' = "ready" /\ evt' = NoEvt /\ served' = {}
  /\ UNCHANGED <<box, posting, tmp, life>>

-----------------------------------------------------------------------------
(* IPACM_Config: the interfaces NAT is done for                            *)

AddNatIfaces(list, i) ==
  Append(list, IF Len(list) + 1 < Cardinality(Ifaces) THEN i ELSE Hole)

\* Mutant of DelNatIfaces: the last entry is taken out.
DelNatIfacesLast(list, i) == IF list = <<>> THEN list ELSE RemoveAt(list, Len(list))

\* The first entry of that name is taken out.
DelNatIfaces(list, i) ==
  LET here == {k \in 1..Len(list) : list[k] = i}
  IN  IF here = {} THEN list ELSE RemoveAt(list, CHOOSE k \in here : \A j \in here : k <= j)

-----------------------------------------------------------------------------
(* IPACM_IfaceManager::event_callback()                                    *)

SearchInstance(i) == \E k \in 1..Len(instances) : instances[k].iface = i

\* Memory that is free: it may be that of a deleted object.
NewObject == CHOOSE o \in 1..(Cardinality(DOMAIN objects) + 1) : o \notin DOMAIN objects

\* iface_addr_query() posts the address that the interface may have already.
AddrQuery(i) == PostEvt(E("ADDR_ADD", i)) \/ UNCHANGED box

\* IPACM_Iface::IPACM_Iface()
Iface(i, type, cat) ==
  [iface |-> i, type |-> type, cate |-> cat, active |-> TRUE, is_mode_switch |-> FALSE]

\* create_iface_instance() and the constructors it calls.
Create(i, cat, wanType) ==
  IF SearchInstance(i) \/ cat = "UNKNOWN"
    THEN /\ Walk(<<>>)
         /\ UNCHANGED <<box, objects, instances, nat_ifaces, num_wlan_ap_iface>>
    ELSE LET o == NewObject
             type == CASE cat = "LAN" -> "lan" [] cat = "WLAN" -> "wlan" [] cat = "WAN" -> wanType
         IN  /\ objects' = [n \in DOMAIN objects \cup {o} |->
                              IF n = o THEN Iface(i, type, cat) ELSE objects[n]]
             /\ instances' = Append(instances, [iface |-> i, obj |-> o])
             /\ nat_ifaces' = AddNatIfaces(nat_ifaces, i)
             /\ num_wlan_ap_iface' = num_wlan_ap_iface + (IF type = "wlan" THEN 1 ELSE 0)
             /\ Walk(Nodes(o, ListenerEvents(type)))
             /\ AddrQuery(i)

\* IPACM_Config::Init() reads the file again; ipa_nat_iface_entries keeps its value.
ManagerCfgChange ==
  /\ Callback("CFG_CHANGE") /\ tmp.obj = Manager
  /\ if_cat' = xml
  /\ nat_ifaces' = [n \in 1..Len(nat_ifaces) |-> Hole]
  /\ Walk(<<>>)
  /\ UNCHANGED <<box, posting, thread, evt, objects, instances, num_wlan_ap_iface>>

ManagerLinkUp ==
  /\ Callback("LINK_UP")
  /\ Create(evt.iface, IF if_cat[evt.iface] = "WAN" THEN "WAN" ELSE "UNKNOWN", "q6")
  /\ UNCHANGED <<posting, thread, evt, if_cat>>

ManagerUsbLinkUp ==
  /\ Callback("USB_LINK_UP")
  /\ Create(evt.iface, if_cat[evt.iface], "ecm")
  /\ UNCHANGED <<posting, thread, evt, if_cat>>

\* An access point is noticed only while the category of its interface is unknown.
ManagerApLinkUp ==
  /\ Callback("WLAN_AP_LINK_UP")
  /\ IF if_cat[evt.iface] = "UNKNOWN"
       THEN /\ if_cat' = [if_cat EXCEPT ![evt.iface] = "WLAN"]
            /\ Create(evt.iface, "WLAN", "q6")
       ELSE /\ Create(evt.iface, "UNKNOWN", "q6")
            /\ if_cat' = if_cat
  /\ UNCHANGED <<posting, thread, evt>>

-----------------------------------------------------------------------------
(* event_callback() of IPACM_Lan, IPACM_Wlan and IPACM_Wan                 *)

Self == objects[tmp.obj]

\* The destructor, called in a callback of object o.
WithoutObject(o) == [n \in DOMAIN objects \ {o} |-> objects[n]]

Deregistr(o) ==
  /\ objects' = WithoutObject(o)
  /\ instances' = Others(instances, o)
  /\ WalkPast(o)

\* handle_down_evt() of a LAN or WLAN: inactive from now on, and post_del_self_evt().
Deactivate(switch) ==
  /\ objects' = [objects EXCEPT ![tmp.obj].active = FALSE, ![tmp.obj].is_mode_switch = switch]
  /\ nat_ifaces' = DelNatIfaces(nat_ifaces, Self.iface)
  /\ PostEvt(E("LAN_DELETE_SELF", Self.iface))
  /\ Walk(<<>>)

\* Mutant of LanDown: also when inactive.
LanDownAgain ==
  /\ Callback("LINK_DOWN") /\ Self.type = "lan" /\ Self.iface = evt.iface
  /\ Deactivate(FALSE)
  /\ UNCHANGED <<posting, thread, evt, instances, if_cat, num_wlan_ap_iface>>

LanDown ==
  /\ Callback("LINK_DOWN") /\ Self.type = "lan" /\ Self.active /\ Self.iface = evt.iface
  /\ Deactivate(FALSE)
  /\ UNCHANGED <<posting, thread, evt, instances, if_cat, num_wlan_ap_iface>>

\* The interface is to be a WAN: it is taken down, and up again when the object is gone.
LanCfgChange ==
  /\ Callback("CFG_CHANGE") /\ tmp.obj # Manager
  /\ Self.type = "lan" /\ Self.active /\ if_cat[Self.iface] # Self.cate
  /\ Deactivate(TRUE)
  /\ UNCHANGED <<posting, thread, evt, instances, if_cat, num_wlan_ap_iface>>

LanDeleteSelf ==
  /\ Callback("LAN_DELETE_SELF") /\ Self.type = "lan" /\ Self.iface = evt.iface
  /\ Deregistr(tmp.obj)
  /\ IF Self.is_mode_switch THEN PostEvt(E("USB_LINK_UP", Self.iface)) ELSE UNCHANGED box
  /\ UNCHANGED <<posting, thread, evt, if_cat, nat_ifaces, num_wlan_ap_iface>>

WlanDown ==
  /\ Callback("WLAN_LINK_DOWN") /\ Self.active /\ Self.iface = evt.iface
  /\ Deactivate(FALSE)
  /\ if_cat' = [if_cat EXCEPT ![Self.iface] = "UNKNOWN"]
  /\ UNCHANGED <<posting, thread, evt, instances, num_wlan_ap_iface>>

WlanDeleteSelf ==
  /\ Callback("LAN_DELETE_SELF") /\ Self.type = "wlan" /\ Self.iface = evt.iface
  /\ Deregistr(tmp.obj)
  /\ num_wlan_ap_iface' = num_wlan_ap_iface - 1
  /\ UNCHANGED <<box, posting, thread, evt, if_cat, nat_ifaces>>

\* A WAN on USB goes down with whatever interface goes down.
WanDown ==
  /\ Callback("LINK_DOWN") /\ Self.type \in {"q6", "ecm"}
  /\ Self.type = "ecm" \/ Self.iface = evt.iface
  /\ nat_ifaces' = DelNatIfaces(nat_ifaces, Self.iface)
  /\ Deregistr(tmp.obj)
  /\ UNCHANGED <<box, posting, thread, evt, if_cat, num_wlan_ap_iface>>

WanCfgChange ==
  /\ Callback("CFG_CHANGE") /\ tmp.obj # Manager
  /\ Self.type = "ecm" /\ if_cat[Self.iface] # Self.cate
  /\ PostEvt(E("USB_LINK_UP", Self.iface))
  /\ nat_ifaces' = DelNatIfaces(nat_ifaces, Self.iface)
  /\ Deregistr(tmp.obj)
  /\ UNCHANGED <<posting, thread, evt, if_cat, num_wlan_ap_iface>>

\* A callback that has nothing to do here: the event is about another interface, the
\* object is inactive, or the event is one that other modules model.
Ignored ==
  /\ Calling /\ tmp.obj # Manager
  /\ LET own == Self.iface = evt.iface IN
     CASE evt.event = "ADDR_ADD"        -> TRUE
       [] evt.event = "LAN_DELETE_SELF" -> ~ own
       [] evt.event = "WLAN_LINK_DOWN"  -> ~ (own /\ Self.active)
       [] evt.event = "LINK_DOWN"       -> IF Self.type = "lan" THEN ~ (own /\ Self.active) ELSE Self.type = "q6" /\ ~ own
       [] evt.event = "CFG_CHANGE"      -> ~ (Self.active /\ Self.type \in {"lan", "ecm"} /\ if_cat[Self.iface] # Self.cate)
  /\ Walk(<<>>)
  /\ UNCHANGED <<box, posting, thread, evt, objects, instances, if_cat, nat_ifaces, num_wlan_ap_iface>>

-----------------------------------------------------------------------------
Callbacks ==
  \/ ManagerCfgChange \/ ManagerLinkUp \/ ManagerUsbLinkUp \/ ManagerApLinkUp
  \/ LanDown \/ LanCfgChange \/ LanDeleteSelf
  \/ WlanDown \/ WlanDeleteSelf \/ WanDown \/ WanCfgChange \/ Ignored

Process == Dequeue \/ Wait \/ Wake \/ Callbacks \/ ProcessEnd

EventsNext ==
  \/ Process
  \/ NetlinkPost \/ ConfigFile
  \/ \E i \in Wlans : DriverWlan(i)
  \/ \E i \in Usb : DriverUsb(i)
  \/ \E i \in Ifaces : DelLink(i)
  \/ \E i \in Ifaces, flag \in Flags, carrier \in Carriers : NewLink(i, flag, carrier)

EventsSpec == EventsInit /\ [][EventsNext]_eventsVars

\* The threads are scheduled; nobody has to report anything.
EventsFairSpec == EventsSpec /\ WF_eventsVars(Process) /\ WF_eventsVars(NetlinkPost)

-----------------------------------------------------------------------------
(* Properties                                                              *)

Members(q) == {q[n] : n \in 1..Len(q)}
Idle      == thread = "waiting" /\ queue = <<>> /\ netlink = <<>>

\* What can be posted.
Messages ==
  {E("CFG_CHANGE", Hole)}
    \cup {E(e, i) : e \in {"LINK_UP", "LINK_DOWN", "USB_LINK_UP", "ADDR_ADD", "LAN_DELETE_SELF"}, i \in Ifaces}
    \cup {E(e, i) : e \in {"WLAN_AP_LINK_UP", "WLAN_LINK_DOWN"}, i \in Wlans}

\* What the netlink thread posts.
LinkMessages == {E(e, i) : e \in {"LINK_UP", "LINK_DOWN", "USB_LINK_UP"}, i \in Ifaces}

Registration == [obj : Nat, event : Members(ManagerEvents) \cup UNION {Members(ListenerEvents(t)) : t \in {"lan", "wlan", "q6"}}]

\* The categories that an interface may have, and the types of the objects that serve it.
CatsOf(i)  == IF i \in Usb THEN {"LAN", "WAN"} ELSE IF i \in Wlans THEN {"UNKNOWN", "WLAN"} ELSE {"WAN"}
TypesOf(i) == IF i \in Usb THEN {"lan", "q6", "ecm"} ELSE IF i \in Wlans THEN {"wlan"} ELSE {"q6", "ecm"}

ObjectOK(o) ==
  /\ DOMAIN o = {"iface", "type", "cate", "active", "is_mode_switch"}
  /\ o.iface \in Ifaces /\ o.type \in TypesOf(o.iface) /\ o.cate \in CatsOf(o.iface)
  /\ o.active \in BOOLEAN /\ o.is_mode_switch \in BOOLEAN
  /\ o.type \in {"q6", "ecm"} => o.active

EventsTypeOK ==
  /\ thread \in {"ready", "waiting", "walking"} /\ signalled \in BOOLEAN
  /\ queue \in Seq(Messages) /\ netlink \in Seq(LinkMessages)
  /\ evt \in Messages \cup {NoEvt} /\ (evt = NoEvt <=> thread # "walking")
  /\ tmp \in Registration \cup {End} /\ (thread # "walking" => tmp = End)
  /\ regs \in Seq(Registration)
  /\ IsFiniteSet(DOMAIN objects) /\ DOMAIN objects \subseteq Nat \ {Manager}
  /\ \A o \in DOMAIN objects : ObjectOK(objects[o])
  /\ instances \in Seq([iface : Ifaces, obj : Nat])
  /\ DOMAIN xml = Ifaces /\ DOMAIN if_cat = Ifaces
  /\ \A i \in Ifaces : xml[i] \in CatsOf(i) /\ if_cat[i] \in CatsOf(i)
  /\ nat_ifaces \in Seq(Ifaces \cup {Hole})
  /\ num_wlan_ap_iface \in Nat
  /\ stray \in {"none", "lan", "wlan", "q6", "ecm"}
  /\ link \in [Ifaces -> {"up", "down"}]
  /\ served \subseteq Nat
  /\ reports \in 0..MaxReports

\* ProcessEvt() reads the node it copied as the next one before a callback that may free it.
\* Only two objects can lead it so into memory that was given out again: an access point that
\* deletes itself, which is registered for IPA_TETHERING_STATS_UPDATE_EVENT behind
\* IPA_LAN_DELETE_SELF, and an upstream on USB that a new configuration deletes, registered
\* for IPA_LINK_DOWN_EVENT behind IPA_CFG_CHANGE_EVENT.
LostOnlyBy ==
  stray # "none" =>
    \/ stray = "wlan" /\ evt.event = "LAN_DELETE_SELF"
    \/ stray = "ecm" /\ evt.event = "CFG_CHANGE"

\* Every registration is of an object that is alive, and as long as the walk was not lost so
\* it has come to one of them: no callback is made on a deleted object.
RegisteredAlive ==
  /\ \A n \in 1..Len(regs) : regs[n].obj \in DOMAIN objects \cup {Manager}
  /\ tmp # End /\ stray = "none" => tmp \in Members(regs)
  /\ \A n \in 1..Len(instances) : instances[n].obj \in DOMAIN objects

\* When the walk ends, every listener of the event that is still registered was called,
\* whatever objects have deleted themselves during the walk.  A walk that was lost in freed
\* memory does not count as one that ends.
EveryListenerCalled ==
  thread = "walking" /\ tmp = End =>
    \A n \in 1..Len(regs) : regs[n].event = evt.event => regs[n].obj \in served

\* An interface has one object at most, however often it is reported up.
OneObjectEach ==
  \A o, p \in DOMAIN objects : objects[o].iface = objects[p].iface => o = p

\* An inactive object is deleted by exactly one IPA_LAN_DELETE_SELF, and no such event
\* is left for an object that is active, so a new object is never deleted by the event of
\* an old one.
DeleteSelfOnce ==
  \A o \in DOMAIN objects :
    LET e    == E("LAN_DELETE_SELF", objects[o].iface)
        left == Cardinality({n \in 1..Len(queue) : queue[n] = e}) + (IF evt = e THEN 1 ELSE 0)
    IN  left = IF objects[o].active THEN 0 ELSE 1

\* num_wlan_ap_iface, by which the access points share the filter table, counts the
\* IPACM_Wlan objects.
ApsCounted == num_wlan_ap_iface = Cardinality({o \in DOMAIN objects : objects[o].type = "wlan"})

\* As long as the configuration was not read again, NAT is done for exactly the
\* interfaces with an active object, in a list without holes.
NatIfacesMatch ==
  Hole \notin Members(nat_ifaces) =>
    /\ Members(nat_ifaces) = {objects[o].iface : o \in {p \in DOMAIN objects : objects[p].active}}
    /\ IsInjective(nat_ifaces)

\* Once everything posted is handled, no active object serves an interface whose last event
\* said down, whatever was posted before, by the objects themselves too.
NothingServesDown ==
  Idle => \A o \in DOMAIN objects : objects[o].active => link[objects[o].iface] = "up"

\* The walk was lost in freed memory: nothing is promised from then on.
Lost == stray # "none"

\* Every event is handled: no wakeup is lost between the look at the queue and the wait.
EveryEventHandled == []<>(Lost \/ (queue = <<>> /\ thread = "waiting"))

\* An object that went down is deleted in the end.
InactiveDeleted ==
  \A i \in Ifaces : (\E o \in DOMAIN objects : objects[o].iface = i /\ ~ objects[o].active)
                    ~> (Lost \/ \A o \in DOMAIN objects : objects[o].iface = i => objects[o].active)

\* The listeners while they delete themselves: the walk calls every one that is registered
\* and none that is gone, unless it was lost in the freed registrations of an access point
\* or of an upstream on USB; an interface has one object, deleted by one event.
ListenersAgree ==
  /\ EventsTypeOK /\ LostOnlyBy /\ RegisteredAlive /\ EveryListenerCalled
  /\ OneObjectEach /\ DeleteSelfOnce /\ NothingServesDown

\* The counts and lists kept beside the objects follow them.
CountsAgree == ApsCounted /\ NatIfacesMatch

\* Every event is handled, and every object that went down is deleted in the end, unless the
\* walk is lost in freed memory first.
EventsEnd == EveryEventHandled /\ InactiveDeleted
=============================================================================
