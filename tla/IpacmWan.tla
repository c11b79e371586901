------------------------------ MODULE IpacmWan ------------------------------
(***************************************************************************)
(* The upstream of ipacm and what hangs on it: the IPACM_Wan objects, the  *)
(* tethered interfaces (IPACM_Lan) with their filtering rules, the NAT     *)
(* table, the firewall in the modem and the resource dependencies.         *)
(*                                                                         *)
(* The framework reports which upstream serves which tethered interface;   *)
(* links and addresses are reported by netlink.  All of it goes through    *)
(* one queue, and so do the events by which the upstream tells the others. *)
(* One event is handled by all its listeners in one step, in the order in  *)
(* which they registered (the queue and its thread are in IpacmEvents).    *)
(*                                                                         *)
(* An upstream is a modem connection (Q6_WAN) or a USB one (ECM_WAN, in    *)
(* Stas, which the code calls STA mode).  The rules of one kind are one    *)
(* rule; the driver fails only for a handle that it does not know.         *)
(***************************************************************************)
EXTENDS Integers, Sequences, FiniteSets, SequencesExt

CONSTANTS
  Wans, Stas,   \* the upstream interfaces; those that are not the modem's
  Lans,         \* the tethered interfaces
  None,
  MaxV6Addrs,   \* MAX_DEFAULT_v6_ROUTE_RULES
  MaxTether,    \* IPA_MAX_IFACE_ENTRIES
  MaxRules,     \* handles of filtering rules in the driver
  MaxReports,   \* bound on what is reported
  MaxQueue      \* nothing is reported while so many events are waiting

ASSUME WanAssumption ==
  /\ Stas \subseteq Wans /\ Wans \cap Lans = {} /\ None \notin Wans \cup Lans
  /\ None \notin {"v4", "v6"} /\ IsFiniteSet(Wans)
  /\ MaxV6Addrs > 0 /\ {MaxV6Addrs, MaxTether, MaxRules, MaxReports, MaxQueue} \subseteq Nat

VARIABLES
  queue,     \* the events that are waiting
  wans,      \* the IPACM_Wan objects, in the order of their registration
  upstream,  \* the state and the static members of IPACM_Wan, and what they set up
  lan,       \* the IPACM_Lan objects
  rules,     \* external: the filtering rules of the tethered interfaces in the driver
  conntrack, \* IPACM_ConntrackListener: WanUp, and the upstream the NAT table is for
  chosen,    \* external: the upstream the framework chose for a tethered interface
  unusual,   \* history: sequences of events of which the properties speak
  reports    \* history: the number of reports

wanVars == <<queue, wans, upstream, lan, rules, conntrack, chosen, unusual, reports>>

Families == {"v4", "v6"}
Both(x)  == [f \in Families |-> x]
Hdls     == 1..MaxRules
Sta(w)   == w \in Stas
Consumer(w)  == IF Sta(w) THEN "USB" ELSE "Q6"

Event(e, d, f, l) == [event |-> e, dev |-> d, family |-> f, lan |-> l]

NewWan == [ip |-> {}, addrs |-> 0, active |-> {}, gateway |-> FALSE, header |-> FALSE, partial |-> {}, firewall |-> {}]

What   == {"dft_v4", "dft_v6", "icmp", "prefix", "wan_v4", "wan_v6", "ul_v4", "ul_v6"}
NewLan == [up |-> FALSE, ip |-> {}, addrs |-> 0, ul_set |-> {}, hdl |-> [k \in What |-> 0]]
NoRule == [lan |-> None, what |-> None]

WanInit ==
  /\ queue = <<>> /\ wans = <<>>
  /\ upstream = [wan |-> [w \in Wans |-> NewWan], wan_up |-> Both(FALSE), backhaul_is_sta_mode |-> FALSE,
           tether |-> Both(<<>>), num_modem_pdn |-> Both(0), flt |-> Both("none"), modem |-> Both("none"),
           a2_check |-> 0, consumer_up |-> {}, producer_up |-> {}, rm_set |-> {}, posted |-> <<>>]
  /\ lan = [l \in Lans |-> NewLan] /\ rules = [h \in Hdls |-> NoRule]
  /\ conntrack = [WanUp |-> FALSE, table |-> None]
  /\ chosen = [f \in Families |-> [l \in Lans |-> None]]
  /\ unusual = {} /\ reports = 0

-----------------------------------------------------------------------------
(* IPACM_Config: the dependencies between the resources of the driver       *)

AddRmDependConsumer(s, c) ==
  [s EXCEPT !.a2_check = IF c = "Q6" THEN @ + 1 ELSE @,
            !.consumer_up = @ \cup {c}, !.rm_set = @ \cup (s.producer_up \X {c})]

AddRmDependProducer(s, l) ==
  [s EXCEPT !.producer_up = @ \cup {l}, !.rm_set = @ \cup ({l} \X s.consumer_up)]

\* The last but one user of the modem's consumer leaves the dependency.
DelRmDependConsumer(s, c) ==
  LET n == IF c = "Q6" THEN s.a2_check - 1 ELSE s.a2_check IN
  IF c = "Q6" /\ n = 1 THEN [s EXCEPT !.a2_check = n]
  ELSE [s EXCEPT !.a2_check = n, !.consumer_up = @ \ {c}, !.rm_set = @ \ (Lans \X {c})]

DelRmDependProducer(s, l) ==
  [s EXCEPT !.producer_up = @ \ {l}, !.rm_set = {p \in @ : p[1] # l}]

-----------------------------------------------------------------------------
(* IPACM_Wan                                                               *)

Posted(s, e) == [s EXCEPT !.posted = Append(@, e)]

\* What the rules for packets from the modem are: the default ones of the first connection of the
\* family (init_fl_rule_ex()), or the user's firewall between them (config_dft_firewall_rules_ex()).
InitFlRuleEx(s, f)  == [s EXCEPT !.flt[f] = IF s.num_modem_pdn[f] = 0 THEN "default" ELSE @]
FirewallRules(s, f) == [s EXCEPT !.flt[f] = "firewall"]

\* config_dft_firewall_rules(): a USB upstream has rules of its own in the driver.
StaFirewallRules(s, w, f) == [s EXCEPT !.wan[w].firewall = @ \cup {f}]

\* install_wan_filtering_rule(): the modem gets the rules that are built now.
InstallWanFilteringRule(s) == [s EXCEPT !.modem = s.flt]

\* handle_addr_evt(): the first address of a family counts the connection.  The default rules of
\* the modem are built for the first connection only (init_fl_rule_ex()).
WanAddrAdd(s, w, f) ==
  LET o     == s.wan[w]
      first == f \notin o.ip
      s1    == [s EXCEPT !.wan[w].ip = @ \cup {f}, !.wan[w].addrs = IF f = "v6" THEN @ + 1 ELSE @] IN
  IF ~(first \/ (f = "v6" /\ o.addrs < MaxV6Addrs)) THEN s
  ELSE IF Sta(w) \/ ~first THEN s1
  ELSE InstallWanFilteringRule([InitFlRuleEx(s1, f) EXCEPT !.num_modem_pdn[f] = @ + 1])

\* handle_route_add_evt(): without its header a USB upstream has to wait (header_partial_default_wan).
\* (WAN_UP_V6 has no listener in this build.)
RouteAddEvt(s, w, f) ==
  LET s1 == [s EXCEPT !.wan[w].gateway = TRUE, !.backhaul_is_sta_mode = Sta(w)]
      s2 == [s1 EXCEPT !.wan[w].partial = @ \ {f}, !.wan_up[f] = TRUE, !.wan[w].active = @ \cup {f}]
      s3 == IF Sta(w) THEN StaFirewallRules(s2, w, f) ELSE InstallWanFilteringRule(FirewallRules(s2, f))
      s4 == IF f = "v4" THEN Posted(s3, Event("WAN_UP", w, f, None)) ELSE s3 IN
  IF Sta(w) /\ ~s.wan[w].header THEN [s1 EXCEPT !.wan[w].partial = @ \cup {f}]
  ELSE AddRmDependConsumer(s4, Consumer(w))

\* Mutant of RouteDelEvt: the flag is left to the object that comes next.
RouteDelEvtFlagLeft(s, w, f) ==
  LET s1 == DelRmDependConsumer([s EXCEPT !.wan[w].gateway = FALSE], Consumer(w))
      s2 == IF f = "v4" THEN Posted(s1, Event("WAN_DOWN", w, f, None)) ELSE s1 IN
  IF f \notin s.wan[w].active THEN [s EXCEPT !.wan[w].gateway = FALSE]
  ELSE [s2 EXCEPT !.wan[w].active = @ \ {f}]

\* handle_route_del_evt(), handle_route_del_evt_ex()
RouteDelEvt(s, w, f) ==
  LET s1 == DelRmDependConsumer([s EXCEPT !.wan[w].gateway = FALSE], Consumer(w))
      s2 == IF f = "v4" THEN Posted(s1, Event("WAN_DOWN", w, f, None)) ELSE s1 IN
  IF f \notin s.wan[w].active THEN [s EXCEPT !.wan[w].gateway = FALSE]
  ELSE [s2 EXCEPT !.wan_up[f] = FALSE, !.wan[w].active = @ \ {f}]

\* The firewall goes first: del_wan_firewall_rule(), or del_dft_firewall_rules().
RouteWithdrawn(s, w, f) ==
  RouteDelEvt(IF Sta(w) THEN [s EXCEPT !.wan[w].firewall = @ \ {f}]
              ELSE InstallWanFilteringRule([s EXCEPT !.flt[f] = "default"]), w, f)

PostWanUpTether(s, w, f, l) ==
  Posted([s EXCEPT !.tether[f] = Append(@, l)], Event("UP_TETHER", w, f, l))

PostWanDownTether(s, w, f, l) ==
  IF l \notin ToSet(s.tether[f]) THEN s
  ELSE Posted([s EXCEPT !.tether[f] = RemoveFirst(@, l)], Event("DOWN_TETHER", w, f, l))

\* IPA_WAN_UPSTREAM_ROUTE_ADD_EVENT: the others of this family give way.
OnRouteAdd(s, w, e) ==
  LET f == e.family IN
  IF e.dev = w
  THEN IF f \notin s.wan[w].ip THEN s
       ELSE PostWanUpTether(IF f \in s.wan[w].active THEN s ELSE RouteAddEvt(s, w, f), w, f, e.lan)
  ELSE IF f \in s.wan[w].active THEN RouteWithdrawn(s, w, f) ELSE s

\* IPA_WAN_UPSTREAM_ROUTE_DEL_EVENT: the upstream is given up with the last tethered interface.
OnRouteDel(s, w, e) ==
  LET f  == e.family
      s1 == PostWanDownTether(s, w, f, e.lan) IN
  IF e.dev # w \/ f \notin s.wan[w].active THEN s
  ELSE IF s1.tether[f] # <<>> THEN s1
  ELSE RouteWithdrawn(s1, w, f)

\* IPA_NEIGH_CLIENT_IP_ADDR_ADD_EVENT of the router behind a USB upstream: handle_header_add_evt().
OnHeader(s, w) ==
  LET s1 == [s EXCEPT !.wan[w].header = TRUE]
      s2 == IF "v4" \in s.wan[w].partial THEN RouteAddEvt(s1, w, "v4") ELSE s1 IN
  IF s.wan[w].header THEN s
  ELSE IF "v6" \in s.wan[w].partial THEN RouteAddEvt(s2, w, "v6") ELSE s2

\* IPA_FIREWALL_CHANGE_EVENT
OnFirewallChange(s, w) ==
  IF Sta(w) \/ ~s.wan[w].gateway THEN s
  ELSE InstallWanFilteringRule([s EXCEPT !.flt = [f \in Families |-> IF f \in s.wan[w].ip THEN "firewall" ELSE @[f]]])

\* One family of handle_down_evt_ex(), if the object is the default gateway.
FamilyDown(s, w, f) ==
  LET s1 == RouteDelEvt([s EXCEPT !.wan_up[f] = FALSE, !.flt[f] = "default"], w, f) IN
  [s1 EXCEPT !.tether[f] = <<>>,
             !.posted = @ \o [i \in 1..Len(s.tether[f]) |-> Event("DOWN_TETHER", w, f, s.tether[f][i])]]

\* handle_down_evt_ex().  A connection with one IPv6 address stays counted.
DownEvtEx(s, w) ==
  LET o  == s.wan[w]
      s1 == [s EXCEPT !.num_modem_pdn =
               [f \in Families |-> IF f \in o.ip /\ (f = "v6" => o.addrs > 1) THEN @[f] - 1 ELSE @[f]]]
      s2 == IF o.gateway /\ "v4" \in o.ip THEN FamilyDown(s1, w, "v4") ELSE s1
      s3 == IF o.gateway /\ "v6" \in o.ip THEN FamilyDown(s2, w, "v6") ELSE s2 IN
  IF o.ip = {} THEN s
  ELSE InstallWanFilteringRule(
         [s3 EXCEPT !.flt = [f \in Families |-> IF f \in o.ip /\ s3.num_modem_pdn[f] = 0 THEN "none" ELSE @[f]]])

\* handle_down_evt().  The lists of the tethered interfaces are left.
DownEvt(s, w) ==
  LET s1 == DelRmDependConsumer(s, Consumer(w))
      s2 == IF "v4" \in s.wan[w].active THEN RouteWithdrawn(s1, w, "v4") ELSE s1 IN
  IF "v6" \in s.wan[w].active THEN RouteWithdrawn(s2, w, "v6") ELSE s2

WanDown(s, w) == [(IF Sta(w) THEN DownEvt(s, w) ELSE DownEvtEx(s, w)) EXCEPT !.wan[w] = NewWan]

-----------------------------------------------------------------------------
(* IPACM_Lan: `r' is one object, with the rules in the driver and whether  *)
(* every handle was known                                                  *)

Lowest(rs) == CHOOSE h \in Hdls : rs[h] = NoRule /\ \A g \in Hdls : rs[g] = NoRule => h <= g

AddRule(r, l, k) ==
  LET h == Lowest(r.rules) IN
  [r EXCEPT !.o.hdl[k] = h, !.rules[h] = [lan |-> l, what |-> k]]

\* DeleteFilteringHdls(): no handle is ignored, one the driver does not know is a failure, and
\* nothing more is done after a failure.  The handle stays where it was.
DelRule(r, k) ==
  LET h == r.o.hdl[k] IN
  IF ~r.ok \/ h = 0 THEN r
  ELSE IF r.rules[h] = NoRule THEN [r EXCEPT !.ok = FALSE]
  ELSE [r EXCEPT !.rules[h] = NoRule]

V(k, f) ==
  CASE k = "dft" -> IF f = "v4" THEN "dft_v4" ELSE "dft_v6"
    [] k = "wan" -> IF f = "v4" THEN "wan_v4" ELSE "wan_v6"
    [] k = "ul"  -> IF f = "v4" THEN "ul_v4" ELSE "ul_v6"

InitFlRule(r, l, f) == AddRule(r, l, V("dft", f))
IcmpRule(r, l)      == AddRule(r, l, "icmp")
PrefixRule(r, l)    == AddRule(r, l, "prefix")

\* handle_uplink_filter_rule(), once for a family
UplinkRules(r, l, f) ==
  IF f \in r.o.ul_set THEN r
  ELSE [AddRule(r, l, V("ul", f)) EXCEPT !.o.ul_set = @ \cup {f}]

\* handle_wan_up_ex()
LanWanUpEx(r, l, f) == IF f = "v6" /\ r.o.addrs # 1 THEN r ELSE UplinkRules(r, l, f)

\* handle_wan_up() for a USB upstream, and handle_wan_up_ex() for the modem
LanWanUp(r, l, f, sta) ==
  LET r1 == IF f = "v6" THEN PrefixRule(r, l) ELSE r IN
  IF sta THEN AddRule(r1, l, V("wan", f)) ELSE LanWanUpEx(r1, l, f)

\* Mutant of LanWanDown: the rule of the prefix is left.
LanWanDownPrefix(r, f, sta) ==
  LET r2 == DelRule(r, IF sta THEN V("wan", f) ELSE V("ul", f)) IN
  IF sta \/ ~r2.ok THEN r2
  ELSE [r2 EXCEPT !.o.ul_set = @ \ {f}, !.o.hdl[V("ul", f)] = 0]

\* handle_wan_down(), handle_wan_down_v6().  The number of uplink rules is cleared with them.
LanWanDown(r, f, sta) ==
  LET r1 == IF f = "v6" THEN DelRule(r, "prefix") ELSE r
      r2 == DelRule(r1, IF sta THEN V("wan", f) ELSE V("ul", f)) IN
  IF sta \/ ~r2.ok THEN r2
  ELSE [r2 EXCEPT !.o.ul_set = @ \ {f}, !.o.hdl[V("ul", f)] = 0]

isWanUP(l, f) == l \in ToSet(upstream.tether[f]) /\ upstream.wan_up[f]

\* IPA_ADDR_ADD_EVENT: the rules of the interface, and those of the upstream if it is there.
LanAddrAdd(r, l, f) ==
  LET o  == r.o
      r1 == IF f = "v6" /\ o.addrs = 0 THEN IcmpRule(r, l) ELSE r
      r2 == IF f \in o.ip THEN r1 ELSE InitFlRule(r1, l, f)
      r3 == [r2 EXCEPT !.o.ip = @ \cup {f}, !.o.addrs = IF f = "v6" THEN @ + 1 ELSE @] IN
  IF isWanUP(l, f) /\ (f = "v6" => r3.o.addrs = 1) THEN LanWanUp(r3, l, f, upstream.backhaul_is_sta_mode) ELSE r3

\* The filtering rules in handle_down_evt(), in their order.  The ICMP rule of IPv6 is deleted with
\* the rules of IPv4, and the rule for a USB upstream with the default ones of IPv6.
LanDown(r, l) ==
  LET r1 == IF isWanUP(l, "v4") THEN [LanWanDown(r, "v4", upstream.backhaul_is_sta_mode) EXCEPT !.ok = TRUE] ELSE r
      r2 == IF isWanUP(l, "v6") THEN [LanWanDown(r1, "v6", upstream.backhaul_is_sta_mode) EXCEPT !.ok = TRUE] ELSE r1
      r3 == IF "v4" \in r.o.ip THEN DelRule(DelRule(r2, "dft_v4"), "icmp") ELSE r2
      r4 == IF "v6" \in r.o.ip THEN DelRule(DelRule(r3, "dft_v6"), "wan_v6") ELSE r3 IN
  IF r.o.ip = {} THEN r ELSE r4

-----------------------------------------------------------------------------
(* What is reported                                                        *)

Pending(e, d, l) == \E i \in 1..Len(queue) : queue[i].event = e /\ queue[i].dev = d /\ queue[i].lan = l

Report(e) ==
  /\ reports < MaxReports /\ reports' = reports + 1
  /\ Len(queue) < MaxQueue /\ queue' = Append(queue, e)

ReportLinkDown(d) ==
  /\ d \in ToSet(wans) \/ (d \in Lans /\ lan[d].up)
  /\ ~Pending("LINK_DOWN", d, None)
  /\ Report(Event("LINK_DOWN", d, None, None))
  /\ UNCHANGED <<wans, upstream, lan, rules, conntrack, chosen, unusual>>

ReportAddr(d, f) ==
  /\ d \in ToSet(wans) \/ (d \in Lans /\ lan[d].up)
  /\ Report(Event("ADDR_ADD", d, f, None))
  /\ UNCHANGED <<wans, upstream, lan, rules, conntrack, chosen, unusual>>

ReportRouter(w) ==
  /\ Sta(w) /\ w \in ToSet(wans) /\ ~upstream.wan[w].header
  /\ Report(Event("NEIGH_ADD", w, None, None))
  /\ UNCHANGED <<wans, upstream, lan, rules, conntrack, chosen, unusual>>

ReportFirewall ==
  /\ Report(Event("FIREWALL_CHANGE", None, None, None))
  /\ UNCHANGED <<wans, upstream, lan, rules, conntrack, chosen, unusual>>

\* The framework chooses an upstream for an interface, or another one in the place of the first.
ReportRouteAdd(w, f, l) ==
  /\ chosen[f][l] # w /\ Len(upstream.tether[f]) < MaxTether
  /\ Report(Event("ROUTE_ADD", w, f, l))
  /\ chosen' = [chosen EXCEPT ![f][l] = w]
  /\ unusual' = unusual \cup (IF \E g \in Families, k \in Lans : chosen[g][k] \in ToSet(wans) \ {w} THEN {"handover"} ELSE {})
  /\ UNCHANGED <<wans, upstream, lan, rules, conntrack>>

ReportRouteDel(f, l) ==
  /\ chosen[f][l] # None
  /\ Report(Event("ROUTE_DEL", chosen[f][l], f, l))
  /\ chosen' = [chosen EXCEPT ![f][l] = None]
  /\ UNCHANGED <<wans, upstream, lan, rules, conntrack, unusual>>

\* IPACM_IfaceManager makes an object for an interface that comes up.
WanCreated(w) ==
  /\ w \notin ToSet(wans) /\ queue = <<>>
  /\ reports < MaxReports /\ reports' = reports + 1
  /\ wans' = Append(wans, w)
  /\ UNCHANGED <<queue, upstream, lan, rules, conntrack, chosen, unusual>>

LanCreated(l) ==
  /\ ~lan[l].up /\ queue = <<>>
  /\ reports < MaxReports /\ reports' = reports + 1
  /\ lan' = [lan EXCEPT ![l].up = TRUE]
  /\ UNCHANGED <<queue, wans, upstream, rules, conntrack, chosen, unusual>>

-----------------------------------------------------------------------------
(* Handling the first event of the queue                                   *)

Is(e) == queue # <<>> /\ Head(queue).event = e

\* The upstream objects are called in their order; what they posted comes behind the rest.
InTurn(On(_, _), start) ==
  LET s[i \in 0..Len(wans)] == IF i = 0 THEN start ELSE On(s[i - 1], wans[i]) IN s[Len(wans)]

Take(s) ==
  /\ upstream' = [s EXCEPT !.posted = <<>>]
  /\ queue' = Tail(queue) \o s.posted

Room == Cardinality({h \in Hdls : rules[h] = NoRule}) >= 4

HandleRouteAdd ==
  /\ Is("ROUTE_ADD")
  /\ Take(InTurn(LAMBDA s, w : OnRouteAdd(s, w, Head(queue)), upstream))
  /\ unusual' = unusual \cup (IF Sta(Head(queue).dev) THEN {"usb"} ELSE {})
  /\ UNCHANGED <<wans, lan, rules, conntrack, chosen, reports>>

HandleRouteDel ==
  /\ Is("ROUTE_DEL")
  /\ Take(InTurn(LAMBDA s, w : OnRouteDel(s, w, Head(queue)), upstream))
  /\ LET o == upstream.wan[Head(queue).dev] IN
     unusual' = unusual
       \cup (IF Head(queue).family \in o.partial THEN {"header awaited"} ELSE {})
       \cup (IF Sta(Head(queue).dev) /\ upstream'.wan[Head(queue).dev].active \notin {o.active, {}}
             THEN {"usb family"} ELSE {})
  /\ UNCHANGED <<wans, lan, rules, conntrack, chosen, reports>>

HandleNeighAdd ==
  /\ Is("NEIGH_ADD")
  /\ LET w == Head(queue).dev IN
     /\ Take(IF w \in ToSet(wans) THEN OnHeader(upstream, w) ELSE upstream)
  /\ UNCHANGED <<wans, lan, rules, conntrack, chosen, unusual, reports>>

HandleFirewallChange ==
  /\ Is("FIREWALL_CHANGE")
  /\ Take(InTurn(OnFirewallChange, upstream))
  /\ UNCHANGED <<wans, lan, rules, conntrack, chosen, unusual, reports>>

HandleAddrAdd ==
  /\ Is("ADDR_ADD")
  /\ LET d == Head(queue).dev
         f == Head(queue).family IN
     \/ /\ d \in Wans
        /\ Take(IF d \in ToSet(wans) THEN WanAddrAdd(upstream, d, f) ELSE upstream)
        /\ UNCHANGED <<lan, rules, unusual>>
     \/ /\ d \in Lans /\ Room
        /\ IF lan[d].up /\ (f \notin lan[d].ip \/ (f = "v6" /\ lan[d].addrs < MaxV6Addrs))
           THEN LET r == LanAddrAdd([o |-> lan[d], rules |-> rules, ok |-> TRUE], d, f) IN
                /\ lan' = [lan EXCEPT ![d] = r.o] /\ rules' = r.rules
                /\ Take(IF f \in lan[d].ip THEN upstream ELSE AddRmDependProducer(upstream, d))
                /\ unusual' = unusual \cup
                     (IF \E i \in 1..Len(queue) : queue[i].event = "UP_TETHER" /\ queue[i].lan = d
                      THEN {"address between"} ELSE {})
           ELSE Take(upstream) /\ UNCHANGED <<lan, rules, unusual>>
  /\ UNCHANGED <<wans, conntrack, chosen, reports>>

\* An upstream of USB takes the event for its own whatever the interface is.
HandleLinkDown ==
  /\ Is("LINK_DOWN")
  /\ LET d    == Head(queue).dev
         gone == {w \in ToSet(wans) : w = d \/ Sta(w)}
         r    == LanDown([o |-> lan[d], rules |-> rules, ok |-> TRUE], d)
         s    == InTurn(LAMBDA t, w : IF w \in gone THEN WanDown(t, w) ELSE t, upstream) IN
     /\ wans' = InTurn(LAMBDA left, w : IF w \in gone THEN left ELSE Append(left, w), <<>>)
     /\ IF d \in Lans /\ lan[d].up
        THEN /\ lan' = [lan EXCEPT ![d] = NewLan] /\ rules' = r.rules
             /\ Take(IF lan[d].ip = {} THEN s ELSE DelRmDependProducer(s, d))
        ELSE Take(s) /\ UNCHANGED <<lan, rules>>
     /\ unusual' = unusual
          \cup (IF \E i \in 1..Len(queue) : queue[i].event \in {"UP_TETHER", "DOWN_TETHER"} /\ queue[i].lan = d
                THEN {"link between"} ELSE {})
          \cup (IF \E w \in gone : upstream.wan[w].active # {} /\ (Sta(w) \/ ~upstream.wan[w].gateway)
                THEN {"half down"} ELSE {})
          \cup (IF \E w \in gone : upstream.wan[w].partial # {} THEN {"header awaited"} ELSE {})
  /\ UNCHANGED <<conntrack, chosen, reports>>

\* IPACM_ConntrackListener: TriggerWANUp() with AddTable(), TriggerWANDown() with DeleteTable().
HandleWanUp ==
  /\ Is("WAN_UP")
  /\ conntrack' = IF conntrack.WanUp THEN conntrack
            ELSE [WanUp |-> TRUE, table |-> IF conntrack.table = None THEN Head(queue).dev ELSE conntrack.table]
  /\ queue' = Tail(queue)
  /\ UNCHANGED <<wans, upstream, lan, rules, chosen, unusual, reports>>

HandleWanDown ==
  /\ Is("WAN_DOWN")
  /\ conntrack' = IF ~conntrack.WanUp THEN conntrack
            ELSE [WanUp |-> FALSE, table |-> IF conntrack.table = Head(queue).dev THEN None ELSE conntrack.table]
  /\ queue' = Tail(queue)
  /\ UNCHANGED <<wans, upstream, lan, rules, chosen, unusual, reports>>

HandleUpTether ==
  /\ Is("UP_TETHER") /\ Room
  /\ LET e == Head(queue)
         o == lan[e.lan]
         r == LanWanUp([o |-> o, rules |-> rules, ok |-> TRUE], e.lan, e.family, Sta(e.dev)) IN
     IF o.up /\ e.family \in o.ip
     THEN lan' = [lan EXCEPT ![e.lan] = r.o] /\ rules' = r.rules
     ELSE UNCHANGED <<lan, rules>>
  /\ queue' = Tail(queue)
  /\ UNCHANGED <<wans, upstream, conntrack, chosen, unusual, reports>>

HandleDownTether ==
  /\ Is("DOWN_TETHER")
  /\ LET e == Head(queue)
         o == lan[e.lan]
         r == LanWanDown([o |-> o, rules |-> rules, ok |-> TRUE], e.family, Sta(e.dev)) IN
     IF o.up /\ e.family \in o.ip
     THEN lan' = [lan EXCEPT ![e.lan] = r.o] /\ rules' = r.rules
     ELSE UNCHANGED <<lan, rules>>
  /\ queue' = Tail(queue)
  /\ UNCHANGED <<wans, upstream, conntrack, chosen, unusual, reports>>

WanNext ==
  \/ \E d \in Wans \cup Lans : ReportLinkDown(d)
  \/ \E d \in Wans \cup Lans, f \in Families : ReportAddr(d, f)
  \/ \E w \in Wans : ReportRouter(w)
  \/ ReportFirewall
  \/ \E w \in Wans, f \in Families, l \in Lans : ReportRouteAdd(w, f, l)
  \/ \E f \in Families, l \in Lans : ReportRouteDel(f, l)
  \/ \E w \in Wans : WanCreated(w)
  \/ \E l \in Lans : LanCreated(l)
  \/ HandleRouteAdd
  \/ HandleRouteDel
  \/ HandleNeighAdd
  \/ HandleFirewallChange
  \/ HandleAddrAdd
  \/ HandleLinkDown
  \/ HandleWanUp
  \/ HandleWanDown
  \/ HandleUpTether
  \/ HandleDownTether

WanSpec == WanInit /\ [][WanNext]_wanVars

-----------------------------------------------------------------------------
(* Properties                                                              *)

Modes == {"none", "default", "firewall"}

Events ==
  [event : {"LINK_DOWN"}, dev : Wans \cup Lans, family : {None}, lan : {None}]
    \cup [event : {"ADDR_ADD"}, dev : Wans \cup Lans, family : Families, lan : {None}]
    \cup [event : {"NEIGH_ADD"}, dev : Wans, family : {None}, lan : {None}]
    \cup [event : {"FIREWALL_CHANGE"}, dev : {None}, family : {None}, lan : {None}]
    \cup [event : {"WAN_UP", "WAN_DOWN"}, dev : Wans, family : {"v4"}, lan : {None}]
    \cup [event : {"ROUTE_ADD", "ROUTE_DEL", "UP_TETHER", "DOWN_TETHER"}, dev : Wans, family : Families, lan : Lans]

WanObjects ==
  [ip : SUBSET Families, addrs : 0..MaxV6Addrs, active : SUBSET Families, gateway : BOOLEAN,
   header : BOOLEAN, partial : SUBSET Families, firewall : SUBSET Families]

Upstreams ==
  [wan : [Wans -> WanObjects], wan_up : [Families -> BOOLEAN], backhaul_is_sta_mode : BOOLEAN,
   tether : [Families -> Seq(Lans)], num_modem_pdn : [Families -> Int], flt : [Families -> Modes],
   modem : [Families -> Modes], a2_check : Int, consumer_up : SUBSET {"Q6", "USB"}, producer_up : SUBSET Lans,
   rm_set : SUBSET (Lans \X {"Q6", "USB"}), posted : Seq(Events)]

LanObjects ==
  [up : BOOLEAN, ip : SUBSET Families, addrs : 0..MaxV6Addrs, ul_set : SUBSET Families, hdl : [What -> {0} \cup Hdls]]

\* Only interfaces and handles that exist are remembered, an interface has one object, and an upstream
\* is active or waits for its header only in the families in which it has an address.
WanTypeOK ==
  /\ queue \in Seq(Events) /\ upstream \in Upstreams /\ upstream.posted = <<>>
  /\ wans \in Seq(Wans) /\ \A i, j \in 1..Len(wans) : wans[i] = wans[j] => i = j
  /\ \A w \in Wans : upstream.wan[w].active \cup upstream.wan[w].partial \subseteq upstream.wan[w].ip
  /\ lan \in [Lans -> LanObjects] /\ rules \in [Hdls -> [lan : Lans \cup {None}, what : What \cup {None}]]
  /\ conntrack \in [WanUp : BOOLEAN, table : Wans \cup {None}]
  /\ chosen \in [Families -> [Lans -> Wans \cup {None}]]

\* The sequences of events that the code is known not to handle are kept out of the properties:
\*   handover         a route is added for an upstream while another one is still chosen
\*   half down        a link goes down between the routes of its families, or that of an active USB upstream
\*   header awaited   a USB upstream loses a route, or its link, that still waits for its header
\*   usb family       a USB upstream that serves both families loses the route of one
\*   usb              a USB upstream is tethered
\*   address between  an address of a tethered interface between the route and IPA_HANDLE_WAN_UP_TETHER
\*   link between     a tethered interface goes down before IPA_HANDLE_WAN_UP_TETHER or _DOWN_TETHER
Active(f)  == {w \in ToSet(wans) : f \in upstream.wan[w].active}
Orderly    == unusual \cap {"handover", "half down", "header awaited"} = {}
Waiting(e) == \E i \in 1..Len(queue) : queue[i].event \in e

\* wan_up and wan_up_v6, which all the objects share, say whether an upstream is there: whoever
\* clears or sets the flag does so for the only upstream of the family.
UpstreamFlag ==
  Orderly => \A f \in Families : upstream.wan_up[f] <=> Active(f) # {}

\* Once IPA_HANDLE_WAN_UP and _DOWN are handled, connection tracking agrees with the upstream: the
\* NAT table is there if an IPv4 upstream is, and it has the address of that upstream.
NatOfUpstream ==
  Orderly /\ ~Waiting({"WAN_UP", "WAN_DOWN"}) =>
    /\ conntrack.WanUp <=> Active("v4") # {}
    /\ \A w \in Active("v4") : conntrack.table = w
    /\ Active("v4") = {} => conntrack.table = None

\* A tethered interface that has an address depends on the consumer of an upstream only while an
\* upstream of that kind is active, and always then: the families of one connection share the
\* dependency, and the first that goes leaves it to the other.  (For USB nobody counts the users of
\* the dependency, and the first family that goes takes it away from the other.)
RmDependKept ==
  Orderly => \A l \in Lans, w \in Wans :
    LET served == /\ lan[l].up /\ lan[l].ip # {}
                  /\ \E v \in ToSet(wans) : Consumer(v) = Consumer(w) /\ upstream.wan[v].active # {}
        kept   == <<l, Consumer(w)>> \in upstream.rm_set
    IN  (kept => served) /\ (served => kept \/ (Sta(w) /\ "usb family" \in unusual))

\* While the modem is the upstream of a family, its firewall is in force in the modem, whatever
\* addresses, families and other upstreams come and go after it.
FirewallInstalled ==
  Orderly => \A f \in Families : \A w \in Active(f) \ Stas : upstream.modem[f] = "firewall"

\* A tethered interface is in the list of a family exactly while an upstream of the family is active, or
\* waits for its header; the list is empty again when the upstream is gone.
TetheredServed ==
  Orderly => \A f \in Families :
    upstream.tether[f] # <<>> <=> \E w \in ToSet(wans) : f \in upstream.wan[w].active \cup upstream.wan[w].partial

\* With the modem as upstream no filtering rule is forgotten: an object that is there holds the
\* handle of each of its rules, and none is left when the interface has gone down.  (The rules for
\* ICMP are left behind by an interface that had no IPv4 address.)
RulesHeld ==
  unusual = {} => \A h \in Hdls :
    rules[h] # NoRule /\ rules[h].what # "icmp" =>
      lan[rules[h].lan].up /\ lan[rules[h].lan].hdl[rules[h].what] = h

\* The members that all upstreams share, the tethered interfaces, the NAT, the firewall in the modem and
\* the resource dependencies follow the upstream that is active.
UpstreamAgrees ==
  WanTypeOK /\ UpstreamFlag /\ TetheredServed /\ NatOfUpstream /\ RmDependKept /\ FirewallInstalled
=============================================================================
