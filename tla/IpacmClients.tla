---------------------------- MODULE IpacmClients ----------------------------
(***************************************************************************)
(* The clients of a tethered interface: the table that IPACM_Lan (USB) or  *)
(* IPACM_Wlan (an access point) keeps of them, with the handles of the     *)
(* headers and of the routing rules that the IPA driver holds for each.    *)
(*                                                                         *)
(* The two classes repeat the same code for their own arrays; `kind' tells *)
(* which one runs.  A client of an access point is added and deleted by    *)
(* the events of the WLAN driver and can go to power save; one of USB by   *)
(* the neighbour events.  One TX property of each family is assumed: one   *)
(* routing rule for an IPv4 address, and two for an IPv6 address, whose    *)
(* two handles (of the LAN and of the WAN table) are one number here.      *)
(***************************************************************************)
EXTENDS Integers, Sequences, FiniteSets, SequencesExt

CONSTANTS
  Macs,         \* the clients
  NoMac,        \* what a zeroed element or an unused handle holds
  V4, V6,       \* their addresses
  NoAddr,
  MaxClients,   \* IPA_MAX_NUM_ETH_CLIENTS, IPA_MAX_NUM_WIFI_CLIENTS
  MaxV6,        \* IPV6_NUM_ADDR
  MaxRoutes,    \* handles of routing rules in the driver
  MaxHeaders,   \* handles of headers in the driver
  MaxFails      \* bound on the calls of the driver that fail

ASSUME ClientsAssumption ==
  /\ NoMac \notin Macs /\ NoAddr \notin V4 \cup V6 /\ V4 \cap V6 = {}
  /\ {MaxClients, MaxV6, MaxRoutes, MaxHeaders} \subseteq Nat \ {0} /\ MaxFails \in Nat

VARIABLES
  kind,       \* "eth" or "wlan"
  up,         \* is_active: the object serves its interface
  client,     \* eth_client[], wlan_client[]: the first num_*_client elements
  routes,     \* external: the driver's routing rules
  headers,    \* external: the driver's headers
  nat,        \* the addresses that IPACM_ConntrackListener was told of
  attached,   \* history: the clients that are associated, or are neighbours
  asleep,     \* history: those the WLAN driver told to be in power save
  shifted,    \* history: an element of the array was moved
  twice,      \* history: a client was added again without having been deleted
  fails       \* history: the number of calls that failed

driver  == <<routes, headers>>
history == <<attached, asleep, shifted, twice, fails>>
vars    == <<kind, up, client, driver, nat, history>>

num        == Len(client)
RouteHdls  == 1..MaxRoutes
HeaderHdls == 1..MaxHeaders
NoRoute    == [mac |-> NoMac, addr |-> NoAddr]

Init ==
  /\ kind \in {"eth", "wlan"} /\ up = TRUE /\ client = <<>>
  /\ routes = [h \in RouteHdls |-> NoRoute] /\ headers = [h \in HeaderHdls |-> NoMac]
  /\ nat = {} /\ attached = {} /\ asleep = {} /\ shifted = FALSE /\ twice = FALSE /\ fails = 0

\* get_eth_client_index(), get_wlan_client_index(): the first element with the address.
Known(m)   == \E i \in 1..num : client[i].mac = m
indexOf(m) == Min({i \in 1..num : client[i].mac = m})

\* The driver gives out the lowest handles that are free.
Unused(rs, none) ==
  LET free == {h \in DOMAIN rs : rs[h] = none} IN
  [k \in 1..Cardinality(free) |-> CHOOSE h \in free : Cardinality({g \in free : g <= h}) = k]

\* Of `calls' calls of the driver only `good' succeed.
Counted(good, calls) ==
  /\ fails' = (IF good < calls THEN fails + 1 ELSE fails)
  /\ fails' <= MaxFails

-----------------------------------------------------------------------------
(* One element of the array                                                *)

\* handle_eth_hdr_init(), handle_wlan_client_init_ex(): the headers for IPv4 and for IPv6.
NewClient(m, h4, h6) ==
  [mac |-> m, hdr_hdl_v4 |-> h4, hdr_hdl_v6 |-> h6, ipv4_header_set |-> TRUE, ipv6_header_set |-> TRUE,
   v4_addr |-> NoAddr, ipv4_set |-> FALSE, v6_addr |-> <<>>,
   route_rule_set_v4 |-> FALSE, route_rule_set_v6 |-> 0, rt_hdl_v4 |-> 0, rt_hdl_v6 |-> <<>>,
   power_save_set |-> FALSE]

\* The headers in the driver when `good' of the two calls succeeded.
HeadersAdded(m, good) ==
  LET hs == Unused(headers, NoMac) IN
  [h \in HeaderHdls |-> IF \E k \in 1..good : hs[k] = h THEN m ELSE headers[h]]

\* DeleteHeaderHdl() is called for the handles whose flags are set.
HeadersOf(c) == (IF c.ipv4_header_set THEN {c.hdr_hdl_v4} ELSE {}) \cup (IF c.ipv6_header_set THEN {c.hdr_hdl_v6} ELSE {})
WithoutHeaders(hdls) == [h \in HeaderHdls |-> IF h \in hdls THEN NoMac ELSE headers[h]]

\* handle_eth_client_ipaddr(), handle_wlan_client_ipaddr(): the addresses that are taken over.
Accepts(c, a) ==
  IF a \in V4 THEN ~c.ipv4_set \/ c.v4_addr # a
  ELSE Len(c.v6_addr) < MaxV6 /\ a \notin ToSet(c.v6_addr)

AddrAdded(c, a) ==
  IF a \in V4 THEN [c EXCEPT !.v4_addr = a, !.ipv4_set = TRUE, !.route_rule_set_v4 = FALSE]
  ELSE [c EXCEPT !.v6_addr = Append(@, a)]

\* delete_eth_rtrules(), delete_default_qos_rtrules(): the handles are used while the flags are set.
\* (DeleteRoutingHdl() reports no failure.)
HandlesV4(c) == IF c.route_rule_set_v4 THEN {c.rt_hdl_v4} ELSE {}
HandlesV6(c) == {c.rt_hdl_v6[k] : k \in 1..c.route_rule_set_v6}
Unroute(hdls, rs) == [h \in RouteHdls |-> IF h \in hdls THEN NoRoute ELSE rs[h]]
NotRoutedV4(c) == [c EXCEPT !.route_rule_set_v4 = FALSE, !.rt_hdl_v4 = 0]
NotRoutedV6(c) == [c EXCEPT !.route_rule_set_v6 = 0, !.rt_hdl_v6 = <<>>]

\* handle_eth_client_route_rule(), handle_wlan_client_route_rule(): the calls for the rules that
\* are missing, and what is left after `good' of them.  Rules added before a failure, also the
\* first one of a pair, are in the driver and are forgotten.
Calls(c, family) ==
  IF c.power_save_set THEN 0
  ELSE IF family = "v4" THEN (IF c.ipv4_set /\ ~c.route_rule_set_v4 THEN 1 ELSE 0)
  ELSE 2 * (Len(c.v6_addr) - c.route_rule_set_v6)

HandlesTaken(family, good) == IF family = "v4" THEN good ELSE (good + 1) \div 2

RoutesAfter(c, family, rs, good) ==
  LET hs == Unused(rs, NoRoute)  n == HandlesTaken(family, good)
      addr(k) == IF family = "v4" THEN c.v4_addr ELSE c.v6_addr[c.route_rule_set_v6 + k] IN
  [h \in RouteHdls |-> IF \E k \in 1..n : hs[k] = h
                       THEN [mac |-> c.mac, addr |-> addr(CHOOSE k \in 1..n : hs[k] = h)]
                       ELSE rs[h]]

ClientAfter(c, family, rs, good) ==
  LET hs == Unused(rs, NoRoute)  n == HandlesTaken(family, good) IN
  IF good < Calls(c, family) \/ good = 0 THEN c
  ELSE IF family = "v4" THEN [c EXCEPT !.route_rule_set_v4 = TRUE, !.rt_hdl_v4 = hs[1]]
  ELSE [c EXCEPT !.route_rule_set_v6 = @ + n, !.rt_hdl_v6 = @ \o SubSeq(hs, 1, n)]

-----------------------------------------------------------------------------
(* The events of the clients                                               *)

\* IPA_WLAN_CLIENT_ADD_EVENT_EX.  Nobody looks whether the client is there already.
WlanClientAdd(m) ==
  LET hs == Unused(headers, NoMac) IN
  /\ kind = "wlan" /\ up /\ num < MaxClients
  /\ \E good \in 0..2 :
       /\ good <= Len(hs) /\ Counted(good, 2)
       /\ headers' = HeadersAdded(m, good)
       /\ client' = IF good = 2 THEN Append(client, NewClient(m, hs[1], hs[2])) ELSE client
  /\ attached' = attached \cup {m} /\ asleep' = asleep \ {m}
  /\ twice' = (twice \/ Known(m))
  /\ UNCHANGED <<kind, up, routes, nat, shifted>>

\* The rest of IPA_NEIGH_CLIENT_IP_ADDR_ADD_EVENT, for the element at place i: an IPv4 address
\* that changes takes its NAT entries and its route with it.
AddrEvent(cs, i, a) ==
  LET c  == cs[i]
      c1 == AddrAdded(c, a)
      family == IF a \in V4 THEN "v4" ELSE "v6"
      rs == IF a \in V4 THEN Unroute(HandlesV4(c), routes) ELSE routes IN
  \E good \in 0..Calls(c1, family) :
    /\ HandlesTaken(family, good) <= Len(Unused(rs, NoRoute)) /\ Counted(good, Calls(c1, family))
    /\ client' = [cs EXCEPT ![i] = ClientAfter(c1, family, rs, good)]
    /\ routes' = RoutesAfter(c1, family, rs, good)
    /\ nat' = IF a \in V4 THEN (nat \ (IF c.ipv4_set THEN {c.v4_addr} ELSE {})) \cup {a} ELSE nat

\* IPA_NEIGH_CLIENT_IP_ADDR_ADD_EVENT for a client in the table.
NeighAdd(m, a) ==
  /\ up /\ Known(m) /\ Accepts(client[indexOf(m)], a)
  /\ AddrEvent(client, indexOf(m), a)
  /\ UNCHANGED <<kind, up, headers, attached, asleep, shifted, twice>>

\* The same for a client of USB that is new: its headers come first.  A failure there leaves the
\* client out, and the header for IPv4 in the driver.
NeighAddNew(m, a) ==
  LET hs == Unused(headers, NoMac) IN
  /\ kind = "eth" /\ up /\ ~Known(m) /\ num < MaxClients /\ Len(hs) >= 2
  /\ \/ /\ AddrEvent(Append(client, NewClient(m, hs[1], hs[2])), num + 1, a)
        /\ headers' = HeadersAdded(m, 2)
     \/ /\ fails < MaxFails /\ fails' = fails + 1
        /\ \E good \in 0..1 : headers' = HeadersAdded(m, good)
        /\ UNCHANGED <<client, routes, nat>>
  /\ attached' = attached \cup {m}
  /\ UNCHANGED <<kind, up, asleep, shifted, twice>>

\* Mutant of Removed: the handles of the routes stay behind when an element is moved.
RemovedHandles(i) ==
  [j \in 1..(num - 1) |->
     IF j < i THEN client[j]
     ELSE [client[j + 1] EXCEPT !.power_save_set = client[j].power_save_set, !.rt_hdl_v4 = client[j].rt_hdl_v4]]

\* The elements behind i move down, field by field; power_save_set is not among the fields.
Removed(i) ==
  [j \in 1..(num - 1) |->
     IF j < i THEN client[j] ELSE [client[j + 1] EXCEPT !.power_save_set = client[j].power_save_set]]

UnrouteAll(c, rs) == Unroute(HandlesV4(c) \cup HandlesV6(c), rs)

\* handle_eth_client_down_evt(), handle_wlan_client_down_evt(): the NAT entries, the routes, and the
\* headers one by one; the element stays when a header cannot be deleted.
ClientDown(m) ==
  LET i == indexOf(m)
      c == client[i]
      off == NotRoutedV4(NotRoutedV6(c)) IN
  /\ up /\ m \in attached
  /\ attached' = attached \ {m} /\ asleep' = asleep \ {m}
  /\ IF ~Known(m) THEN UNCHANGED <<client, driver, nat, shifted, fails>>
     ELSE /\ nat' = nat \ (IF c.ipv4_set THEN {c.v4_addr} ELSE {})
          /\ routes' = UnrouteAll(c, routes)
          /\ \/ /\ client' = Removed(i) /\ shifted' = (shifted \/ i < num)
                /\ headers' = WithoutHeaders(HeadersOf(c))
                /\ UNCHANGED fails
             \/ /\ c.ipv4_header_set /\ Counted(0, 1)
                /\ client' = [client EXCEPT ![i] = off] /\ UNCHANGED <<headers, shifted>>
             \/ /\ c.ipv6_header_set /\ Counted(0, 1)
                /\ client' = [client EXCEPT ![i] = [off EXCEPT !.ipv4_header_set = FALSE]]
                /\ headers' = WithoutHeaders(HeadersOf([c EXCEPT !.ipv6_header_set = FALSE]))
                /\ UNCHANGED shifted
  /\ UNCHANGED <<kind, up, twice>>

\* IPA_WLAN_CLIENT_POWER_SAVE_EVENT: handle_wlan_client_pwrsave().
PowerSave(m) ==
  /\ kind = "wlan" /\ up /\ m \in attached \ asleep
  /\ asleep' = asleep \cup {m}
  /\ IF Known(m) /\ ~client[indexOf(m)].power_save_set
     THEN LET c == client[indexOf(m)] IN
          /\ routes' = UnrouteAll(c, routes)
          /\ client' = [client EXCEPT ![indexOf(m)] =
                          [NotRoutedV4(NotRoutedV6(c)) EXCEPT !.power_save_set = TRUE]]
     ELSE UNCHANGED <<client, routes>>
  /\ UNCHANGED <<kind, up, headers, nat, attached, shifted, twice, fails>>

\* Mutant of Recover: only the route for IPv4 is added.
RecoverV4(m) ==
  /\ kind = "wlan" /\ up /\ m \in asleep
  /\ asleep' = asleep \ {m}
  /\ IF Known(m) /\ client[indexOf(m)].power_save_set
     THEN LET c == [client[indexOf(m)] EXCEPT !.power_save_set = FALSE] IN
          \E good4 \in 0..Calls(c, "v4") :
            /\ Counted(good4, Calls(c, "v4"))
            /\ client' = [client EXCEPT ![indexOf(m)] = ClientAfter(c, "v4", routes, good4)]
            /\ routes' = RoutesAfter(c, "v4", routes, good4)
     ELSE UNCHANGED <<client, routes, fails>>
  /\ UNCHANGED <<kind, up, headers, nat, attached, shifted, twice>>

\* IPA_WLAN_CLIENT_RECOVER_EVENT: the routes for IPv4 and those for IPv6.
Recover(m) ==
  /\ kind = "wlan" /\ up /\ m \in asleep
  /\ asleep' = asleep \ {m}
  /\ IF Known(m) /\ client[indexOf(m)].power_save_set
     THEN LET c == [client[indexOf(m)] EXCEPT !.power_save_set = FALSE] IN
          \E good4 \in 0..Calls(c, "v4"), good6 \in 0..Calls(c, "v6") :
            LET c4 == ClientAfter(c, "v4", routes, good4)
                r4 == RoutesAfter(c, "v4", routes, good4) IN
            /\ good4 + HandlesTaken("v6", good6) <= Len(Unused(routes, NoRoute))
            /\ Counted(good4 + good6, Calls(c, "v4") + Calls(c, "v6"))
            /\ client' = [client EXCEPT ![indexOf(m)] = ClientAfter(c4, "v6", r4, good6)]
            /\ routes' = RoutesAfter(c4, "v6", r4, good6)
     ELSE UNCHANGED <<client, routes, fails>>
  /\ UNCHANGED <<kind, up, headers, nat, attached, shifted, twice>>

\* handle_lan_client_reset_rt(), handle_wlan_client_reset_rt() for IPv6, when the WAN lost it.
ClientResetRt ==
  /\ up /\ client # <<>>
  /\ routes' = Unroute(UNION {HandlesV6(client[i]) : i \in 1..num}, routes)
  /\ client' = [i \in 1..num |-> [NotRoutedV6(client[i]) EXCEPT !.v6_addr = <<>>]]
  /\ UNCHANGED <<kind, up, headers, nat, history>>

\* The loop of handle_down_evt() over the clients ends with the first `n' of them deleted; one
\* that is left may have lost its header for IPv4.
ClientsDown(n) ==
  LET tried == 1..(IF n < num THEN n + 1 ELSE num) IN
  /\ nat' = nat \ {client[i].v4_addr : i \in {j \in tried : client[j].ipv4_set}}
  /\ routes' = Unroute(UNION {HandlesV4(client[i]) \cup HandlesV6(client[i]) : i \in tried}, routes)
  /\ \E rest \in {{}} \cup {HeadersOf(client[i]) \ {client[i].hdr_hdl_v6} : i \in tried \ 1..n} :
       headers' = WithoutHeaders(rest \cup UNION {HeadersOf(client[i]) : i \in 1..n})

\* The part of handle_down_evt() that is about the clients.  A header that cannot be deleted ends
\* it; the object goes away all the same, with what it has of the clients behind.
InterfaceDown ==
  /\ up /\ up' = FALSE
  /\ \E n \in 0..num : Counted(n, num) /\ ClientsDown(n)
  /\ client' = <<>>
  /\ attached' = {} /\ asleep' = {} /\ shifted' = FALSE /\ twice' = FALSE
  /\ UNCHANGED kind

\* The next object for the interface.
InterfaceUp ==
  /\ ~up /\ up' = TRUE
  /\ UNCHANGED <<kind, client, driver, nat, history>>

Next ==
  \/ \E m \in Macs : WlanClientAdd(m)
  \/ \E m \in Macs, a \in V4 \cup V6 : NeighAdd(m, a)
  \/ \E m \in Macs, a \in V4 \cup V6 : NeighAddNew(m, a)
  \/ \E m \in Macs : ClientDown(m)
  \/ \E m \in Macs : PowerSave(m)
  \/ \E m \in Macs : Recover(m)
  \/ ClientResetRt
  \/ InterfaceDown
  \/ InterfaceUp

Spec == Init /\ [][Next]_vars

-----------------------------------------------------------------------------
Clients ==
  [mac : Macs, hdr_hdl_v4 : HeaderHdls, hdr_hdl_v6 : HeaderHdls, ipv4_header_set : BOOLEAN,
   ipv6_header_set : BOOLEAN, v4_addr : V4 \cup {NoAddr}, ipv4_set : BOOLEAN, v6_addr : Seq(V6),
   route_rule_set_v4 : BOOLEAN, route_rule_set_v6 : 0..MaxV6, rt_hdl_v4 : 0..MaxRoutes,
   rt_hdl_v6 : Seq(RouteHdls), power_save_set : BOOLEAN]

TypeOK ==
  /\ kind \in {"eth", "wlan"} /\ {up, shifted, twice} \subseteq BOOLEAN
  /\ client \in Seq(Clients) /\ num <= MaxClients
  /\ routes \in [RouteHdls -> [mac : Macs, addr : V4 \cup V6] \cup {NoRoute}]
  /\ headers \in [HeaderHdls -> Macs \cup {NoMac}]
  /\ nat \subseteq V4 /\ asleep \subseteq attached /\ attached \subseteq Macs /\ fails \in 0..MaxFails

\* The handles in an element of the array are those of its own client's headers and rules, also
\* after elements were moved and calls of the driver failed: deleting a client never takes the
\* header or the route of another one.
ClientHandlesOwn ==
  \A i \in 1..num :
    LET c == client[i] IN
    /\ c.ipv4_header_set => headers[c.hdr_hdl_v4] = c.mac
    /\ c.ipv6_header_set => headers[c.hdr_hdl_v6] = c.mac
    /\ c.route_rule_set_v4 => /\ c.rt_hdl_v4 \in RouteHdls
                              /\ routes[c.rt_hdl_v4] = [mac |-> c.mac, addr |-> c.v4_addr]
    /\ \A k \in 1..c.route_rule_set_v6 : routes[c.rt_hdl_v6[k]] = [mac |-> c.mac, addr |-> c.v6_addr[k]]

\* As long as no call failed, every header and every rule of the driver is in the array, so that
\* nothing is left in the driver when the interface goes down.
NothingLeftInDriver ==
  fails = 0 =>
    /\ \A h \in RouteHdls : routes[h] # NoRoute =>
         \E i \in 1..num : h \in HandlesV4(client[i]) \cup HandlesV6(client[i])
    /\ \A h \in HeaderHdls : headers[h] # NoMac => \E i \in 1..num : h \in {client[i].hdr_hdl_v4, client[i].hdr_hdl_v6}

\* The hardware routes nothing to a client that has left, even when its address is reported once
\* more afterwards (unless the client was added twice and deleted once).
GoneNotRouted ==
  fails = 0 /\ ~twice => \A h \in RouteHdls : routes[h] # NoRoute => routes[h].mac \in attached

\* The hardware routes nothing to a client in power save, as long as no element was moved: the
\* flag stays at its place when its client moves.
AsleepNotRouted ==
  fails = 0 /\ ~shifted /\ ~twice => \A h \in RouteHdls : routes[h].mac \notin asleep

\* A client that is awake has the routes of all its addresses, as long as no element was moved.
AwakeRouted ==
  fails = 0 /\ ~shifted /\ ~twice =>
    \A i \in 1..num : client[i].mac \notin asleep =>
      /\ client[i].ipv4_set => client[i].route_rule_set_v4
      /\ client[i].route_rule_set_v6 = Len(client[i].v6_addr)

\* The connection tracking is told when an address is given up: it knows none that no client has.
NatAddressesHeld ==
  fails = 0 => nat \subseteq {client[i].v4_addr : i \in {j \in 1..num : client[j].ipv4_set}}

\* Elements move and calls fail: each still has its own handles, and headers, routes and
\* the NAT's addresses go when their client goes.
HandlesKept == TypeOK /\ ClientHandlesOwn /\ NothingLeftInDriver /\ NatAddressesHeld

\* A client is routed exactly while it is there and awake.
RoutedWhileAwake == GoneNotRouted /\ AsleepNotRouted /\ AwakeRouted
=============================================================================
